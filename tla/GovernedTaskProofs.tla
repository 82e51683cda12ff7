------------------------- MODULE GovernedTaskProofs -------------------------
(***************************************************************************)
(* What holds of a governed task and its Change for any number of calls,   *)
(* runs, repair rounds, crashes and moves by people.  The inductive        *)
(* invariant has three layers:                                             *)
(*   - Books, always: who holds the task, which run handed in which        *)
(*     revision, which runs the fibers have in their hands, no two alike;  *)
(*   - Round, while no window was hit: there is no second Change, what is  *)
(*     reviewed passed, what is shown is current, a proof of the run that  *)
(*     holds the task is the one in PREFLIGHT, and nobody is about to take *)
(*     it into review;                                                     *)
(*   - Alone, while, besides, no person moved the task: which statuses go  *)
(*     with which states of the Change.                                    *)
(* Each layer is shown to be kept by the steps of a dispatch, repair or    *)
(* completion (Running), of the controller (Controlling), of recovery      *)
(* (Recovering), of a call that begins and of everything else (Outside).   *)
(***************************************************************************)
EXTENDS GovernedTask, TLAPS

Late == {"PREFLIGHT", "REVIEW", "REPAIR", "APPROVED"}
Reviewed == {"PREFLIGHT", "REVIEW", "APPROVED"}
(* Fiber f works for the run it took.                                      *)
Bears(f) == pc[f] \in {"guard", "begin", "work", "lease", "prove", "finish",
                       "launch", "submit", "trouble"}
(* Fiber f is about to take revision v into review.                        *)
Pending(f, v) == pc[f] \in {"reserve", "advance"} /\ job[f].rev = v

(* Stages in which a fiber has neither a run nor a review in its hands.    *)
Plain == {"idle", "read", "decide", "settle", "escalate", "preflight", "route",
          "scan", "compare"}

(* What every state keeps, whatever slips: of the stores, of each fiber.   *)
HolderIsHeld == task.status \in Held <=> task.holder # None
RunsCounted == /\ task.holder # None => task.holder <= used.runs
               /\ \A v \in Revisions : author[v] # None => author[v] <= used.runs
RoundsCounted == /\ change.state \in Late <=> change.revision > 0
                 /\ \A v \in Revisions : v > change.revision => author[v] = None
TimerIsLate == timer => change.state \in Late
SnapshotKnown == snapshot = "APPROVED" => change.state = "APPROVED"
StoreBooks == HolderIsHeld /\ RunsCounted /\ RoundsCounted /\ TimerIsLate /\ SnapshotKnown
FiberBooks(f) ==
  /\ job[f].run # None => job[f].run <= used.runs
  /\ job[f].rev <= change.revision
  /\ pc[f] = "reserve" => job[f].rev > 0
  /\ pc[f] \in {"guard", "begin"} => job[f].kind = "initial"
  /\ Bears(f) => /\ job[f].run # None
                 /\ job[f].kind = "initial" \/ change.state \in Late
  /\ pc[f] \in {"recheck", "claim", "launch", "submit", "trouble"} => change.state \in Late
  /\ pc[f] = "reconcile" =>
       /\ job[f].kind = "half" => change.state \in Late
       /\ job[f].kind = "approved" => change.state = "APPROVED"
RunsApart == \A f, g \in Fiber :
  f # g /\ Bears(f) /\ Bears(g) => job[f].run # job[g].run
Books == StoreBooks /\ RunsApart /\ \A f \in Fiber : FiberBooks(f)

(* What every state keeps while nothing slipped.                           *)
Preflighted == change.state \in {"REVIEW", "REPAIR", "APPROVED"}
                 => change.passed = change.revision
Shown == task.status = "in_review" =>
           /\ change.state \in Late
           /\ change.state # "REPAIR" => task.result = change.revision
Owned == \A v \in Revisions : task.status \in Held /\ author[v] = task.holder
                                => v = change.revision /\ change.state = "PREFLIGHT"
Finished == task.status = "done" => change.state \in {"none", "APPROVED"}
Requested == task.status = "changes_requested" => change.state = "REPAIR" /\ ~Exhausted
StoreRound == Preflighted /\ Shown /\ Owned /\ Finished /\ Requested
FiberRound(f) ==
  /\ Pending(f, change.revision) => change.passed = change.revision
  /\ \A v \in Revisions : task.status \in Held /\ author[v] = task.holder => ~Pending(f, v)
  /\ pc[f] = "finish" => \E v \in Revisions : author[v] = job[f].run
  /\ change.state = "none" => pc[f] \in {"idle", "guard", "scan"}
Round == StoreRound /\ \A f \in Fiber : FiberRound(f)

(* What every state keeps while, besides, no person moved the task.        *)
Unmoved == task.status \notin {"blocked", "cancelled"}
ReadyIsUnproved == task.status = "ready"
                     => change.state \notin Reviewed \union {"IMPLEMENTING"}
HolderIsAuthor == task.status \in Held /\ change.state \in Reviewed
                    => \E v \in Revisions : author[v] = task.holder
FailedIsUnreviewed == task.status = "failed" => change.state \notin {"REVIEW", "APPROVED"}
OpenIsRepairable == task.status \in Held \union {"ready"} /\ change.state = "REPAIR"
                      => ~Exhausted
StoreAlone == /\ Unmoved /\ ReadyIsUnproved /\ HolderIsAuthor
              /\ FailedIsUnreviewed /\ OpenIsRepairable
FailedIsEscalated == task.status = "failed" /\ change.state = "REPAIR" /\ Exhausted
                       => escalated \/ \E f \in Fiber : pc[f] = "escalate"
FiberAlone(f) ==
  /\ task.status = "failed" /\ change.state = "PREFLIGHT" => ~Pending(f, change.revision)
  /\ pc[f] \in {"guard", "begin", "launch", "work"}
       => \A v \in Revisions : author[v] # job[f].run
  /\ change.state = "IMPLEMENTING" /\ pc[f] \in {"guard", "begin"}
       => task.holder # job[f].run
  /\ change.state \notin Late /\ pc[f] \in {"work", "lease", "prove"}
       => task.holder = job[f].run
Alone == StoreAlone /\ FailedIsEscalated /\ \A f \in Fiber : FiberAlone(f)

(* Until a slip there is one Change.                                       *)
Single == slips = {} => ~change.again

IInv == /\ TypeOK /\ Books /\ Single
        /\ slips = {} => Round
        /\ slips = {} /\ used.moves = 0 => Alone

TaskOK == task \in [status : Statuses, holder : Runs \union {None}, live : BOOLEAN,
                    result : 0 .. MaxRepairRounds + 1]
ChangeOK == change \in [state : States, revision : 0 .. MaxRepairRounds + 1,
                        how : {"none", "submitted", "repair_submitted"},
                        passed : 0 .. MaxRepairRounds + 1, again : BOOLEAN]
AuthorOK == author \in [Revisions -> Runs \union {None}]
JobRow == [run : Runs \union {None}, held : Runs \union {None},
           kind : {"none", "initial", "repair", "expired", "half", "approved", "realign"},
           seen : Statuses, rev : 0 .. MaxRepairRounds + 1]
FibersOK == pc \in [Fiber -> Stages] /\ job \in [Fiber -> JobRow]
RolesOK == reviewer \subseteq Revisions /\ bound \subseteq Runs /\ escalated \in BOOLEAN
MemoryOK == /\ snapshot \in States \union {None}
            /\ host \in {"down", "starting", "up"}
            /\ timer \in BOOLEAN /\ due \subseteq {"event", "scan"}
UsedOK == used \in [runs : 0 .. MaxRuns, crashes : 0 .. MaxCrashes, moves : 0 .. MaxMoves]

(* The type, part by part, of a state and of its successor.                *)
LEMMA TypeParts ==
  /\ TypeOK => /\ TaskOK /\ ChangeOK /\ AuthorOK /\ FibersOK /\ RolesOK /\ MemoryOK
               /\ UsedOK /\ slips \subseteq Windows
  /\ /\ TaskOK' /\ ChangeOK' /\ AuthorOK' /\ FibersOK' /\ RolesOK' /\ MemoryOK'
     /\ UsedOK' /\ slips' \subseteq Windows
     => TypeOK'
BY DEF TypeOK, TaskOK, ChangeOK, AuthorOK, FibersOK, JobRow, RolesOK, MemoryOK, UsedOK

(* A lookup finds the Change, or the DRAFT that was made beside it.        *)
LEMMA FoundIs ==
  ASSUME ChangeOK
  PROVE  /\ Found \in States
         /\ Found # "DRAFT" => Found = change.state /\ ~change.again
         /\ Unlinked => change.state \in {"none", "APPROVED"} /\ ~change.again
         /\ Found = "none" <=> change.state = "none" /\ ~change.again
BY DEF Found, Unlinked, ChangeOK, States

(* A Change is bootstrapped, or a second one beside it.                    *)
LEMMA BootstrapWrites ==
  ASSUME ChangeOK, slips \subseteq Windows, Bootstrap
  PROVE  /\ ChangeOK' /\ slips' \subseteq Windows
         /\ \/ /\ change.state = "none" /\ Enter("DRAFT")
               /\ task.status \notin Active => slips' # {}
            \/ /\ change.state = "APPROVED" /\ slips' # {}
               /\ change'.state = change.state /\ change'.revision = change.revision
<1>1. change.state \in {"none", "APPROVED"}
  BY FoundIs DEF Bootstrap
<1>2. slips' \subseteq Windows
  BY DEF Bootstrap
<1>3. CASE change.state = "none"
  <2>1. Enter("DRAFT") /\ (task.status \notin Active => "late_bootstrap" \in slips')
    BY <1>3 DEF Bootstrap
  <2>2. ChangeOK'
    BY <2>1 DEF Enter, ChangeOK, States
  <2> QED BY <1>2, <1>3, <2>1, <2>2
<1>4. CASE change.state = "APPROVED"
  <2>1. change' = [change EXCEPT !.again = TRUE] /\ "second_change" \in slips'
    BY <1>4 DEF Bootstrap
  <2>2. ChangeOK' /\ change'.state = change.state /\ change'.revision = change.revision
    BY <2>1 DEF ChangeOK
  <2> QED BY <1>2, <1>4, <2>1, <2>2
<1> QED BY <1>1, <1>3, <1>4

(* A write that moves the task leaves it unheld.                           *)
LEMMA MoveWrites ==
  ASSUME TaskOK, NEW s \in Statuses, Move(s)
  PROVE  /\ TaskOK' /\ task'.status = s /\ task'.holder = None /\ task'.live = FALSE
         /\ task'.result = task.result
BY DEF TaskOK, Move

(* A write that shows revision r leaves the task unheld.                   *)
LEMMA ShowWrites ==
  ASSUME TaskOK, NEW s \in Statuses, NEW r \in 0 .. MaxRepairRounds + 1, Show(s, r)
  PROVE  /\ TaskOK' /\ task'.status = s /\ task'.holder = None /\ task'.live = FALSE
         /\ task'.result = r
BY DEF TaskOK, Show

(* Only a held task whose lease ran out is released.                       *)
LEMMA ReleaseWrites ==
  ASSUME TaskOK, ReleaseExpired
  PROVE  /\ TaskOK'
         /\ IF task.status \in Held /\ ~task.live
            THEN task'.status = "ready" /\ task'.holder = None
            ELSE task' = task
BY MoveWrites DEF ReleaseExpired, TaskOK, Statuses

(* A transition of the Change keeps its revision and what passed.          *)
LEMMA EnterWrites ==
  ASSUME ChangeOK, NEW s \in States, Enter(s)
  PROVE  /\ ChangeOK' /\ change'.state = s /\ change'.revision = change.revision
         /\ change'.passed = change.passed /\ change'.how = change.how
BY DEF ChangeOK, Enter

(* A proof opens the next revision, in the name of its run.                *)
LEMMA SubmitWrites ==
  ASSUME ChangeOK, AuthorOK, FibersOK, NEW f \in Fiber,
         NEW how \in {"submitted", "repair_submitted"}, Submit(f, how)
  PROVE  /\ ChangeOK' /\ AuthorOK'
         /\ change'.state = "PREFLIGHT" /\ change'.revision = change.revision + 1
         /\ change'.passed = change.passed /\ change'.how = how
         /\ change.revision + 1 \in Revisions
         /\ author' = [author EXCEPT ![change.revision + 1] = job[f].run]
<1>1. change.revision + 1 \in Revisions /\ change.revision + 1 \in 0 .. MaxRepairRounds + 1
  BY GovernedAssumption DEF Submit, Revisions
<1>2. job[f].run \in Runs \union {None} BY DEF FibersOK, JobRow
<1>3. ChangeOK' /\ change'.state = "PREFLIGHT" /\ change'.revision = change.revision + 1
      /\ change'.passed = change.passed /\ change'.how = how
  BY <1>1 DEF ChangeOK, Submit, States
<1>4. author' = [author EXCEPT ![change.revision + 1] = job[f].run] BY DEF Submit
<1>5. AuthorOK' BY <1>1, <1>2, <1>4 DEF AuthorOK
<1> QED BY <1>1, <1>3, <1>4, <1>5

(* A fiber moves on alone.                                                 *)
LEMMA GotoWrites ==
  ASSUME FibersOK, NEW f \in Fiber, NEW s \in Stages, Goto(f, s)
  PROVE  /\ pc' \in [Fiber -> Stages] /\ pc'[f] = s
         /\ \A g \in Fiber : g # f => pc'[g] = pc[g]
BY DEF FibersOK, Goto

(* A fiber with nothing to do has a job of the type.                       *)
LEMMA NoJobFits == NoJob \in JobRow
BY GovernedAssumption DEF NoJob, JobRow, Statuses

(* A fiber that returns is idle, with nothing in its hands.                *)
LEMMA ReturnWrites ==
  ASSUME FibersOK, RolesOK, NEW f \in Fiber, Return(f)
  PROVE  /\ FibersOK' /\ bound' \subseteq Runs /\ pc'[f] = "idle" /\ job'[f] = NoJob
         /\ \A g \in Fiber : g # f => pc'[g] = pc[g] /\ job'[g] = job[g]
<1>1. "idle" \in Stages BY DEF Stages
<1> QED BY <1>1, NoJobFits, GotoWrites DEF Return, FibersOK, RolesOK

(* A claim takes the next run.                                             *)
LEMMA TakeRunWrites ==
  ASSUME UsedOK, FibersOK, NEW f \in Fiber, NEW kind \in {"initial", "repair"},
         NEW held \in BOOLEAN, TakeRun(f, kind, held)
  PROVE  /\ UsedOK' /\ job' \in [Fiber -> JobRow]
         /\ used'.runs = used.runs + 1 /\ used'.moves = used.moves
         /\ used.runs + 1 \in Runs
         /\ job'[f].run = used.runs + 1 /\ job'[f].kind = kind /\ job'[f].rev = job[f].rev
         /\ \A g \in Fiber : g # f => job'[g] = job[g]
<1> DEFINE j == [job[f] EXCEPT !.run = used.runs + 1, !.kind = kind,
                               !.held = IF held THEN used.runs + 1 ELSE @]
<1>1. used.runs + 1 \in Runs /\ used.runs + 1 \in 0 .. MaxRuns
  BY GovernedAssumption DEF TakeRun, UsedOK, Runs
<1>2. j \in JobRow /\ j.run = used.runs + 1 /\ j.kind = kind /\ j.rev = job[f].rev
  BY <1>1 DEF FibersOK, JobRow
<1>3. job' = [job EXCEPT ![f] = j] BY DEF TakeRun, FibersOK, JobRow
<1> HIDE DEF j
<1>4. /\ job' \in [Fiber -> JobRow] /\ job'[f] = j
      /\ \A g \in Fiber : g # f => job'[g] = job[g]
  BY <1>2, <1>3 DEF FibersOK
<1>5. UsedOK' /\ used'.runs = used.runs + 1 /\ used'.moves = used.moves
  BY <1>1 DEF TakeRun, UsedOK
<1> QED BY <1>1, <1>2, <1>4, <1>5

(* A step that hits a window leaves it in slips.                           *)
LEMMA SlipHappens ==
  ASSUME slips \subseteq Windows, NEW kind, Slip(kind)
  PROVE  slips' \subseteq Windows /\ slips' # {}
BY DEF Slip

(* What a step does not write keeps its type.                              *)
LEMMA Unwritten ==
  /\ TaskOK /\ task' = task => TaskOK'
  /\ ChangeOK /\ change' = change => ChangeOK'
  /\ AuthorOK /\ author' = author => AuthorOK'
  /\ FibersOK /\ pc' = pc /\ job' = job => FibersOK'
  /\ FibersOK /\ pc' \in [Fiber -> Stages] /\ job' = job => FibersOK'
  /\ pc' \in [Fiber -> Stages] /\ job' \in [Fiber -> JobRow] => FibersOK'
  /\ UsedOK /\ used' = used => UsedOK'
  /\ MemoryOK /\ snapshot' = snapshot /\ host' = host /\ timer' = timer /\ due' = due => MemoryOK'
  /\ RolesOK /\ reviewer' = reviewer /\ bound' \subseteq Runs /\ escalated' = escalated => RolesOK'
  /\ RolesOK /\ bound' \subseteq bound => bound' \subseteq Runs
  /\ RolesOK => bound \subseteq Runs
BY DEF TaskOK, ChangeOK, AuthorOK, FibersOK, UsedOK, MemoryOK, RolesOK

(* A completion that throws fails the task of a dispatch and leaves the    *)
(* task of a repair to be looked at.                                       *)
LEMMA GiveUp ==
  ASSUME TypeOK, NEW f \in Fiber, Throw(f)
  PROVE  /\ TaskOK' /\ FibersOK' /\ bound' \subseteq Runs
         /\ \A g \in Fiber : g # f => pc'[g] = pc[g] /\ job'[g] = job[g]
         /\ \/ /\ job[f].kind # "initial" /\ task' = task
               /\ pc'[f] = "trouble" /\ job'[f] = job[f]
            \/ /\ job[f].kind = "initial" /\ pc'[f] = "idle" /\ job'[f] = NoJob
               /\ IF HoldsLease(job[f].run)
                  THEN task'.status = "failed" /\ task'.holder = None
                  ELSE task' = task
<1>1. "failed" \in Statuses /\ "trouble" \in Stages BY DEF Statuses, Stages
<1>2. CASE job[f].kind = "initial"
  BY <1>1, <1>2, TypeParts, Unwritten, MoveWrites, ReturnWrites DEF Throw
<1>3. CASE job[f].kind # "initial"
  <2>1. bound' \subseteq bound BY <1>3 DEF Throw
  <2> QED BY <1>1, <1>3, <2>1, TypeParts, Unwritten, GotoWrites DEF Throw
<1> QED BY <1>2, <1>3

(* Types are kept by the steps of a dispatch, a repair and a completion.   *)
LEMMA RunningTypes ==
  ASSUME TypeOK, Books, NEW f \in Fiber, Running(f)
  PROVE  TypeOK'
<1> USE TypeParts, Unwritten
<1>1. CASE Guard(f)
  BY <1>1, MoveWrites, GotoWrites, ReturnWrites, SlipHappens DEF Guard, Stages, Statuses, memory
<1>2. CASE Begin(f)
  <2>1. HoldsLease(job[f].run) => job[f].run \in Runs
    BY DEF Books, StoreBooks, HolderIsHeld, HoldsLease, TaskOK
  <2>2. TaskOK /\ task' = [task EXCEPT !.status = "running"] => TaskOK'
    BY DEF TaskOK, Statuses
  <2>3. bound \union {job[f].run} \subseteq Runs \/ ~HoldsLease(job[f].run)
    BY <2>1
  <2> QED BY <1>2, <2>2, <2>3, MoveWrites, GotoWrites, ReturnWrites DEF Begin, Stages, Statuses, memory
<1>3. CASE WorkSucceeds(f)
  BY <1>3, GotoWrites DEF WorkSucceeds, Stages, memory, stores
<1>4. CASE WorkFails(f)
  <2>1. TaskOK' BY <1>4 DEF WorkFails, TaskOK, Statuses
  <2>2. bound' \subseteq bound BY <1>4 DEF WorkFails
  <2>3. FibersOK' BY <1>4, NoJobFits, GotoWrites DEF WorkFails, Stages, FibersOK
  <2> QED BY <1>4, <2>1, <2>2, <2>3 DEF WorkFails, memory
<1>5. CASE CompleteUngoverned(f)
  <2>1. 0 \in 0 .. MaxRepairRounds + 1 BY GovernedAssumption
  <2>2. slips' \subseteq Windows BY <1>5, SlipHappens DEF CompleteUngoverned
  <2> QED BY <1>5, <2>1, <2>2, ShowWrites, ReturnWrites DEF CompleteUngoverned, Statuses, memory
<1>6. CASE CheckLease(f)
  BY <1>6, GiveUp, GotoWrites DEF CheckLease, Stages, memory
<1>7. CASE Prove(f)
  BY <1>7, GiveUp, GotoWrites, EnterWrites, SubmitWrites DEF Prove, Stages, States, memory
<1>8. CASE Finish(f)
  <2>1. ProofOf(job[f].run) \in 0 .. MaxRepairRounds + 1
    BY GovernedAssumption DEF ProofOf, Revisions
  <2>2. CASE Throw(f) BY <1>8, <2>2, GiveUp DEF Finish, memory
  <2>3. CASE ~Throw(f)
    <3>1. FibersOK'
      BY <1>8, <2>3, GotoWrites DEF Finish, FibersOK, JobRow, Stages
    <3>2. bound' \subseteq bound BY <1>8, <2>3 DEF Finish
    <3> QED BY <1>8, <2>1, <2>3, <3>1, <3>2, ShowWrites DEF Finish, Statuses, memory
  <2> QED BY <2>2, <2>3
<1> QED BY <1>1, <1>2, <1>3, <1>4, <1>5, <1>6, <1>7, <1>8 DEF Running

(* Types are kept by the steps of the controller.                          *)
LEMMA ControllingTypes ==
  ASSUME TypeOK, Books, NEW f \in Fiber, Controlling(f)
  PROVE  TypeOK'
<1> USE TypeParts, Unwritten
<1>1. CASE ReadTask(f)
  <2>1. FibersOK'
    BY <1>1, GotoWrites DEF ReadTask, FibersOK, JobRow, Stages, TaskOK
  <2> QED BY <1>1, <2>1 DEF ReadTask, stores, memory
<1>2. CASE Converge(f)
  <2>1. MemoryOK' BY <1>2 DEF Converge, MemoryOK, States
  <2> QED BY <1>2, <2>1, MoveWrites, GotoWrites, ReturnWrites DEF Converge, Stages, Statuses
<1>3. CASE Decide(f)
  BY <1>3, GotoWrites, ReturnWrites DEF Decide, Stages, memory
<1>4. CASE SettleFailure(f)
  BY <1>4, MoveWrites, GotoWrites, SlipHappens DEF SettleFailure, Stages, Statuses, memory
<1>5. CASE Escalate(f)
  <2>1. bound' \subseteq bound /\ FibersOK' BY <1>5, ReturnWrites DEF Escalate, Return
  <2>2. RolesOK' BY <1>5, <2>1 DEF Escalate, RolesOK
  <2> QED BY <1>5, <2>1, <2>2 DEF Escalate, memory
<1>6. CASE Preflight(f)
  <2>1. ChangeOK' BY <1>6 DEF Preflight, ChangeOK, States
  <2>2. FibersOK'
    <3>1. change.revision \in 0 .. MaxRepairRounds + 1 BY DEF ChangeOK
    <3>2. CASE Return(f) BY <3>2, ReturnWrites
    <3>3. CASE ~Return(f)
      BY <1>6, <3>1, <3>3, GotoWrites DEF Preflight, FibersOK, JobRow, Stages
    <3> QED BY <3>2, <3>3
  <2>3. bound' \subseteq bound BY <1>6 DEF Preflight, Return
  <2> QED BY <1>6, <2>1, <2>2, <2>3 DEF Preflight, memory
<1>7. CASE Reserve(f)
  <2>1. job[f].rev \in Revisions
    BY <1>7, GovernedAssumption DEF Reserve, Books, FiberBooks, FibersOK, JobRow, Revisions
  <2>2. RolesOK' BY <1>7, <2>1 DEF Reserve, RolesOK
  <2> QED BY <1>7, <2>2, GotoWrites DEF Reserve, Stages, memory
<1>8. CASE Advance(f)
  BY <1>8, EnterWrites, GotoWrites, SlipHappens DEF Advance, Stages, States, memory
<1>9. CASE Route(f)
  BY <1>9, MoveWrites, GotoWrites, ReturnWrites DEF Route, Stages, Statuses, memory
<1>10. CASE Recheck(f)
  BY <1>10, GotoWrites, ReturnWrites DEF Recheck, Stages, memory
<1>11. CASE ClaimRepair(f)
  <2>1. CASE TakeRun(f, "repair", FALSE)
    <3>1. UsedOK' /\ used.runs + 1 \in Runs BY <2>1, TakeRunWrites
    <3>2. TaskOK' BY <1>11, <3>1 DEF ClaimRepair, TaskOK, Statuses, Held
    <3> QED BY <1>11, <2>1, <3>1, <3>2, GotoWrites, ReturnWrites, TakeRunWrites, SlipHappens DEF ClaimRepair, Stages, memory
  <2>2. CASE ~TakeRun(f, "repair", FALSE)
    BY <1>11, <2>2, ReturnWrites DEF ClaimRepair, memory
  <2> QED BY <2>1, <2>2
<1>12. CASE SubmitRepair(f)
  <2>1. bound' \subseteq bound BY <1>12 DEF SubmitRepair
  <2> QED BY <1>12, <2>1, SubmitWrites, GotoWrites, SlipHappens DEF SubmitRepair, Stages, memory
<1>13. CASE Trouble(f)
  <2>1. ProofOf(job[f].run) \in 0 .. MaxRepairRounds + 1
    BY GovernedAssumption DEF ProofOf, Revisions
  <2> QED BY <1>13, <2>1, MoveWrites, ShowWrites, GotoWrites, ReturnWrites, SlipHappens DEF Trouble, Stages, Statuses, memory
<1> QED BY <1>1, <1>2, <1>3, <1>4, <1>5, <1>6, <1>7, <1>8, <1>9, <1>10, <1>11, <1>12, <1>13
        DEF Controlling

(* Types are kept by the steps of recovery.                                *)
LEMMA RecoveringTypes ==
  ASSUME TypeOK, Books, NEW f \in Fiber, Recovering(f)
  PROVE  TypeOK'
<1> USE TypeParts, Unwritten
<1>1. CASE ScanLive(f)
  <2>1. MemoryOK' BY <1>1 DEF ScanLive, MemoryOK
  <2> QED BY <1>1, <2>1, ReturnWrites DEF ScanLive
<1>2. CASE ScanSettled(f)
  <2>1. MemoryOK' BY <1>2 DEF ScanSettled, MemoryOK, States
  <2> QED BY <1>2, <2>1, MoveWrites, ReleaseWrites, GotoWrites, ReturnWrites
          DEF ScanSettled, Stages, Statuses
<1>3. CASE ScanPartial(f)
  <2>1. change.revision \in 0 .. MaxRepairRounds + 1 BY DEF ChangeOK
  <2> QED BY <1>3, <2>1, MoveWrites, ShowWrites, GotoWrites, ReturnWrites, SlipHappens
          DEF ScanPartial, Stages, Statuses, memory
<1>4. CASE ScanNothing(f)
  BY <1>4, ReturnWrites DEF ScanNothing, memory
<1>5. CASE Compare(f)
  <2>1. change.revision \in 0 .. MaxRepairRounds + 1 BY DEF ChangeOK
  <2>2. Drift(job[f].seen, job[f].kind) \in {"half", "approved", "realign", "none"}
    BY DEF Drift
  <2>3. FibersOK'
    <3> DEFINE j == [job[f] EXCEPT !.kind = Drift(job[f].seen, job[f].kind),
                                   !.rev = change.revision]
    <3>1. j \in JobRow BY <2>1, <2>2 DEF FibersOK, JobRow
    <3>2. job' = [job EXCEPT ![f] = j] BY <1>5 DEF Compare, FibersOK, JobRow
    <3> HIDE DEF j
    <3> QED BY <1>5, <3>1, <3>2, GotoWrites DEF Compare, FibersOK, Stages
  <2>4. bound' \subseteq bound BY <1>5 DEF Compare
  <2> QED BY <1>5, <2>3, <2>4 DEF Compare, memory
<1>6. CASE Reconcile(f)
  <2>1. job[f].rev \in 0 .. MaxRepairRounds + 1 BY DEF FibersOK, JobRow
  <2>2. TaskOK /\ task' = [task EXCEPT !.result = job[f].rev] => TaskOK'
    BY <2>1 DEF TaskOK
  <2>3. MemoryOK' BY <1>6 DEF Reconcile, MemoryOK, States
  <2> QED BY <1>6, <2>1, <2>2, <2>3, MoveWrites, ShowWrites, ReturnWrites, SlipHappens
          DEF Reconcile, Statuses
<1> QED BY <1>1, <1>2, <1>3, <1>4, <1>5, <1>6 DEF Recovering

(* Types are kept when a call begins.                                      *)
LEMMA BeginningTypes ==
  ASSUME TypeOK, Books, NEW f \in Fiber,
         \/ Dispatch(f) \/ Wake(f) \/ ApplyVerdict(f)
         \/ StartScan(f) \/ TimerFires(f) \/ StartReconcile(f)
  PROVE  TypeOK'
<1> USE TypeParts, Unwritten
<1>1. CASE Dispatch(f)
  <2>1. UsedOK' /\ used.runs + 1 \in Runs BY <1>1, TakeRunWrites DEF Dispatch
  <2>2. TaskOK' BY <1>1, <2>1 DEF Dispatch, TaskOK, Statuses
  <2> QED BY <1>1, <2>1, <2>2, GotoWrites, TakeRunWrites DEF Dispatch, Stages, memory
<1>2. CASE Wake(f)
  <2>1. MemoryOK' BY <1>2 DEF Wake, MemoryOK
  <2> QED BY <1>2, <2>1, GotoWrites DEF Wake, Stages, stores
<1>3. CASE ApplyVerdict(f)
  <2>1. MemoryOK' BY <1>3 DEF ApplyVerdict, MemoryOK
  <2> QED BY <1>3, <2>1, EnterWrites, GotoWrites DEF ApplyVerdict, Stages, States
<1>4. CASE StartScan(f)
  <2>1. MemoryOK' BY <1>4 DEF StartScan, MemoryOK
  <2> QED BY <1>4, <2>1, GotoWrites DEF StartScan, Stages, stores
<1>5. CASE TimerFires(f)
  <2>1. MemoryOK' BY <1>5 DEF TimerFires, MemoryOK
  <2> QED BY <1>5, <2>1, ReleaseWrites, GotoWrites, SlipHappens DEF TimerFires, Stages
<1>6. CASE StartReconcile(f)
  <2>1. FibersOK'
    <3> DEFINE kind == IF task.live THEN "none" ELSE "expired"
               j == [job[f] EXCEPT !.seen = task.status, !.run = task.holder, !.kind = kind]
    <3>1. job[f] \in JobRow /\ job \in [Fiber -> JobRow] BY DEF FibersOK
    <3>2. task.status \in Statuses /\ task.holder \in Runs \union {None} BY DEF TaskOK
    <3>3. kind \in {"none", "expired"} OBVIOUS
    <3>4. job' = [job EXCEPT ![f] = j] BY <1>6, <3>1 DEF StartReconcile, JobRow
    <3> HIDE DEF kind
    <3>5. j \in JobRow BY <3>1, <3>2, <3>3 DEF JobRow
    <3> HIDE DEF j
    <3>6. job' \in [Fiber -> JobRow] BY <3>1, <3>4, <3>5
    <3>7. Goto(f, "compare") /\ "compare" \in Stages BY <1>6 DEF StartReconcile, Stages
    <3> QED BY <3>6, <3>7, GotoWrites
  <2> QED BY <1>6, <2>1 DEF StartReconcile, stores, memory
<1> QED BY <1>1, <1>2, <1>3, <1>4, <1>5, <1>6

(* Types are kept by reviewers, people, the clock and crashes.             *)
LEMMA OutsideTypes ==
  ASSUME TypeOK, Books, Outside
  PROVE  TypeOK'
<1> USE TypeParts, Unwritten
<1>1. CASE Bootstrap
  <2>1. ChangeOK' /\ slips' \subseteq Windows BY <1>1, BootstrapWrites
  <2> QED BY <1>1, <2>1 DEF Bootstrap, memory
<1>2. CASE Plan
  BY <1>2, EnterWrites DEF Plan, States, memory
<1>3. CASE Publish
  <2>1. MemoryOK' BY <1>3, FoundIs DEF Publish, MemoryOK, ChangeOK
  <2> QED BY <1>3, <2>1 DEF Publish, stores
<1>4. CASE Activate
  <2>1. MemoryOK' BY <1>4, FoundIs DEF Activate, MemoryOK, ChangeOK
  <2> QED BY <1>4, <2>1, MoveWrites DEF Activate, Statuses
<1>5. CASE Verdict
  <2>1. MemoryOK' BY <1>5 DEF Verdict, MemoryOK
  <2> QED BY <1>5, <2>1, EnterWrites DEF Verdict, States
<1>6. CASE PersonFinishes
  <2>1. UsedOK' BY <1>6, GovernedAssumption DEF PersonFinishes, UsedOK
  <2> QED BY <1>6, <2>1, MoveWrites, SlipHappens DEF PersonFinishes, Statuses, memory
<1>7. CASE PersonMoves
  <2>1. UsedOK' BY <1>7, GovernedAssumption DEF PersonMoves, UsedOK
  <2> QED BY <1>7, <2>1, MoveWrites DEF PersonMoves, Statuses, memory
<1>8. CASE LeaseEnds
  <2>1. TaskOK' BY <1>8 DEF LeaseEnds, TaskOK
  <2> QED BY <1>8, <2>1 DEF LeaseEnds, memory
<1>9. CASE Crash
  <2>1. MemoryOK' BY <1>9 DEF Crash, MemoryOK
  <2>2. UsedOK' BY <1>9, GovernedAssumption DEF Crash, UsedOK
  <2>3. FibersOK' BY <1>9, NoJobFits DEF Crash, FibersOK, Stages
  <2> QED BY <1>9, <2>1, <2>2, <2>3, SlipHappens DEF Crash, stores
<1>10. CASE Restart
  <2>1. MemoryOK' BY <1>10 DEF Restart, MemoryOK
  <2> QED BY <1>10, <2>1 DEF Restart, stores
<1> QED BY <1>1, <1>2, <1>3, <1>4, <1>5, <1>6, <1>7, <1>8, <1>9, <1>10 DEF Outside

(* Every step keeps the types.                                             *)
LEMMA TypesStep ==
  ASSUME TypeOK, Books, [Next]_vars
  PROVE  TypeOK'
<1>1. CASE Next
  BY <1>1, RunningTypes, ControllingTypes, RecoveringTypes, BeginningTypes, OutsideTypes DEF Next
<1>2. CASE UNCHANGED vars
  BY <1>2 DEF vars, stores, memory, TypeOK
<1> QED BY <1>1, <1>2

(* A fiber moved, the others did not.                                      *)
Others(f) == \A g \in Fiber : g # f => pc'[g] = pc[g] /\ job'[g] = job[g]

(* The job of an idle fiber names no run, kind or revision.                *)
LEMMA NoJobIs == NoJob.run = None /\ NoJob.kind = "none" /\ NoJob.rev = 0
BY DEF NoJob

(* The numbers and names the proofs reason about.                          *)
LEMMA Numbers ==
  ASSUME TypeOK
  PROVE  /\ change.revision \in Nat /\ change.passed \in Nat /\ used.runs \in Nat
         /\ used.moves \in Nat /\ change.state \in States /\ task.status \in Statuses
         /\ task.holder \in Runs \union {None} /\ Runs \subseteq Nat /\ Revisions \subseteq Nat
         /\ author \in [Revisions -> Runs \union {None}]
         /\ \A f \in Fiber : /\ job[f].run \in Runs \union {None} /\ job[f].rev \in Nat
                             /\ pc[f] \in Stages
BY TypeParts, GovernedAssumption
   DEF TaskOK, ChangeOK, AuthorOK, FibersOK, JobRow, UsedOK, Runs, Revisions

(* The same of the successor.                                              *)
LEMMA NumbersNext ==
  ASSUME TypeOK'
  PROVE  /\ change'.revision \in Nat /\ change'.passed \in Nat /\ used'.runs \in Nat
         /\ used'.moves \in Nat /\ change'.state \in States /\ task'.status \in Statuses
         /\ task'.holder \in Runs \union {None}
         /\ author' \in [Revisions -> Runs \union {None}]
         /\ \A f \in Fiber : /\ job'[f].run \in Runs \union {None} /\ job'[f].rev \in Nat
                             /\ pc'[f] \in Stages
BY GovernedAssumption DEF TypeOK, Runs, Revisions

(* The books of the other fibers stay right when fiber f moves alone.      *)
LEMMA BooksFrame ==
  ASSUME TypeOK, TypeOK', Books, StoreBooks', NEW f \in Fiber, Others(f), FiberBooks(f)',
         used'.runs >= used.runs, change'.revision >= change.revision,
         change.state \in Late => change'.state \in Late,
         change.state = "APPROVED" => change'.state = "APPROVED",
         Bears(f)' => \/ Bears(f) /\ job'[f].run = job[f].run
                      \/ job'[f].run = used.runs + 1
  PROVE  Books'
<1>1. ASSUME NEW g \in Fiber, g # f PROVE FiberBooks(g)'
  BY <1>1, Numbers, NumbersNext, GovernedAssumption DEF Books, Others, FiberBooks, Bears
<1>2. RunsApart'
  <2>1. ASSUME NEW g \in Fiber, g # f, Bears(f)', Bears(g)' PROVE job'[f].run # job'[g].run
    <3>1. Bears(g) /\ job'[g].run = job[g].run BY <2>1 DEF Others, Bears
    <3>2. job[g].run # used.runs + 1
      BY <3>1, Numbers, GovernedAssumption DEF Books, FiberBooks
    <3> QED BY <2>1, <3>1, <3>2 DEF Books, RunsApart
  <2>2. ASSUME NEW g \in Fiber, NEW h \in Fiber, g # f, h # f, g # h, Bears(g)', Bears(h)'
        PROVE  job'[g].run # job'[h].run
    BY <2>2 DEF Others, Bears, Books, RunsApart
  <2> QED BY <2>1, <2>2 DEF RunsApart
<1> QED BY <1>1, <1>2 DEF Books

(* The stores and the used runs stay; fiber f carries on with its job.     *)
LEMMA StoreBooksStay ==
  ASSUME Books, UNCHANGED <<task, change, author, snapshot, timer, used>>
  PROVE  StoreBooks'
BY DEF Books, StoreBooks, HolderIsHeld, RunsCounted, RoundsCounted, TimerIsLate, SnapshotKnown

(* The stores stay; only fiber f moves.                                    *)
LEMMA RoundFrame ==
  ASSUME Round, UNCHANGED <<task, change, author>>, NEW f \in Fiber, Others(f), FiberRound(f)'
  PROVE  Round'
<1>1. StoreRound'
  BY DEF Round, StoreRound, Preflighted, Shown, Owned, Finished, Requested, Exhausted
<1>2. ASSUME NEW g \in Fiber, g # f PROVE FiberRound(g)'
  BY <1>2 DEF Round, FiberRound, Others, Pending
<1> QED BY <1>1, <1>2 DEF Round

(* The stores stay; only fiber f moves.                                    *)
LEMMA AloneFrame ==
  ASSUME Alone, UNCHANGED <<task, change, author>>, NEW f \in Fiber, Others(f), FiberAlone(f)',
         pc[f] = "escalate" => escalated', escalated => escalated'
  PROVE  Alone'
<1>1. StoreAlone'
  BY DEF Alone, StoreAlone, Unmoved, ReadyIsUnproved, HolderIsAuthor, FailedIsUnreviewed,
         OpenIsRepairable, Exhausted
<1>2. FailedIsEscalated' BY DEF Alone, FailedIsEscalated, Exhausted, Others
<1>3. ASSUME NEW g \in Fiber, g # f PROVE FiberAlone(g)'
  BY <1>3 DEF Alone, FiberAlone, Others, Pending
<1> QED BY <1>1, <1>2, <1>3 DEF Alone

(* A fiber with no run and no review in its hands owes nothing.            *)
LEMMA PlainFiber ==
  ASSUME NEW f \in Fiber, pc'[f] \in Plain
  PROVE  /\ change'.state # "none" \/ pc'[f] \in {"idle", "scan"} => FiberRound(f)'
         /\ FiberAlone(f)' /\ ~Bears(f)'
BY DEF Plain, FiberRound, FiberAlone, Bears, Pending

(* Such a fiber has its books in order.                                    *)
LEMMA PlainBooks ==
  ASSUME TypeOK, TypeOK', Books, NEW f \in Fiber, pc'[f] \in Plain,
         used'.runs >= used.runs, change'.revision >= change.revision,
         job'[f].run \in {None, job[f].run, task.holder},
         job'[f].rev \in {0, job[f].rev, change.revision}
  PROVE  FiberBooks(f)'
BY Numbers, NumbersNext, GovernedAssumption
   DEF Plain, Books, StoreBooks, RunsCounted, FiberBooks, Bears

(* A call that ends, in the terms of the invariant.                        *)
LEMMA ReturnIs ==
  ASSUME TypeOK, NEW f \in Fiber, Return(f)
  PROVE  Others(f) /\ pc'[f] = "idle" /\ pc'[f] \in Plain /\ job'[f] = NoJob
BY TypeParts, ReturnWrites DEF Others, Plain

(* A call that goes on, in the terms of the invariant.                     *)
LEMMA GotoIs ==
  ASSUME TypeOK, NEW f \in Fiber, NEW s \in Stages, Goto(f, s)
  PROVE  pc'[f] = s /\ \A g \in Fiber : g # f => pc'[g] = pc[g]
BY TypeParts, GotoWrites

(* A call that ends takes nothing with it.                                 *)
LEMMA ReturnBooks ==
  ASSUME TypeOK, TypeOK', Books, StoreBooks', NEW f \in Fiber, Return(f), used' = used,
         change'.revision >= change.revision,
         change.state \in Late => change'.state \in Late,
         change.state = "APPROVED" => change'.state = "APPROVED"
  PROVE  Books'
<1>1. Others(f) /\ pc'[f] \in Plain /\ job'[f].run = None /\ job'[f].rev = 0
  BY ReturnIs, NoJobIs
<1>2. used'.runs >= used.runs BY Numbers
<1>3. FiberBooks(f)' /\ ~Bears(f)' BY <1>1, <1>2, PlainBooks, PlainFiber
<1> QED BY <1>1, <1>2, <1>3, BooksFrame

(* A write that lets go of the task, or none.                              *)
LEMMA LetGoBooks ==
  ASSUME Books, task' = task \/ (task'.status \notin Held /\ task'.holder = None),
         UNCHANGED <<change, author, used>>, timer' => timer \/ change.state \in Late,
         snapshot' = "APPROVED" => snapshot = "APPROVED" \/ change.state = "APPROVED"
  PROVE  StoreBooks'
BY DEF Books, StoreBooks, HolderIsHeld, RunsCounted, RoundsCounted, TimerIsLate, SnapshotKnown

(* A completion that throws, in the terms of the invariant.                *)
LEMMA GiveUpIs ==
  ASSUME TypeOK, NEW f \in Fiber, Throw(f)
  PROVE  /\ Others(f) /\ job'[f] \in {job[f], NoJob}
         /\ task' = task \/ (task'.status = "failed" /\ task'.holder = None
                              /\ HoldsLease(job[f].run) /\ job[f].kind = "initial")
         /\ \/ pc'[f] = "trouble" /\ job'[f] = job[f] /\ job[f].kind # "initial"
            \/ pc'[f] = "idle" /\ job'[f] = NoJob
BY GiveUp DEF Others

(* A completion that throws leaves the books in order.                     *)
LEMMA GiveUpBooks ==
  ASSUME TypeOK, TypeOK', Books, NEW f \in Fiber, Throw(f), Bears(f),
         UNCHANGED <<change, author, used, timer, snapshot>>
  PROVE  Books'
<1>1. StoreBooks' BY GiveUpIs, LetGoBooks DEF Held
<1>2. CASE pc'[f] = "idle"
  <2>1. FiberBooks(f)' /\ ~Bears(f)'
    BY <1>2, GiveUpIs, PlainBooks, PlainFiber, NoJobIs, Numbers DEF Plain
  <2> QED BY <1>1, <2>1, GiveUpIs, BooksFrame, Numbers
<1>3. CASE pc'[f] = "trouble"
  <2>1. job'[f] = job[f] /\ job[f].kind # "initial" BY <1>3, GiveUpIs
  <2>2. FiberBooks(f)' BY <1>3, <2>1 DEF Books, FiberBooks, Bears
  <2> QED BY <1>1, <2>1, <2>2, GiveUpIs, BooksFrame, Numbers
<1> QED BY <1>2, <1>3, GiveUpIs

(* A proof of a known run keeps the books of the stores.                   *)
LEMMA SubmitBooks ==
  ASSUME TypeOK, Books, NEW f \in Fiber, NEW how \in {"submitted", "repair_submitted"},
         Submit(f, how), task' = task, used' = used, timer' = timer, snapshot' = snapshot,
         change.state # "APPROVED"
  PROVE  StoreBooks'
<1>1. /\ change'.state = "PREFLIGHT" /\ change'.revision = change.revision + 1
      /\ author' = [author EXCEPT ![change.revision + 1] = job[f].run]
  BY TypeParts, SubmitWrites
<1>2. job[f].run # None => job[f].run <= used.runs BY DEF Books, FiberBooks
<1>3. RunsCounted' /\ RoundsCounted'
  BY <1>1, <1>2, Numbers DEF Books, StoreBooks, RunsCounted, RoundsCounted, Late
<1> QED BY <1>1, <1>3 DEF Books, StoreBooks, HolderIsHeld, TimerIsLate, SnapshotKnown, Late

(* The books are kept by the steps of a dispatch, a repair and a           *)
(* completion.                                                             *)
LEMMA RunningBooks ==
  ASSUME TypeOK, TypeOK', Books, NEW f \in Fiber, Running(f)
  PROVE  Books'
<1> USE TypeParts
<1>1. CASE Guard(f)
  <2>1. StoreBooks'
    BY <1>1, MoveWrites, LetGoBooks DEF Guard, Statuses, Held, memory
  <2>2. CASE Return(f)
    BY <1>1, <2>1, <2>2, ReturnBooks, Numbers DEF Guard
  <2>3. CASE ~Return(f)
    <3>1. Others(f) /\ pc'[f] = "begin" /\ job' = job
      BY <1>1, <2>3, GotoIs DEF Guard, Others, Stages
    <3>2. FiberBooks(f)' /\ Bears(f)
      BY <1>1, <3>1 DEF Guard, Books, FiberBooks, Bears
    <3> QED BY <1>1, <2>1, <3>1, <3>2, BooksFrame, Numbers DEF Guard
  <2> QED BY <2>2, <2>3
<1>2. CASE Begin(f)
  <2>1. StoreBooks'
    <3>1. CASE HoldsLease(job[f].run) /\ task' = [task EXCEPT !.status = "running"]
      <4>1. task'.status = "running" /\ task'.holder = task.holder /\ task.status \in Held
        BY <3>1 DEF TaskOK, HoldsLease
      <4> QED BY <1>2, <4>1 DEF Begin, Held, memory, Books, StoreBooks, HolderIsHeld,
              RunsCounted, RoundsCounted, TimerIsLate, SnapshotKnown
    <3>2. CASE ~(HoldsLease(job[f].run) /\ task' = [task EXCEPT !.status = "running"])
      BY <1>2, <3>2, MoveWrites, LetGoBooks DEF Begin, Statuses, Held, memory
    <3> QED BY <3>1, <3>2
  <2>2. CASE Return(f)
    BY <1>2, <2>1, <2>2, ReturnBooks, Numbers DEF Begin
  <2>3. CASE ~Return(f)
    <3>1. Others(f) /\ pc'[f] = "work" /\ job' = job
      BY <1>2, <2>3, GotoIs DEF Begin, Others, Stages
    <3>2. FiberBooks(f)' /\ Bears(f)
      BY <1>2, <3>1 DEF Begin, Books, FiberBooks, Bears
    <3> QED BY <1>2, <2>1, <3>1, <3>2, BooksFrame, Numbers DEF Begin
  <2> QED BY <2>2, <2>3
<1>3. CASE WorkSucceeds(f)
  <2>1. Others(f) /\ job' = job /\ Bears(f)
        /\ pc'[f] = (IF job[f].kind = "initial" THEN "lease" ELSE "submit")
    BY <1>3, GotoIs DEF WorkSucceeds, Others, Stages, Bears
  <2>2. FiberBooks(f)'
    BY <1>3, <2>1 DEF WorkSucceeds, Books, FiberBooks, Bears, stores
  <2> QED BY <1>3, <2>1, <2>2, StoreBooksStay, BooksFrame, Numbers DEF WorkSucceeds, stores, memory
<1>4. CASE WorkFails(f)
  <2>1. StoreBooks'
    <3>1. CASE HoldsLease(job[f].run)
      BY <1>4, <3>1, LetGoBooks DEF WorkFails, TaskOK, Held, memory
    <3>2. CASE ~HoldsLease(job[f].run)
      BY <1>4, <3>2, LetGoBooks DEF WorkFails, memory
    <3> QED BY <3>1, <3>2
  <2>2. Others(f) /\ pc'[f] = "idle" /\ job'[f] = NoJob
    BY <1>4, GotoIs DEF WorkFails, Others, Stages, FibersOK
  <2>3. FiberBooks(f)' /\ ~Bears(f)'
    BY <1>4, <2>2, PlainBooks, PlainFiber, NoJobIs, Numbers DEF WorkFails, Plain
  <2> QED BY <1>4, <2>1, <2>2, <2>3, BooksFrame, Numbers DEF WorkFails
<1>5. CASE CompleteUngoverned(f)
  <2>1. 0 \in 0 .. MaxRepairRounds + 1 BY GovernedAssumption
  <2>2. StoreBooks'
    BY <1>5, <2>1, ShowWrites, LetGoBooks DEF CompleteUngoverned, Statuses, Held, memory
  <2> QED BY <1>5, <2>2, ReturnBooks, Numbers DEF CompleteUngoverned
<1>6. CASE CheckLease(f)
  <2>1. CASE Throw(f)
    BY <1>6, <2>1, GiveUpBooks DEF CheckLease, Bears, memory
  <2>2. CASE ~Throw(f)
    <3>1. Others(f) /\ job' = job /\ pc'[f] \in {"read", "prove"}
      BY <1>6, <2>2, GotoIs DEF CheckLease, Others, Stages
    <3>2. Bears(f) /\ StoreBooks' BY <1>6, <2>2, StoreBooksStay DEF CheckLease, Bears, memory
    <3>3. FiberBooks(f)'
      BY <1>6, <3>1, <3>2 DEF CheckLease, Books, FiberBooks, Bears
    <3> QED BY <1>6, <3>1, <3>2, <3>3, BooksFrame, Numbers DEF CheckLease
  <2> QED BY <2>1, <2>2
<1>7. CASE Prove(f)
  <2>1. CASE change.state = "READY" /\ Enter("IMPLEMENTING") /\ pc' = pc /\ job' = job
    <3>1. change'.state = "IMPLEMENTING" /\ change'.revision = change.revision
      BY <2>1, EnterWrites DEF States
    <3>2. StoreBooks'
      BY <1>7, <2>1, <3>1 DEF Prove, Late, memory, Books, StoreBooks, HolderIsHeld,
         RunsCounted, RoundsCounted, TimerIsLate, SnapshotKnown
    <3>3. FiberBooks(f)' BY <1>7, <2>1, <3>1 DEF Prove, Books, FiberBooks, Bears, Late
    <3>4. used' = used /\ Others(f) /\ (Bears(f)' => Bears(f)) BY <1>7, <2>1 DEF Prove, Others, Bears
    <3>5. change.state = "READY" /\ change.state \notin Late BY <2>1 DEF Late
    <3> QED BY <2>1, <3>1, <3>2, <3>3, <3>4, <3>5, BooksFrame, Numbers
  <2>2. CASE Submit(f, "submitted") /\ Goto(f, "finish") /\ change.state = "IMPLEMENTING"
             /\ UNCHANGED <<task, job>>
    <3>1. Others(f) /\ job' = job /\ pc'[f] = "finish" /\ Bears(f)
      BY <1>7, <2>2, GotoIs DEF Prove, Others, Stages, Bears
    <3>2. /\ change'.state = "PREFLIGHT" /\ change'.revision = change.revision + 1
          /\ author' = [author EXCEPT ![change.revision + 1] = job[f].run]
      BY <2>2, SubmitWrites
    <3>3. StoreBooks'
      BY <1>7, <2>2, <3>2, SubmitBooks DEF Prove, memory
    <3>4. FiberBooks(f)' BY <1>7, <3>1, <3>2, Numbers DEF Prove, Books, FiberBooks, Bears, Late
    <3> QED BY <1>7, <3>1, <3>2, <3>3, <3>4, <2>2, BooksFrame, Numbers DEF Prove, Late
  <2>3. CASE OwnProof(f) /\ Goto(f, "finish") /\ UNCHANGED <<task, change, author, job>>
    <3>1. Others(f) /\ job' = job /\ pc'[f] = "finish" /\ Bears(f)
      BY <1>7, <2>3, GotoIs DEF Prove, Others, Stages, Bears
    <3>2. FiberBooks(f)' /\ StoreBooks'
      BY <1>7, <2>3, <3>1, StoreBooksStay DEF Prove, Books, FiberBooks, Bears, memory
    <3> QED BY <1>7, <2>3, <3>1, <3>2, BooksFrame, Numbers DEF Prove
  <2>4. CASE Throw(f) /\ UNCHANGED <<change, author>>
    BY <1>7, <2>4, GiveUpBooks DEF Prove, Bears, memory
  <2> QED BY <1>7, <2>1, <2>2, <2>3, <2>4 DEF Prove
<1>8. CASE Finish(f)
  <2>1. CASE Throw(f)
    BY <1>8, <2>1, GiveUpBooks DEF Finish, Bears, memory
  <2>2. CASE ~Throw(f)
    <3>1. ProofOf(job[f].run) \in 0 .. MaxRepairRounds + 1
      BY GovernedAssumption DEF ProofOf, Revisions
    <3>2. StoreBooks'
      BY <1>8, <2>2, <3>1, ShowWrites, LetGoBooks DEF Finish, Statuses, Held, memory
    <3>3. /\ Others(f) /\ pc'[f] = "read" /\ job'[f].run = None /\ job'[f].rev = job[f].rev
      BY <1>8, <2>2, GotoIs DEF Finish, Others, Stages, FibersOK, JobRow
    <3>4. FiberBooks(f)' /\ ~Bears(f)'
      BY <1>8, <3>3, PlainBooks, PlainFiber, Numbers DEF Finish, Plain
    <3> QED BY <1>8, <3>2, <3>3, <3>4, BooksFrame, Numbers DEF Finish
  <2> QED BY <2>1, <2>2
<1> QED BY <1>1, <1>2, <1>3, <1>4, <1>5, <1>6, <1>7, <1>8 DEF Running

(* A fiber that goes to a stage without a run keeps the books.             *)
LEMMA PlainStepBooks ==
  ASSUME TypeOK, TypeOK', Books, StoreBooks', NEW f \in Fiber, Others(f), pc'[f] \in Plain,
         used' = used, change'.revision = change.revision,
         change.state \in Late => change'.state \in Late,
         change.state = "APPROVED" => change'.state = "APPROVED",
         job'[f].run \in {None, job[f].run, task.holder},
         job'[f].rev \in {0, job[f].rev, change.revision}
  PROVE  Books'
BY PlainBooks, PlainFiber, BooksFrame, Numbers

(* The Change moves within the early states, within the late ones, or      *)
(* stays.                                                                  *)
LEMMA EnterBooks ==
  ASSUME TypeOK, Books, NEW s \in States, Enter(s), s \in Late <=> change.state \in Late,
         change.state # "APPROVED", UNCHANGED <<task, author, used, timer, snapshot>>
  PROVE  /\ StoreBooks' /\ change'.revision = change.revision /\ change'.state = s
         /\ change.state \in Late => change'.state \in Late
BY TypeParts, EnterWrites
   DEF Books, StoreBooks, HolderIsHeld, RunsCounted, RoundsCounted, TimerIsLate, SnapshotKnown

(* The books are kept by the steps of the controller.                      *)
LEMMA ControllingBooks ==
  ASSUME TypeOK, TypeOK', Books, NEW f \in Fiber, Controlling(f)
  PROVE  Books'
<1> USE TypeParts
<1>1. CASE ReadTask(f)
  <2>1. /\ Others(f) /\ pc'[f] = "decide"
        /\ job'[f].run = job[f].run /\ job'[f].rev = job[f].rev
    BY <1>1, GotoIs DEF ReadTask, Others, Stages, FibersOK, JobRow
  <2> QED BY <1>1, <2>1, StoreBooksStay, PlainStepBooks, Numbers DEF ReadTask, stores, memory, Plain
<1>2. CASE Converge(f)
  <2>0. change.state = "APPROVED" BY <1>2, FoundIs DEF Converge
  <2>1. StoreBooks' BY <1>2, <2>0, MoveWrites, LetGoBooks DEF Converge, Statuses, Held
  <2>2. CASE Return(f) BY <1>2, <2>1, <2>2, ReturnBooks, Numbers DEF Converge
  <2>3. CASE ~Return(f)
    <3>1. Others(f) /\ pc'[f] = "read" /\ job' = job
      BY <1>2, <2>3, GotoIs DEF Converge, Others, Stages
    <3> QED BY <1>2, <2>1, <3>1, PlainStepBooks, Numbers DEF Converge, Plain
  <2> QED BY <2>2, <2>3
<1>3. CASE Decide(f)
  <2>1. StoreBooks' BY <1>3, StoreBooksStay DEF Decide, memory
  <2>2. CASE Return(f) BY <1>3, <2>1, <2>2, ReturnBooks, Numbers DEF Decide
  <2>3. CASE ~Return(f)
    <3>1. Others(f) /\ pc'[f] \in Plain /\ job' = job
      BY <1>3, <2>3, GotoIs DEF Decide, Others, Stages, Plain
    <3> QED BY <1>3, <2>1, <3>1, PlainStepBooks, Numbers DEF Decide
  <2> QED BY <2>2, <2>3
<1>4. CASE SettleFailure(f)
  <2>1. StoreBooks' BY <1>4, MoveWrites, LetGoBooks DEF SettleFailure, Statuses, Held, memory
  <2>2. Others(f) /\ pc'[f] \in Plain /\ job' = job
    BY <1>4, GotoIs DEF SettleFailure, Others, Stages, Plain
  <2> QED BY <1>4, <2>1, <2>2, PlainStepBooks, Numbers DEF SettleFailure
<1>5. CASE Escalate(f)
  BY <1>5, StoreBooksStay, ReturnBooks, Numbers DEF Escalate, memory
<1>6. CASE Preflight(f)
  <2>1. /\ change'.revision = change.revision
        /\ change.state \in Late => change'.state \in Late
        /\ change.state \notin {"PREFLIGHT", "REVIEW"} => change' = change
        /\ change.state \in {"PREFLIGHT", "REVIEW"} => change'.state \in {"PREFLIGHT", "REVIEW"}
    BY <1>6 DEF Preflight, ChangeOK, Late
  <2>2. StoreBooks'
    BY <1>6, <2>1 DEF Preflight, memory, Books, StoreBooks, HolderIsHeld, RunsCounted,
       RoundsCounted, TimerIsLate, SnapshotKnown, Late
  <2>3. CASE Return(f) BY <1>6, <2>1, <2>2, <2>3, ReturnBooks, Numbers DEF Preflight
  <2>4. CASE ~Return(f)
    <3>1. /\ Others(f) /\ pc'[f] = "reserve" /\ change.state \in {"PREFLIGHT", "REVIEW"}
          /\ job'[f].rev = change.revision /\ job'[f].run = job[f].run
          /\ job'[f].kind = job[f].kind
      BY <1>6, <2>4, GotoIs DEF Preflight, Others, Stages, FibersOK, JobRow
    <3>2. change.revision > 0 BY <3>1 DEF Books, StoreBooks, RoundsCounted, Late
    <3>3. FiberBooks(f)' /\ ~Bears(f)'
      BY <1>6, <2>1, <3>1, <3>2, Numbers, NumbersNext DEF Preflight, Books, FiberBooks, Bears
    <3>4. used' = used BY <1>6 DEF Preflight
    <3> QED BY <2>1, <2>2, <3>1, <3>3, <3>4, BooksFrame, Numbers
  <2> QED BY <2>3, <2>4
<1>7. CASE Reserve(f)
  <2>1. Others(f) /\ pc'[f] = "advance" /\ job' = job
    BY <1>7, GotoIs DEF Reserve, Others, Stages
  <2>2. FiberBooks(f)' /\ ~Bears(f)' BY <1>7, <2>1 DEF Reserve, Books, FiberBooks, Bears
  <2> QED BY <1>7, <2>1, <2>2, StoreBooksStay, BooksFrame, Numbers DEF Reserve, memory
<1>8. CASE Advance(f)
  <2>1. Others(f) /\ pc'[f] = "read" /\ job' = job /\ used' = used
    BY <1>8, GotoIs DEF Advance, Others, Stages
  <2>2. CASE change.state = "PREFLIGHT"
    BY <1>8, <2>1, <2>2, EnterBooks, PlainStepBooks DEF Advance, memory, States, Late, Plain
  <2>3. CASE change.state # "PREFLIGHT"
    BY <1>8, <2>1, <2>3, StoreBooksStay, PlainStepBooks DEF Advance, memory, Plain
  <2> QED BY <2>2, <2>3
<1>9. CASE Route(f)
  <2>1. StoreBooks' BY <1>9, MoveWrites, LetGoBooks DEF Route, Statuses, Held, memory
  <2>2. CASE Return(f) BY <1>9, <2>1, <2>2, ReturnBooks, Numbers DEF Route
  <2>3. CASE ~Return(f)
    <3>1. Others(f) /\ pc'[f] = "recheck" /\ job' = job /\ change.state \in Late
      BY <1>9, <2>3, GotoIs DEF Route, Others, Stages, Late
    <3>2. FiberBooks(f)' /\ ~Bears(f)' BY <1>9, <3>1 DEF Route, Books, FiberBooks, Bears
    <3> QED BY <1>9, <2>1, <3>1, <3>2, BooksFrame, Numbers DEF Route
  <2> QED BY <2>2, <2>3
<1>10. CASE Recheck(f)
  <2>1. StoreBooks' BY <1>10, StoreBooksStay DEF Recheck, memory
  <2>2. CASE Return(f) BY <1>10, <2>1, <2>2, ReturnBooks, Numbers DEF Recheck
  <2>3. CASE ~Return(f)
    <3>1. Others(f) /\ pc'[f] = "claim" /\ job' = job /\ change.state \in Late
      BY <1>10, <2>3, GotoIs DEF Recheck, Others, Stages, Late
    <3>2. FiberBooks(f)' /\ ~Bears(f)' BY <1>10, <3>1 DEF Recheck, Books, FiberBooks, Bears
    <3> QED BY <1>10, <2>1, <3>1, <3>2, BooksFrame, Numbers DEF Recheck
  <2> QED BY <2>2, <2>3
<1>11. CASE ClaimRepair(f)
  <2>1. CASE TakeRun(f, "repair", FALSE)
    <3>1. /\ used'.runs = used.runs + 1 /\ used.runs + 1 \in Runs
          /\ job'[f].run = used.runs + 1 /\ job'[f].kind = "repair" /\ job'[f].rev = job[f].rev
          /\ \A g \in Fiber : g # f => job'[g] = job[g]
      BY <2>1, TakeRunWrites
    <3>2. /\ task' = [task EXCEPT !.status = "running", !.holder = used.runs + 1, !.live = TRUE]
          /\ Goto(f, "launch")
      <4>1. used' # used BY <3>1, Numbers
      <4> QED BY <1>11, <4>1 DEF ClaimRepair
    <3>3. task'.status = "running" /\ task'.holder = used.runs + 1 BY <3>2 DEF TaskOK
    <3>4. StoreBooks'
      BY <1>11, <3>1, <3>3, GovernedAssumption, Numbers DEF ClaimRepair, Held, memory, Books, StoreBooks,
         HolderIsHeld, RunsCounted, RoundsCounted, TimerIsLate, SnapshotKnown
    <3>5. Others(f) /\ pc'[f] = "launch" BY <3>1, <3>2, GotoIs DEF Others, Stages
    <3>6. FiberBooks(f)'
      BY <1>11, <3>1, <3>5, GovernedAssumption, Numbers DEF ClaimRepair, Books, FiberBooks, Bears
    <3> QED BY <1>11, <3>1, <3>4, <3>5, <3>6, BooksFrame, Numbers DEF ClaimRepair
  <2>2. CASE ~TakeRun(f, "repair", FALSE)
    <3>1. Return(f) /\ UNCHANGED <<task, used>> BY <1>11, <2>2 DEF ClaimRepair
    <3>2. StoreBooks' BY <1>11, <3>1, StoreBooksStay DEF ClaimRepair, memory
    <3> QED BY <1>11, <3>1, <3>2, ReturnBooks, Numbers DEF ClaimRepair
  <2> QED BY <2>1, <2>2
<1>12. CASE SubmitRepair(f)
  <2>1. CASE Submit(f, "repair_submitted") /\ Goto(f, "lease") /\ change.state = "REPAIR"
    <3>1. Others(f) /\ job' = job /\ pc'[f] = "lease" /\ Bears(f)
      BY <1>12, <2>1, GotoIs DEF SubmitRepair, Others, Stages, Bears
    <3>2. change'.state = "PREFLIGHT" /\ change'.revision = change.revision + 1
      BY <2>1, SubmitWrites
    <3>3. StoreBooks' BY <1>12, <2>1, SubmitBooks DEF SubmitRepair, memory
    <3>4. FiberBooks(f)'
      BY <1>12, <3>1, <3>2, Numbers DEF SubmitRepair, Books, FiberBooks, Bears, Late
    <3> QED BY <1>12, <2>1, <3>1, <3>2, <3>3, <3>4, BooksFrame, Numbers DEF SubmitRepair, Late
  <2>2. CASE Goto(f, "trouble") /\ UNCHANGED <<change, author>>
    <3>1. Others(f) /\ job' = job /\ pc'[f] = "trouble" /\ Bears(f)
      BY <1>12, <2>2, GotoIs DEF SubmitRepair, Others, Stages, Bears
    <3>2. FiberBooks(f)' BY <1>12, <2>2, <3>1 DEF SubmitRepair, Books, FiberBooks, Bears
    <3>3. StoreBooks' BY <1>12, <2>2, StoreBooksStay DEF SubmitRepair, memory
    <3> QED BY <1>12, <2>2, <3>1, <3>2, <3>3, BooksFrame, Numbers DEF SubmitRepair
  <2> QED BY <1>12, <2>1, <2>2 DEF SubmitRepair
<1>13. CASE Trouble(f)
  <2>1. ProofOf(job[f].run) \in 0 .. MaxRepairRounds + 1
    BY GovernedAssumption DEF ProofOf, Revisions
  <2>2. StoreBooks'
    BY <1>13, <2>1, MoveWrites, ShowWrites, LetGoBooks DEF Trouble, Statuses, Held, memory
  <2>3. CASE Return(f) BY <1>13, <2>2, <2>3, ReturnBooks, Numbers DEF Trouble
  <2>4. CASE ~Return(f)
    <3>1. Others(f) /\ pc'[f] = "read" /\ job' = job
      BY <1>13, <2>4, GotoIs DEF Trouble, Others, Stages
    <3> QED BY <1>13, <2>2, <3>1, PlainStepBooks, Numbers DEF Trouble, Plain
  <2> QED BY <2>3, <2>4
<1> QED BY <1>1, <1>2, <1>3, <1>4, <1>5, <1>6, <1>7, <1>8, <1>9, <1>10, <1>11, <1>12, <1>13
        DEF Controlling

(* The books are kept by the steps of recovery.                            *)
LEMMA RecoveringBooks ==
  ASSUME TypeOK, TypeOK', Books, NEW f \in Fiber, Recovering(f)
  PROVE  Books'
<1> USE TypeParts
<1>1. CASE ScanLive(f)
  <2>1. StoreBooks' BY <1>1, LetGoBooks DEF ScanLive, Late
  <2> QED BY <1>1, <2>1, ReturnBooks, Numbers DEF ScanLive
<1>2. CASE ScanSettled(f)
  <2>1. StoreBooks'
    BY <1>2, MoveWrites, ReleaseWrites, LetGoBooks DEF ScanSettled, Statuses, Held
  <2>2. CASE Return(f) BY <1>2, <2>1, <2>2, ReturnBooks, Numbers DEF ScanSettled
  <2>3. CASE ~Return(f)
    <3>1. Others(f) /\ pc'[f] = "read" /\ job' = job
      BY <1>2, <2>3, GotoIs DEF ScanSettled, Others, Stages
    <3> QED BY <1>2, <2>1, <3>1, PlainStepBooks, Numbers DEF ScanSettled, Plain
  <2> QED BY <2>2, <2>3
<1>3. CASE ScanPartial(f)
  <2>1. change.revision \in 0 .. MaxRepairRounds + 1 BY DEF ChangeOK
  <2>2. StoreBooks'
    BY <1>3, <2>1, MoveWrites, ShowWrites, LetGoBooks DEF ScanPartial, Statuses, Held, memory
  <2>3. CASE Return(f) BY <1>3, <2>2, <2>3, ReturnBooks, Numbers DEF ScanPartial
  <2>4. CASE ~Return(f)
    <3>1. Others(f) /\ pc'[f] = "read" /\ job' = job
      BY <1>3, <2>4, GotoIs DEF ScanPartial, Others, Stages
    <3> QED BY <1>3, <2>2, <3>1, PlainStepBooks, Numbers DEF ScanPartial, Plain
  <2> QED BY <2>3, <2>4
<1>4. CASE ScanNothing(f)
  BY <1>4, StoreBooksStay, ReturnBooks, Numbers DEF ScanNothing, memory
<1>5. CASE Compare(f)
  <2>1. /\ Others(f) /\ pc'[f] = "reconcile" /\ job'[f].run = job[f].run
        /\ job'[f].kind = Drift(job[f].seen, job[f].kind) /\ job'[f].rev = change.revision
    BY <1>5, GotoIs DEF Compare, Others, Stages, FibersOK, JobRow
  <2>2. /\ job'[f].kind = "half" => change.state \in Late
        /\ job'[f].kind = "approved" => change.state = "APPROVED"
    BY <2>1, FoundIs DEF Drift, Late
  <2>3. FiberBooks(f)' /\ ~Bears(f)'
    BY <1>5, <2>1, <2>2, Numbers DEF Compare, Books, FiberBooks, Bears
  <2> QED BY <1>5, <2>1, <2>3, StoreBooksStay, BooksFrame, Numbers DEF Compare, memory
<1>6. CASE Reconcile(f)
  <2>1. job[f].rev \in 0 .. MaxRepairRounds + 1 BY DEF FibersOK, JobRow
  <2>2. task' = [task EXCEPT !.result = job[f].rev]
          => task'.status = task.status /\ task'.holder = task.holder
    BY DEF TaskOK
  <2>3. snapshot' = "APPROVED" => snapshot = "APPROVED" \/ change.state = "APPROVED"
    BY <1>6 DEF Reconcile, Books, FiberBooks
  <2>4. \/ task' = task
        \/ task'.status \notin Held /\ task'.holder = None
        \/ task'.status = task.status /\ task'.holder = task.holder
    BY <1>6, <2>1, <2>2, MoveWrites, ShowWrites DEF Reconcile, Statuses, Held
  <2>5. StoreBooks'
    BY <1>6, <2>3, <2>4 DEF Reconcile, Books, StoreBooks, HolderIsHeld, RunsCounted,
       RoundsCounted, TimerIsLate, SnapshotKnown
  <2> QED BY <1>6, <2>5, ReturnBooks, Numbers DEF Reconcile
<1> QED BY <1>1, <1>2, <1>3, <1>4, <1>5, <1>6 DEF Recovering

(* The books are kept when a call begins.                                  *)
LEMMA BeginningBooks ==
  ASSUME TypeOK, TypeOK', Books, NEW f \in Fiber,
         \/ Dispatch(f) \/ Wake(f) \/ ApplyVerdict(f)
         \/ StartScan(f) \/ TimerFires(f) \/ StartReconcile(f)
  PROVE  Books'
<1> USE TypeParts
<1>1. CASE Dispatch(f)
  <2>1. /\ used'.runs = used.runs + 1 /\ used.runs + 1 \in Runs
        /\ job'[f].run = used.runs + 1 /\ job'[f].kind = "initial" /\ job'[f].rev = job[f].rev
        /\ \A g \in Fiber : g # f => job'[g] = job[g]
    BY <1>1, TakeRunWrites DEF Dispatch
  <2>2. task'.status = "claimed" /\ task'.holder = used.runs + 1 BY <1>1 DEF Dispatch, TaskOK
  <2>3. StoreBooks'
    BY <1>1, <2>1, <2>2, GovernedAssumption, Numbers DEF Dispatch, Held, memory, Books,
       StoreBooks, HolderIsHeld, RunsCounted, RoundsCounted, TimerIsLate, SnapshotKnown
  <2>4. Others(f) /\ pc'[f] = "guard" BY <1>1, <2>1, GotoIs DEF Dispatch, Others, Stages
  <2>5. FiberBooks(f)'
    BY <1>1, <2>1, <2>4, GovernedAssumption, Numbers DEF Dispatch, Books, FiberBooks, Bears
  <2> QED BY <1>1, <2>1, <2>3, <2>4, <2>5, BooksFrame, Numbers DEF Dispatch
<1>2. CASE Wake(f)
  <2>1. Others(f) /\ pc'[f] = "read" /\ job' = job BY <1>2, GotoIs DEF Wake, Others, Stages
  <2>2. StoreBooks' BY <1>2, StoreBooksStay DEF Wake, stores
  <2> QED BY <1>2, <2>1, <2>2, PlainStepBooks DEF Wake, stores, Plain
<1>3. CASE ApplyVerdict(f)
  <2>1. Others(f) /\ pc'[f] \in {"decide", "settle"} /\ job' = job
    BY <1>3, GotoIs DEF ApplyVerdict, Others, Stages
  <2>2. PICK s \in {"APPROVED", "REPAIR"} : Enter(s) BY <1>3 DEF ApplyVerdict
  <2>3. change.state = "REVIEW" /\ UNCHANGED <<task, author, used, timer, snapshot>>
    BY <1>3 DEF ApplyVerdict
  <2>4. StoreBooks' /\ change'.revision = change.revision /\ change'.state \in Late
    BY <2>2, <2>3, EnterBooks DEF States, Late
  <2> QED BY <2>1, <2>3, <2>4, PlainStepBooks DEF Plain
<1>4. CASE StartScan(f)
  <2>1. Others(f) /\ pc'[f] = "scan" /\ job' = job BY <1>4, GotoIs DEF StartScan, Others, Stages
  <2>2. StoreBooks' BY <1>4, StoreBooksStay DEF StartScan, stores
  <2> QED BY <1>4, <2>1, <2>2, PlainStepBooks DEF StartScan, stores, Plain
<1>5. CASE TimerFires(f)
  <2>1. Others(f) /\ pc'[f] \in {"scan", "idle"} /\ job' = job
    BY <1>5, GotoIs DEF TimerFires, Others, Stages
  <2>2. StoreBooks' BY <1>5, ReleaseWrites, LetGoBooks DEF TimerFires, Held
  <2> QED BY <1>5, <2>1, <2>2, PlainStepBooks DEF TimerFires, Plain
<1>6. CASE StartReconcile(f)
  <2>1. /\ Others(f) /\ pc'[f] = "compare"
        /\ job'[f].run = task.holder /\ job'[f].rev = job[f].rev
    BY <1>6, GotoIs DEF StartReconcile, Others, Stages, FibersOK, JobRow
  <2>2. StoreBooks' BY <1>6, StoreBooksStay DEF StartReconcile, stores, memory
  <2> QED BY <1>6, <2>1, <2>2, PlainStepBooks DEF StartReconcile, stores, Plain
<1> QED BY <1>1, <1>2, <1>3, <1>4, <1>5, <1>6

(* Nobody outside moves a fiber; a crash ends them all.                    *)
LEMMA StillBooks ==
  ASSUME TypeOK, TypeOK', Books, StoreBooks', UNCHANGED <<pc, job>>, used'.runs = used.runs,
         change'.revision = change.revision,
         change.state \in Late => change'.state \in Late,
         change.state = "APPROVED" => change'.state = "APPROVED"
  PROVE  Books'
BY DEF Books, FiberBooks, RunsApart, Bears

(* The books are kept by reviewers, people, the clock and crashes.         *)
LEMMA OutsideBooks ==
  ASSUME TypeOK, TypeOK', Books, Outside
  PROVE  Books'
<1> USE TypeParts
<1>1. CASE Bootstrap
  <2>1. CASE Enter("DRAFT") /\ change.state = "none"
    <3>1. StoreBooks' /\ change'.revision = change.revision
      BY <1>1, <2>1, EnterBooks DEF Bootstrap, States, Late, memory
    <3> QED BY <1>1, <2>1, <3>1, StillBooks DEF Bootstrap, Late
  <2>2. CASE change'.state = change.state /\ change'.revision = change.revision
    <3>1. StoreBooks'
      BY <1>1, <2>2 DEF Bootstrap, memory, Books, StoreBooks, HolderIsHeld, RunsCounted,
         RoundsCounted, TimerIsLate, SnapshotKnown
    <3> QED BY <1>1, <2>2, <3>1, StillBooks DEF Bootstrap
  <2> QED BY <1>1, <2>1, <2>2, BootstrapWrites
<1>2. CASE Plan
  <2>1. StoreBooks' /\ change'.revision = change.revision
    BY <1>2, EnterBooks DEF Plan, States, Late, memory
  <2> QED BY <1>2, <2>1, StillBooks DEF Plan, Late
<1>3. CASE Publish
  <2>1. StoreBooks' BY <1>3, FoundIs, LetGoBooks DEF Publish, stores
  <2> QED BY <1>3, <2>1, StillBooks DEF Publish, stores
<1>4. CASE Activate
  <2>1. StoreBooks'
    BY <1>4, FoundIs, MoveWrites, LetGoBooks, GovernedAssumption DEF Activate, States, Statuses, Held
  <2> QED BY <1>4, <2>1, StillBooks DEF Activate
<1>5. CASE Verdict
  <2>1. PICK s \in {"APPROVED", "REPAIR"} : Enter(s) BY <1>5 DEF Verdict
  <2>2. StoreBooks' /\ change'.revision = change.revision /\ change'.state = s
    BY <1>5, <2>1, EnterBooks DEF Verdict, States, Late
  <2> QED BY <1>5, <2>2, StillBooks DEF Verdict, Late
<1>6. CASE PersonFinishes
  <2>1. used'.runs = used.runs BY <1>6 DEF PersonFinishes, UsedOK
  <2>2. StoreBooks'
    <3>1. task'.status \notin Held /\ task'.holder = None
      BY <1>6, MoveWrites DEF PersonFinishes, Statuses, Held
    <3> QED BY <1>6, <2>1, <3>1 DEF PersonFinishes, memory, Books, StoreBooks, HolderIsHeld,
            RunsCounted, RoundsCounted, TimerIsLate, SnapshotKnown
  <2> QED BY <1>6, <2>1, <2>2, StillBooks DEF PersonFinishes
<1>7. CASE PersonMoves
  <2>1. used'.runs = used.runs BY <1>7 DEF PersonMoves, UsedOK
  <2>2. StoreBooks'
    <3>1. task'.status \notin Held /\ task'.holder = None
      BY <1>7, MoveWrites DEF PersonMoves, Statuses, Held
    <3> QED BY <1>7, <2>1, <3>1 DEF PersonMoves, memory, Books, StoreBooks, HolderIsHeld,
            RunsCounted, RoundsCounted, TimerIsLate, SnapshotKnown
  <2> QED BY <1>7, <2>1, <2>2, StillBooks DEF PersonMoves
<1>8. CASE LeaseEnds
  <2>1. task'.status = task.status /\ task'.holder = task.holder BY <1>8 DEF LeaseEnds, TaskOK
  <2>2. StoreBooks'
    BY <1>8, <2>1 DEF LeaseEnds, memory, Books, StoreBooks, HolderIsHeld,
       RunsCounted, RoundsCounted, TimerIsLate, SnapshotKnown
  <2> QED BY <1>8, <2>2, StillBooks DEF LeaseEnds
<1>9. CASE Crash
  <2>1. used'.runs = used.runs BY <1>9 DEF Crash, UsedOK
  <2>2. StoreBooks'
    BY <1>9, <2>1, GovernedAssumption DEF Crash, States, stores, Books, StoreBooks, HolderIsHeld,
       RunsCounted, RoundsCounted, TimerIsLate, SnapshotKnown
  <2>3. ASSUME NEW g \in Fiber PROVE FiberBooks(g)' /\ ~Bears(g)'
    BY <1>9, NoJobIs, Numbers DEF Crash, stores, FiberBooks, Bears
  <2> QED BY <2>2, <2>3 DEF Books, RunsApart
<1>10. CASE Restart
  <2>1. StoreBooks' BY <1>10, StoreBooksStay DEF Restart, stores
  <2> QED BY <1>10, <2>1, StillBooks DEF Restart, stores
<1> QED BY <1>1, <1>2, <1>3, <1>4, <1>5, <1>6, <1>7, <1>8, <1>9, <1>10 DEF Outside

(* Every step keeps the books.                                             *)
LEMMA BooksStep ==
  ASSUME TypeOK, TypeOK', Books, [Next]_vars
  PROVE  Books'
<1>1. CASE Next
  BY <1>1, RunningBooks, ControllingBooks, RecoveringBooks, BeginningBooks, OutsideBooks DEF Next
<1>2. CASE UNCHANGED vars
  BY <1>2, StoreBooksStay, StillBooks DEF vars, stores, memory
<1> QED BY <1>1, <1>2

-----------------------------------------------------------------------------
(* While nothing slipped.                                                  *)

LEMMA RoundOthers ==
  ASSUME Round, StoreRound', UNCHANGED <<change, author>>, NEW f \in Fiber, Others(f),
         FiberRound(f)', task' = task \/ task'.status \notin Held
  PROVE  Round'
<1>1. ASSUME NEW g \in Fiber, g # f PROVE FiberRound(g)'
  BY <1>1 DEF Round, FiberRound, Others, Pending
<1> QED BY <1>1 DEF Round

(* The task is left alone, made ready, failed, blocked or cancelled.       *)
LEMMA DropRound ==
  ASSUME Round, UNCHANGED <<change, author>>,
         task' = task \/ task'.status \in {"ready", "failed", "blocked", "cancelled"}
  PROVE  StoreRound' /\ (task' = task \/ task'.status \notin Held)
BY DEF Round, StoreRound, Preflighted, Shown, Owned, Finished, Requested, Exhausted, Held

(* The task is done when the Change is approved, or has none.              *)
LEMMA DoneRound ==
  ASSUME Round, UNCHANGED <<change, author>>,
         task'.status = "done", change.state \in {"none", "APPROVED"}
  PROVE  StoreRound' /\ task'.status \notin Held
BY DEF Round, StoreRound, Preflighted, Shown, Owned, Finished, Requested, Held

(* The task shows the revision the Change is at.                           *)
LEMMA ShownRound ==
  ASSUME Round, UNCHANGED <<change, author>>, task'.status = "in_review", change.state \in Late,
         task'.result = change.revision
  PROVE  StoreRound' /\ task'.status \notin Held
BY DEF Round, StoreRound, Preflighted, Shown, Owned, Finished, Requested, Held

(* A call that ends without taking the task keeps the round.               *)
LEMMA ReturnRound ==
  ASSUME TypeOK, Round, StoreRound', UNCHANGED <<change, author>>, NEW f \in Fiber, Return(f),
         task' = task \/ task'.status \notin Held
  PROVE  Round'
BY ReturnIs, PlainFiber, RoundOthers

(* No fiber moves and the task is not taken.                               *)
LEMMA StillRound ==
  ASSUME Round, StoreRound', UNCHANGED <<pc, job, change, author>>,
         task' = task \/ task'.status \notin Held
  PROVE  Round'
BY DEF Round, FiberRound, Pending

(* The proof of the run that holds the task is the proof under review.     *)
LEMMA ProofIsCurrent ==
  ASSUME TypeOK, Round, NEW r, task.status \in Held, task.holder = r,
         \E v \in Revisions : author[v] = r
  PROVE  ProofOf(r) = change.revision /\ change.state = "PREFLIGHT"
BY DEF Round, StoreRound, Owned, ProofOf

(* A proof handed in by the holder of the task, or before the first one.   *)
LEMMA SubmitRound ==
  ASSUME TypeOK, TypeOK', Books, Round, NEW f \in Fiber, Others(f), job' = job,
         NEW how \in {"submitted", "repair_submitted"}, Submit(f, how), task' = task,
         change.state \in {"IMPLEMENTING", "REPAIR"}, Bears(f), pc'[f] \in {"finish", "lease"},
         change.state = "REPAIR" => task.status \in Held
  PROVE  Round'
<1>1. /\ change'.state = "PREFLIGHT" /\ change'.revision = change.revision + 1
      /\ author' = [author EXCEPT ![change.revision + 1] = job[f].run]
      /\ change.revision + 1 \in Revisions
  BY TypeParts, SubmitWrites
<1>2. \A v \in Revisions : ~(task.status \in Held /\ author[v] = task.holder)
  BY DEF Round, StoreRound, Owned
<1>3. /\ task.status \notin {"in_review", "done"}
      /\ task.status # "changes_requested"
  BY DEF Round, StoreRound, Shown, Finished, Requested, Held, Late
<1>4. \A v \in Revisions : author'[v] = IF v = change.revision + 1 THEN job[f].run ELSE author[v]
  BY <1>1, Numbers
<1>5. StoreRound'
  BY <1>1, <1>2, <1>3, <1>4 DEF StoreRound, Preflighted, Shown, Owned, Finished, Requested
<1>6. ASSUME NEW g \in Fiber
      PROVE  /\ ~Pending(g, change.revision + 1)
             /\ pc[g] = "finish" => \E v \in Revisions : author'[v] = job[g].run
  <2>1. ~Pending(g, change.revision + 1) BY Numbers DEF Books, FiberBooks, Pending
  <2>2. ASSUME pc[g] = "finish" PROVE \E v \in Revisions : author'[v] = job[g].run
    <3>1. PICK v \in Revisions : author[v] = job[g].run BY <2>2 DEF Round, FiberRound
    <3>2. job[g].run # None BY <2>2 DEF Books, FiberBooks, Bears
    <3>3. author[change.revision + 1] = None
      BY <1>1, Numbers DEF Books, StoreBooks, RoundsCounted
    <3> QED BY <1>4, <3>1, <3>2, <3>3
  <2> QED BY <2>1, <2>2
<1>7. ASSUME NEW g \in Fiber, g # f PROVE FiberRound(g)'
  <2>1. pc'[g] = pc[g] BY <1>7 DEF Others
  <2> QED BY <1>1, <1>2, <1>4, <1>6, <2>1 DEF FiberRound, Pending
<1>8. FiberRound(f)' BY <1>1, <1>4 DEF FiberRound, Pending
<1> QED BY <1>5, <1>7, <1>8 DEF Round

(* A completion that throws keeps the round.                               *)
LEMMA GiveUpRound ==
  ASSUME TypeOK, Round, NEW f \in Fiber, Throw(f), UNCHANGED <<change, author>>,
         change.state # "none"
  PROVE  Round'
<1>1. StoreRound' /\ (task' = task \/ task'.status \notin Held) BY GiveUpIs, DropRound
<1>2. FiberRound(f)' BY GiveUpIs DEF FiberRound, Pending
<1> QED BY <1>1, <1>2, GiveUpIs, RoundOthers

(* The round is kept by the steps of a dispatch, a repair and a            *)
(* completion.                                                             *)
LEMMA RunningRound ==
  ASSUME TypeOK, TypeOK', Books, Round, slips' = {}, NEW f \in Fiber, Running(f)
  PROVE  Round'
<1> USE TypeParts
<1>0. pc[f] \notin {"idle", "guard", "scan"} => change.state # "none" BY DEF Round, FiberRound
<1>1. CASE Guard(f)
  <2>1. CASE Return(f)
    BY <1>1, <2>1, MoveWrites, DropRound, ReturnRound DEF Guard, Statuses
  <2>2. CASE ~Return(f)
    <3>1. Others(f) /\ pc'[f] = "begin" /\ job' = job
      BY <1>1, <2>2, GotoIs DEF Guard, Others, Stages
    <3>2. change.state = "READY" /\ UNCHANGED <<task, change, author>>
      BY <1>1, <2>2, SlipHappens, FoundIs DEF Guard
    <3>3. FiberRound(f)' BY <3>1, <3>2 DEF FiberRound, Pending
    <3> QED BY <3>1, <3>2, <3>3, RoundFrame
  <2> QED BY <2>1, <2>2
<1>2. CASE Begin(f)
  <2>1. CASE Return(f) /\ task' # [task EXCEPT !.status = "running"]
    BY <1>2, <2>1, MoveWrites, DropRound, ReturnRound DEF Begin, Statuses
  <2>2. CASE Return(f) /\ ~HoldsLease(job[f].run)
    BY <1>2, <2>2, DropRound, ReturnRound DEF Begin
  <2>3. CASE HoldsLease(job[f].run) /\ task' = [task EXCEPT !.status = "running"]
    <3>1. /\ task'.status = "running" /\ task'.holder = task.holder /\ task.status \in Held
      BY <2>3 DEF TaskOK, HoldsLease
    <3>2. Others(f) /\ pc'[f] \in {"idle", "work"}
      BY <1>2, ReturnIs, GotoIs DEF Begin, Others, Stages
    <3>3. StoreRound'
      BY <1>2, <3>1 DEF Begin, Round, StoreRound, Preflighted, Shown, Owned, Finished, Requested
    <3>4. FiberRound(f)' BY <1>0, <1>2, <3>2 DEF Begin, FiberRound, Pending
    <3>5. ASSUME NEW g \in Fiber, g # f PROVE FiberRound(g)'
      BY <1>2, <3>1, <3>2, <3>5 DEF Begin, Round, FiberRound, Others, Pending
    <3> QED BY <3>3, <3>4, <3>5 DEF Round
  <2> QED BY <1>2, <2>1, <2>2, <2>3 DEF Begin
<1>3. CASE WorkSucceeds(f)
  <2>1. Others(f) /\ pc'[f] \in {"lease", "submit"}
    BY <1>3, GotoIs DEF WorkSucceeds, Others, Stages
  <2>2. FiberRound(f)' BY <1>0, <1>3, <2>1 DEF WorkSucceeds, FiberRound, Pending, stores
  <2> QED BY <1>3, <2>1, <2>2, RoundFrame DEF WorkSucceeds, stores
<1>4. CASE WorkFails(f)
  <2>1. Others(f) /\ pc'[f] = "idle" BY <1>4, GotoIs DEF WorkFails, Others, Stages
  <2>2. task' = task \/ task'.status \in {"ready", "failed"}
    <3>1. CASE HoldsLease(job[f].run) BY <1>4, <3>1 DEF WorkFails, TaskOK
    <3>2. CASE ~HoldsLease(job[f].run) BY <1>4, <3>2 DEF WorkFails
    <3> QED BY <3>1, <3>2
  <2> QED BY <1>4, <2>1, <2>2, DropRound, PlainFiber, RoundOthers DEF WorkFails, Plain
<1>5. CASE CompleteUngoverned(f)
  <2>1. change.state # "none" BY <1>0, <1>5 DEF CompleteUngoverned
  <2>2. task' = task BY <1>5, <2>1, SlipHappens DEF CompleteUngoverned
  <2> QED BY <1>5, <2>2, DropRound, ReturnRound DEF CompleteUngoverned
<1>6. CASE CheckLease(f)
  <2>1. CASE Throw(f) BY <1>0, <1>6, <2>1, GiveUpRound DEF CheckLease
  <2>2. CASE ~Throw(f)
    <3>1. Others(f) /\ pc'[f] \in {"read", "prove"}
      BY <1>6, <2>2, GotoIs DEF CheckLease, Others, Stages
    <3>2. FiberRound(f)' BY <1>0, <1>6, <3>1 DEF CheckLease, FiberRound, Pending
    <3> QED BY <1>6, <2>2, <3>1, <3>2, RoundFrame DEF CheckLease
  <2> QED BY <2>1, <2>2
<1>7. CASE Prove(f)
  <2>1. CASE change.state = "READY" /\ Enter("IMPLEMENTING") /\ UNCHANGED <<task, author, pc, job>>
    <3>1. /\ change'.state = "IMPLEMENTING" /\ change'.revision = change.revision
          /\ change'.passed = change.passed
      BY <2>1, EnterWrites DEF States
    <3>2. StoreRound'
      BY <2>1, <3>1 DEF Late, Round, StoreRound, Preflighted, Shown, Owned, Finished, Requested
    <3>3. ASSUME NEW g \in Fiber PROVE FiberRound(g)'
      BY <2>1, <3>1 DEF Round, FiberRound, Pending
    <3> QED BY <3>2, <3>3 DEF Round
  <2>2. CASE Submit(f, "submitted") /\ Goto(f, "finish") /\ change.state = "IMPLEMENTING"
             /\ UNCHANGED <<task, job>>
    <3>1. Others(f) /\ pc'[f] = "finish" /\ Bears(f)
      BY <1>7, <2>2, GotoIs DEF Prove, Others, Stages, Bears
    <3> QED BY <2>2, <3>1, SubmitRound
  <2>3. CASE OwnProof(f) /\ Goto(f, "finish") /\ UNCHANGED <<task, change, author, job>>
    <3>1. Others(f) /\ pc'[f] = "finish" BY <2>3, GotoIs DEF Others, Stages
    <3>2. change.revision \in Revisions /\ author[change.revision] = job[f].run
      BY <2>3, GovernedAssumption DEF OwnProof, ChangeOK, Revisions
    <3>3. FiberRound(f)' BY <1>0, <1>7, <2>3, <3>1, <3>2 DEF Prove, FiberRound, Pending
    <3> QED BY <2>3, <3>1, <3>3, RoundFrame
  <2>4. CASE Throw(f) /\ UNCHANGED <<change, author>>
    BY <1>0, <1>7, <2>4, GiveUpRound DEF Prove
  <2> QED BY <1>7, <2>1, <2>2, <2>3, <2>4 DEF Prove
<1>8. CASE Finish(f)
  <2>1. CASE Throw(f) BY <1>0, <1>8, <2>1, GiveUpRound DEF Finish
  <2>2. CASE ~Throw(f)
    <3>1. task.status \in Held /\ task.holder = job[f].run
      BY <1>8, <2>2 DEF Finish, HoldsLease
    <3>2. ProofOf(job[f].run) = change.revision /\ change.state = "PREFLIGHT"
      <4>1. \E v \in Revisions : author[v] = job[f].run
        BY <1>8 DEF Finish, Round, FiberRound
      <4> QED BY <3>1, <4>1, ProofIsCurrent
    <3>3. task'.status = "in_review" /\ task'.result = change.revision
      BY <1>8, <2>2, <3>2, ShowWrites DEF Finish, Statuses, ChangeOK
    <3>4. StoreRound' /\ task'.status \notin Held
      BY <1>8, <3>2, <3>3, ShownRound DEF Finish, Late
    <3>5. Others(f) /\ pc'[f] = "read"
      BY <1>8, <2>2, GotoIs DEF Finish, Others, Stages, FibersOK
    <3> QED BY <1>0, <1>8, <3>4, <3>5, PlainFiber, RoundOthers DEF Finish, Plain
  <2> QED BY <2>1, <2>2
<1> QED BY <1>1, <1>2, <1>3, <1>4, <1>5, <1>6, <1>7, <1>8 DEF Running

(* A fiber that goes to a stage without a run keeps the round.             *)
LEMMA PlainRound ==
  ASSUME Round, StoreRound', UNCHANGED <<change, author>>, NEW f \in Fiber, Others(f),
         pc'[f] \in Plain, change.state # "none" \/ pc'[f] \in {"idle", "scan"},
         task' = task \/ task'.status \notin Held
  PROVE  Round'
BY PlainFiber, RoundOthers

(* A run just taken has handed in nothing yet.                             *)
LEMMA ClaimRound ==
  ASSUME TypeOK, TypeOK', Books, Round, UNCHANGED <<change, author>>, NEW f \in Fiber, Others(f),
         task'.status \in Held, task'.holder = used.runs + 1, pc'[f] \in {"guard", "launch"},
         pc'[f] = "launch" => change.state # "none"
  PROVE  Round'
<1>1. \A v \in Revisions : author[v] # task'.holder
  BY Numbers, GovernedAssumption DEF Books, StoreBooks, RunsCounted
<1>2. StoreRound'
  BY <1>1 DEF Held, Round, StoreRound, Preflighted, Shown, Owned, Finished, Requested
<1>3. ASSUME NEW g \in Fiber, g # f PROVE FiberRound(g)'
  BY <1>1, <1>3 DEF Round, FiberRound, Others, Pending
<1>4. FiberRound(f)' BY DEF FiberRound, Pending
<1> QED BY <1>2, <1>3, <1>4 DEF Round

(* The round is kept by the steps of the controller.                       *)
LEMMA ControllingRound ==
  ASSUME TypeOK, TypeOK', Books, Round, slips' = {}, NEW f \in Fiber, Controlling(f)
  PROVE  Round'
<1> USE TypeParts
<1>0. pc[f] \notin {"idle", "guard", "scan"} => change.state # "none" BY DEF Round, FiberRound
<1>1. CASE ReadTask(f)
  <2>1. Others(f) /\ pc'[f] = "decide"
    BY <1>1, GotoIs DEF ReadTask, Others, Stages, FibersOK
  <2> QED BY <1>0, <1>1, <2>1, DropRound, PlainRound DEF ReadTask, stores, Plain
<1>2. CASE Converge(f)
  <2>1. StoreRound' /\ (task' = task \/ task'.status \notin Held)
    BY <1>2, FoundIs, MoveWrites, DropRound, DoneRound DEF Converge, Statuses
  <2>2. Others(f) /\ pc'[f] \in {"idle", "read"}
    BY <1>2, ReturnIs, GotoIs DEF Converge, Others, Stages
  <2> QED BY <1>0, <1>2, <2>1, <2>2, PlainRound DEF Converge, Plain
<1>3. CASE Decide(f)
  <2>1. Others(f) /\ pc'[f] \in Plain
    BY <1>3, ReturnIs, GotoIs DEF Decide, Others, Stages, Plain
  <2> QED BY <1>0, <1>3, <2>1, DropRound, PlainRound DEF Decide
<1>4. CASE SettleFailure(f)
  <2>1. Others(f) /\ pc'[f] \in Plain
    BY <1>4, GotoIs DEF SettleFailure, Others, Stages, Plain
  <2>2. CASE task' = task \/ Move("failed")
    BY <1>0, <1>4, <2>1, <2>2, MoveWrites, DropRound, PlainRound DEF SettleFailure, Statuses
  <2>3. CASE Move("changes_requested") /\ ~Exhausted /\ change.state = "REPAIR"
    <3>1. task'.status = "changes_requested" BY <2>3, MoveWrites DEF Statuses
    <3>2. StoreRound' /\ task'.status \notin Held
      BY <1>4, <2>3, <3>1 DEF SettleFailure, Held, Round, StoreRound, Preflighted, Shown, Owned,
         Finished, Requested, Exhausted
    <3> QED BY <1>0, <1>4, <2>1, <3>2, PlainRound DEF SettleFailure
  <2> QED BY <1>4, <2>2, <2>3, SlipHappens DEF SettleFailure
<1>5. CASE Escalate(f)
  BY <1>5, DropRound, ReturnRound DEF Escalate
<1>6. CASE Preflight(f)
  <2>1. CASE Return(f) /\ UNCHANGED change
    BY <1>6, <2>1, DropRound, ReturnRound DEF Preflight
  <2>2. CASE ~(Return(f) /\ UNCHANGED change)
    <3>1. /\ task.status = "in_review" /\ change.state \in {"PREFLIGHT", "REVIEW"}
          /\ Others(f) /\ pc'[f] = "reserve" /\ UNCHANGED <<task, author>>
      BY <1>6, <2>2, GotoIs DEF Preflight, Others, Stages, FibersOK
    <3>2. /\ change'.revision = change.revision /\ change'.passed = change.revision
          /\ change'.state \in {"PREFLIGHT", "REVIEW"}
      <4>1. change.state = "REVIEW" => change.passed = change.revision
        BY DEF Round, StoreRound, Preflighted
      <4> QED BY <1>6, <2>2, <3>1, <4>1 DEF Preflight, ChangeOK
    <3>3. StoreRound'
      BY <3>1, <3>2 DEF Round, StoreRound, Preflighted, Shown, Owned, Finished, Requested, Held, Late
    <3>4. FiberRound(f)' BY <3>1, <3>2 DEF FiberRound, Pending, Held
    <3>5. ASSUME NEW g \in Fiber, g # f PROVE FiberRound(g)'
      BY <3>1, <3>2, <3>5 DEF Round, FiberRound, Pending, Held, Others
    <3> QED BY <3>3, <3>4, <3>5 DEF Round
  <2> QED BY <2>1, <2>2
<1>7. CASE Reserve(f)
  <2>1. Others(f) /\ pc'[f] = "advance" /\ job' = job
    BY <1>7, GotoIs DEF Reserve, Others, Stages
  <2>2. FiberRound(f)' BY <1>0, <1>7, <2>1 DEF Reserve, Round, FiberRound, Pending
  <2> QED BY <1>7, <2>1, <2>2, RoundFrame DEF Reserve
<1>8. CASE Advance(f)
  <2>1. Others(f) /\ pc'[f] = "read" /\ UNCHANGED <<task, author>>
    BY <1>8, GotoIs DEF Advance, Others, Stages
  <2>2. CASE change.state # "PREFLIGHT"
    BY <1>0, <1>8, <2>1, <2>2, DropRound, PlainRound DEF Advance, Plain
  <2>3. CASE change.state = "PREFLIGHT"
    <3>1. /\ change'.state = "REVIEW" /\ change'.revision = change.revision
          /\ change'.passed = change.passed
      BY <1>8, <2>3, EnterWrites DEF Advance, States
    <3>2. Pending(f, change.revision) BY <1>8, <2>3, SlipHappens DEF Advance, Pending
    <3>3. /\ change.passed = change.revision
          /\ \A v \in Revisions : ~(task.status \in Held /\ author[v] = task.holder)
      BY <3>2 DEF Round, StoreRound, Owned, FiberRound
    <3>4. StoreRound'
      BY <2>1, <2>3, <3>1, <3>3 DEF Round, StoreRound, Preflighted, Shown, Owned, Finished,
         Requested, Late
    <3>5. ASSUME NEW g \in Fiber, g # f PROVE FiberRound(g)'
      BY <2>1, <3>1, <3>3, <3>5 DEF Round, FiberRound, Pending, Others
    <3>6. FiberRound(f)' BY <2>1, <3>1, PlainFiber DEF Plain
    <3> QED BY <3>4, <3>5, <3>6 DEF Round
  <2> QED BY <2>2, <2>3
<1>9. CASE Route(f)
  <2>1. StoreRound' /\ (task' = task \/ task'.status \notin Held)
    BY <1>9, MoveWrites, DropRound DEF Route, Statuses
  <2>2. Others(f) /\ pc'[f] \in {"idle", "recheck"}
    BY <1>9, ReturnIs, GotoIs DEF Route, Others, Stages
  <2>3. FiberRound(f)' BY <1>0, <1>9, <2>2 DEF Route, FiberRound, Pending
  <2> QED BY <1>9, <2>1, <2>2, <2>3, RoundOthers DEF Route
<1>10. CASE Recheck(f)
  <2>1. Others(f) /\ pc'[f] \in {"idle", "claim"}
    BY <1>10, ReturnIs, GotoIs DEF Recheck, Others, Stages
  <2>2. FiberRound(f)' BY <1>0, <1>10, <2>1 DEF Recheck, FiberRound, Pending
  <2> QED BY <1>10, <2>1, <2>2, RoundFrame DEF Recheck
<1>11. CASE ClaimRepair(f)
  <2>1. CASE TakeRun(f, "repair", FALSE)
    <3>1. /\ used'.runs = used.runs + 1 /\ used.runs + 1 \in Runs
          /\ \A g \in Fiber : g # f => job'[g] = job[g]
      BY <2>1, TakeRunWrites
    <3>2. /\ task' = [task EXCEPT !.status = "running", !.holder = used.runs + 1, !.live = TRUE]
          /\ Goto(f, "launch")
      <4>1. used' # used BY <3>1, Numbers
      <4> QED BY <1>11, <4>1 DEF ClaimRepair
    <3>3. task'.status = "running" /\ task'.holder = used.runs + 1 BY <3>2 DEF TaskOK
    <3>4. Others(f) /\ pc'[f] = "launch" BY <3>1, <3>2, GotoIs DEF Others, Stages
    <3> QED BY <1>0, <1>11, <3>1, <3>3, <3>4, ClaimRound DEF ClaimRepair, Held
  <2>2. CASE ~TakeRun(f, "repair", FALSE)
    <3>1. Return(f) /\ UNCHANGED <<task, used>> BY <1>11, <2>2 DEF ClaimRepair
    <3> QED BY <1>11, <3>1, DropRound, ReturnRound DEF ClaimRepair
  <2> QED BY <2>1, <2>2
<1>12. CASE SubmitRepair(f)
  <2>1. CASE Submit(f, "repair_submitted") /\ Goto(f, "lease") /\ change.state = "REPAIR"
             /\ task.status \in Held
    <3>1. Others(f) /\ pc'[f] = "lease" /\ Bears(f)
      BY <1>12, <2>1, GotoIs DEF SubmitRepair, Others, Stages, Bears
    <3> QED BY <1>12, <2>1, <3>1, SubmitRound DEF SubmitRepair
  <2>2. CASE Goto(f, "trouble") /\ UNCHANGED <<change, author>>
    <3>1. Others(f) /\ pc'[f] = "trouble"
      BY <1>12, <2>2, GotoIs DEF SubmitRepair, Others, Stages
    <3>2. FiberRound(f)' BY <1>0, <1>12, <2>2, <3>1 DEF SubmitRepair, FiberRound, Pending
    <3> QED BY <1>12, <2>2, <3>1, <3>2, RoundFrame DEF SubmitRepair
  <2> QED BY <1>12, <2>1, <2>2, SlipHappens DEF SubmitRepair
<1>13. CASE Trouble(f)
  <2>1. StoreRound' /\ (task' = task \/ task'.status \notin Held)
    <3>1. CASE task' = task \/ Move("ready") \/ Move("failed")
      BY <1>13, <3>1, MoveWrites, DropRound DEF Trouble, Statuses
    <3>2. CASE Show("in_review", ProofOf(job[f].run)) /\ OwnProof(f)
               /\ task.status \in Held /\ task.holder = job[f].run
      <4>1. change.revision \in Revisions /\ author[change.revision] = job[f].run
        BY <3>2, GovernedAssumption DEF OwnProof, ChangeOK, Revisions
      <4>2. ProofOf(job[f].run) = change.revision BY <3>2, <4>1, ProofIsCurrent
      <4>3. task'.status = "in_review" /\ task'.result = change.revision
        BY <3>2, <4>2, ShowWrites DEF Statuses, ChangeOK
      <4> QED BY <1>13, <3>2, <4>3, ShownRound DEF Trouble, OwnProof, Late
    <3> QED BY <1>13, <3>1, <3>2, SlipHappens DEF Trouble
  <2>2. Others(f) /\ pc'[f] \in {"idle", "read"}
    BY <1>13, ReturnIs, GotoIs DEF Trouble, Others, Stages
  <2> QED BY <1>0, <1>13, <2>1, <2>2, PlainRound DEF Trouble, Plain
<1> QED BY <1>1, <1>2, <1>3, <1>4, <1>5, <1>6, <1>7, <1>8, <1>9, <1>10, <1>11, <1>12, <1>13
        DEF Controlling

(* The round is kept by the steps of recovery.                             *)
LEMMA RecoveringRound ==
  ASSUME TypeOK, TypeOK', Books, Round, slips' = {}, NEW f \in Fiber, Recovering(f)
  PROVE  Round'
<1> USE TypeParts
<1>0. pc[f] \notin {"idle", "guard", "scan"} => change.state # "none" BY DEF Round, FiberRound
<1>1. CASE ScanLive(f)
  BY <1>1, DropRound, ReturnRound DEF ScanLive
<1>2. CASE ScanSettled(f)
  <2>1. StoreRound' /\ (task' = task \/ task'.status \notin Held)
    BY <1>2, MoveWrites, ReleaseWrites, DropRound, DoneRound DEF ScanSettled, Statuses
  <2>2. Others(f) /\ pc'[f] \in {"idle", "read"}
    BY <1>2, ReturnIs, GotoIs DEF ScanSettled, Others, Stages
  <2>3. change.state # "none" BY <1>2, FoundIs DEF ScanSettled
  <2> QED BY <1>2, <2>1, <2>2, <2>3, PlainRound DEF ScanSettled, Plain
<1>3. CASE ScanPartial(f)
  <2>1. StoreRound' /\ (task' = task \/ task'.status \notin Held)
    <3>1. CASE task' = task BY <1>3, <3>1, DropRound DEF ScanPartial
    <3>2. CASE Show("in_review", change.revision)
      BY <1>3, <3>2, ShowWrites, ShownRound DEF ScanPartial, Statuses, Late, ChangeOK
    <3> QED BY <1>3, <3>1, <3>2, SlipHappens DEF ScanPartial
  <2>2. Others(f) /\ pc'[f] \in {"idle", "read"}
    BY <1>3, ReturnIs, GotoIs DEF ScanPartial, Others, Stages
  <2> QED BY <1>3, <2>1, <2>2, PlainRound DEF ScanPartial, Plain
<1>4. CASE ScanNothing(f)
  BY <1>4, DropRound, ReturnRound DEF ScanNothing
<1>5. CASE Compare(f)
  <2>1. Others(f) /\ pc'[f] = "reconcile"
    BY <1>5, GotoIs DEF Compare, Others, Stages, FibersOK
  <2>2. FiberRound(f)' BY <1>0, <1>5, <2>1 DEF Compare, FiberRound, Pending
  <2> QED BY <1>5, <2>1, <2>2, RoundFrame DEF Compare
<1>6. CASE Reconcile(f)
  <2>1. CASE task' = task BY <1>6, <2>1, DropRound, ReturnRound DEF Reconcile
  <2>2. CASE Show("in_review", job[f].rev) /\ job[f].rev = change.revision /\ job[f].kind = "half"
    <3>1. task'.status = "in_review" /\ task'.result = change.revision
      BY <2>2, ShowWrites DEF Statuses, ChangeOK
    <3>2. change.state \in Late BY <1>6, <2>2 DEF Reconcile, Books, FiberBooks
    <3> QED BY <1>6, <3>1, <3>2, ShownRound, ReturnRound DEF Reconcile
  <2>3. CASE Move("done") /\ job[f].kind = "approved"
    <3>1. task'.status = "done" BY <2>3, MoveWrites DEF Statuses
    <3>2. change.state = "APPROVED" BY <1>6, <2>3 DEF Reconcile, Books, FiberBooks
    <3> QED BY <1>6, <3>1, <3>2, DoneRound, ReturnRound DEF Reconcile
  <2>4. CASE task' = [task EXCEPT !.result = job[f].rev] /\ job[f].rev = change.revision
             /\ task.status = "in_review"
    <3>1. task'.status = "in_review" /\ task'.result = change.revision BY <2>4 DEF TaskOK
    <3>2. change.state \in Late BY <2>4 DEF Round, StoreRound, Shown
    <3> QED BY <1>6, <3>1, <3>2, ShownRound, ReturnRound DEF Reconcile
  <2> QED BY <1>6, <2>1, <2>2, <2>3, <2>4, SlipHappens DEF Reconcile
<1> QED BY <1>1, <1>2, <1>3, <1>4, <1>5, <1>6 DEF Recovering

(* A verdict keeps the round: the revision it is about has passed.         *)
LEMMA VerdictRound ==
  ASSUME TypeOK, Round, change.state = "REVIEW", NEW s \in {"APPROVED", "REPAIR"}, Enter(s),
         UNCHANGED <<task, author, job>>,
         \A f \in Fiber : pc'[f] = pc[f] \/ pc'[f] \in Plain
  PROVE  Round'
<1>1. /\ change'.state = s /\ change'.revision = change.revision
      /\ change'.passed = change.passed
  BY TypeParts, EnterWrites DEF States
<1>2. StoreRound'
  BY <1>1 DEF Round, StoreRound, Preflighted, Shown, Owned, Finished, Requested, Late
<1>3. ASSUME NEW f \in Fiber PROVE FiberRound(f)'
  <2>1. CASE pc'[f] \in Plain BY <1>1, <2>1, PlainFiber
  <2>2. CASE pc'[f] = pc[f] BY <1>1, <2>2 DEF Round, FiberRound, Pending
  <2> QED BY <2>1, <2>2
<1> QED BY <1>2, <1>3 DEF Round

(* The round is kept when a call begins.                                   *)
LEMMA BeginningRound ==
  ASSUME TypeOK, TypeOK', Books, Round, slips' = {}, NEW f \in Fiber,
         \/ Dispatch(f) \/ Wake(f) \/ ApplyVerdict(f)
         \/ StartScan(f) \/ TimerFires(f) \/ StartReconcile(f)
  PROVE  Round'
<1> USE TypeParts
<1>1. CASE Dispatch(f)
  <2>1. /\ used'.runs = used.runs + 1 /\ used.runs + 1 \in Runs
        /\ \A g \in Fiber : g # f => job'[g] = job[g]
    BY <1>1, TakeRunWrites DEF Dispatch
  <2>2. task'.status = "claimed" /\ task'.holder = used.runs + 1 BY <1>1 DEF Dispatch, TaskOK
  <2>3. Others(f) /\ pc'[f] = "guard" BY <1>1, <2>1, GotoIs DEF Dispatch, Others, Stages
  <2> QED BY <1>1, <2>1, <2>2, <2>3, ClaimRound DEF Dispatch, Held
<1>2. CASE Wake(f)
  <2>1. Others(f) /\ pc'[f] = "read" BY <1>2, GotoIs DEF Wake, Others, Stages
  <2> QED BY <1>2, <2>1, DropRound, PlainRound DEF Wake, stores, Plain
<1>3. CASE ApplyVerdict(f)
  <2>1. PICK s \in {"APPROVED", "REPAIR"} : Enter(s) BY <1>3 DEF ApplyVerdict
  <2>2. \A g \in Fiber : pc'[g] = pc[g] \/ pc'[g] \in Plain
    BY <1>3, GotoIs DEF ApplyVerdict, Stages, Plain
  <2> QED BY <1>3, <2>1, <2>2, VerdictRound DEF ApplyVerdict
<1>4. CASE StartScan(f)
  <2>1. Others(f) /\ pc'[f] = "scan" BY <1>4, GotoIs DEF StartScan, Others, Stages
  <2> QED BY <1>4, <2>1, DropRound, PlainRound DEF StartScan, stores, Plain
<1>5. CASE TimerFires(f)
  <2>1. Others(f) /\ pc'[f] \in {"scan", "idle"}
    BY <1>5, GotoIs DEF TimerFires, Others, Stages
  <2> QED BY <1>5, <2>1, ReleaseWrites, DropRound, PlainRound DEF TimerFires, Plain
<1>6. CASE StartReconcile(f)
  <2>1. Others(f) /\ pc'[f] = "compare"
    BY <1>6, GotoIs DEF StartReconcile, Others, Stages, FibersOK
  <2> QED BY <1>6, <2>1, DropRound, PlainRound DEF StartReconcile, stores, Plain
<1> QED BY <1>1, <1>2, <1>3, <1>4, <1>5, <1>6

(* Before the first proof there is no round to break.                      *)
LEMMA EarlyRound ==
  ASSUME TypeOK, Round, change.state \notin Late, NEW s \in States \ (Late \union {"none"}), Enter(s),
         UNCHANGED <<task, author, pc, job>>, task.status = "done" => change.state # "none"
  PROVE  Round'
<1>1. /\ change'.state = s /\ change'.revision = change.revision
      /\ change'.passed = change.passed
  BY TypeParts, EnterWrites DEF States
<1>2. StoreRound'
  BY <1>1 DEF Round, StoreRound, Preflighted, Shown, Owned, Finished, Requested, Late
<1>3. ASSUME NEW f \in Fiber PROVE FiberRound(f)'
  BY <1>1 DEF Round, FiberRound, Pending
<1> QED BY <1>2, <1>3 DEF Round

(* The round is kept by reviewers, people, the clock and crashes.          *)
LEMMA OutsideRound ==
  ASSUME TypeOK, TypeOK', Books, Round, slips' = {}, Outside
  PROVE  Round'
<1> USE TypeParts
<1>1. CASE Bootstrap
  <2>1. change.state = "none" /\ Enter("DRAFT") /\ task.status \in Active
    BY <1>1, BootstrapWrites
  <2> QED BY <1>1, <2>1, EarlyRound DEF Bootstrap, Active, States, Late
<1>2. CASE Plan
  BY <1>2, EarlyRound DEF Plan, States, Late
<1>3. CASE Publish
  BY <1>3, DropRound, StillRound DEF Publish, stores
<1>4. CASE Activate
  BY <1>4, FoundIs, MoveWrites, DropRound, DoneRound, StillRound DEF Activate, Statuses
<1>5. CASE Verdict
  <2>1. PICK s \in {"APPROVED", "REPAIR"} : Enter(s) BY <1>5 DEF Verdict
  <2> QED BY <1>5, <2>1, VerdictRound DEF Verdict
<1>6. CASE PersonFinishes
  <2>1. change.state \in {"none", "APPROVED"}
    BY <1>6, SlipHappens DEF PersonFinishes, GuardAllows, Books, StoreBooks, SnapshotKnown
  <2> QED BY <1>6, <2>1, MoveWrites, DoneRound, StillRound DEF PersonFinishes, Statuses
<1>7. CASE PersonMoves
  BY <1>7, MoveWrites, DropRound, StillRound DEF PersonMoves, Statuses
<1>8. CASE LeaseEnds
  <2>1. /\ task'.status = task.status /\ task'.holder = task.holder
        /\ task'.result = task.result
    BY <1>8 DEF LeaseEnds, TaskOK
  <2>2. StoreRound'
    BY <1>8, <2>1 DEF LeaseEnds, Round, StoreRound, Preflighted, Shown, Owned, Finished,
       Requested, Exhausted
  <2> QED BY <1>8, <2>1, <2>2 DEF LeaseEnds, Round, FiberRound, Pending
<1>9. CASE Crash
  <2>1. ASSUME NEW g \in Fiber PROVE pc'[g] \in Plain /\ pc'[g] = "idle"
    BY <1>9 DEF Crash, Plain
  <2>2. \A g \in Fiber : FiberRound(g)' BY <2>1, PlainFiber
  <2> QED BY <1>9, <2>2, DropRound DEF Crash, stores, Round
<1>10. CASE Restart
  BY <1>10, DropRound, StillRound DEF Restart, stores
<1> QED BY <1>1, <1>2, <1>3, <1>4, <1>5, <1>6, <1>7, <1>8, <1>9, <1>10 DEF Outside

(* Every step that hits no window keeps the round.                         *)
LEMMA RoundStep ==
  ASSUME TypeOK, TypeOK', Books, Round, slips' = {}, [Next]_vars
  PROVE  Round'
<1>1. CASE Next
  BY <1>1, RunningRound, ControllingRound, RecoveringRound, BeginningRound, OutsideRound DEF Next
<1>2. CASE UNCHANGED vars
  BY <1>2, DropRound, StillRound DEF vars, stores, memory
<1> QED BY <1>1, <1>2

-----------------------------------------------------------------------------
(* While, besides, no person moved the task.                               *)

(* A task that is held is not under review, and nobody takes it there.     *)
LEMMA HeldIsUnreviewed ==
  ASSUME Round, Alone, task.status \in Held
  PROVE  /\ change.state \notin {"REVIEW", "APPROVED"}
         /\ change.state = "PREFLIGHT" => \A g \in Fiber : ~Pending(g, change.revision)
<1>1. ASSUME change.state \in Reviewed
      PROVE  change.state = "PREFLIGHT" /\ \A g \in Fiber : ~Pending(g, change.revision)
  <2>1. PICK v \in Revisions : author[v] = task.holder
    BY <1>1 DEF Alone, StoreAlone, HolderIsAuthor
  <2>2. v = change.revision /\ change.state = "PREFLIGHT"
    BY <2>1 DEF Round, StoreRound, Owned
  <2> QED BY <2>1, <2>2 DEF Round, FiberRound
<1> QED BY <1>1 DEF Reviewed

(* The run that guards or starts a launch, or works, has no proof under    *)
(* review, and the work on the Change has not begun without it.            *)
LEMMA HeldBeforeProof ==
  ASSUME Alone, NEW f \in Fiber, pc[f] \in {"guard", "begin", "launch", "work"},
         HoldsLease(job[f].run)
  PROVE  /\ change.state \notin Reviewed
         /\ pc[f] \in {"guard", "begin"} => change.state # "IMPLEMENTING"
BY DEF Alone, StoreAlone, HolderIsAuthor, FiberAlone, HoldsLease

(* A fiber that goes to a stage without a run keeps the pair.              *)
LEMMA PlainAlone ==
  ASSUME Alone, UNCHANGED <<task, change, author>>, NEW f \in Fiber, Others(f), pc'[f] \in Plain,
         pc[f] = "escalate" => escalated', escalated => escalated'
  PROVE  Alone'
BY PlainFiber, AloneFrame

(* The task leaves the run of fiber f, or is written when the Change is    *)
(* late already: no other fiber's run is concerned.                        *)
LEMMA AloneOthers ==
  ASSUME TypeOK, Books, Round, Alone, UNCHANGED <<change, author>>, NEW f \in Fiber, Others(f),
         \/ change.state \in Late
         \/ Bears(f) /\ task.holder = job[f].run,
         task'.holder = None,
         task'.status = "failed" => task.status \in Held \/ change.state # "PREFLIGHT"
  PROVE  \A g \in Fiber : g # f => FiberAlone(g)'
<1> SUFFICES ASSUME NEW g \in Fiber, g # f PROVE FiberAlone(g)'
  OBVIOUS
<1>1. pc'[g] = pc[g] /\ job'[g] = job[g] BY DEF Others
<1>2. task'.status = "failed" /\ change.state = "PREFLIGHT" => ~Pending(g, change.revision)
  BY HeldIsUnreviewed
<1>3. pc[g] \in {"guard", "begin"} => job[g].run # None BY DEF Books, FiberBooks, Bears
<1>4. change.state \notin Late => pc[g] \notin {"work", "lease", "prove"}
  BY DEF Alone, FiberAlone, Books, RunsApart, Bears
<1> QED BY <1>1, <1>2, <1>3, <1>4 DEF Alone, FiberAlone, Pending

(* The run that holds the task fails it.                                   *)
LEMMA FailAlone ==
  ASSUME TypeOK, Books, Round, Alone, UNCHANGED <<change, author>>, NEW f \in Fiber, Others(f),
         Bears(f), task.status \in Held, task.holder = job[f].run, pc'[f] \in Plain,
         task'.status = "failed", task'.holder = None
  PROVE  Alone'
<1>1. StoreAlone'
  BY HeldIsUnreviewed DEF StoreAlone, Unmoved, ReadyIsUnproved, HolderIsAuthor, FailedIsUnreviewed,
     OpenIsRepairable, Held
<1>2. FailedIsEscalated'
  BY DEF Alone, StoreAlone, OpenIsRepairable, FailedIsEscalated, Exhausted
<1>3. \A g \in Fiber : FiberAlone(g)' BY PlainFiber, AloneOthers
<1> QED BY <1>1, <1>2, <1>3 DEF Alone

(* The task is made ready: by its run, or for a repair.                    *)
LEMMA FreeAlone ==
  ASSUME TypeOK, Books, Round, Alone, UNCHANGED <<change, author>>, NEW f \in Fiber, Others(f),
         \/ Bears(f) /\ task.status \in Held /\ task.holder = job[f].run
         \/ task.status \in Held \union {"ready", "changes_requested"} /\ change.state \in Late,
         change.state \notin Reviewed \union {"IMPLEMENTING"}, pc'[f] \in Plain \union {"recheck"},
         task'.status = "ready", task'.holder = None
  PROVE  Alone'
<1>1. StoreAlone'
  BY DEF Alone, StoreAlone, Unmoved, ReadyIsUnproved, HolderIsAuthor, FailedIsUnreviewed,
     OpenIsRepairable, Held, Round, StoreRound, Requested, Exhausted
<1>2. FailedIsEscalated' BY DEF FailedIsEscalated
<1>3. FiberAlone(f)' BY DEF FiberAlone, Plain, Pending
<1>4. \A g \in Fiber : g # f => FiberAlone(g)' BY AloneOthers
<1> QED BY <1>1, <1>2, <1>3, <1>4 DEF Alone

(* The task is shown for review, done, or sent back.                       *)
LEMMA ShownAlone ==
  ASSUME TypeOK, Books, Round, Alone, UNCHANGED <<change, author>>, NEW f \in Fiber, Others(f),
         change.state \in Late, task'.status \in {"in_review", "done", "changes_requested"},
         task'.holder = None, pc'[f] \in Plain
  PROVE  Alone'
<1>1. StoreAlone'
  BY DEF StoreAlone, Unmoved, ReadyIsUnproved, HolderIsAuthor, FailedIsUnreviewed,
     OpenIsRepairable, Held
<1>2. FailedIsEscalated' BY DEF FailedIsEscalated
<1>3. \A g \in Fiber : FiberAlone(g)' BY PlainFiber, AloneOthers
<1> QED BY <1>1, <1>2, <1>3 DEF Alone

(* The run that holds the task hands in its proof.                         *)
LEMMA SubmitAlone ==
  ASSUME TypeOK, TypeOK', Books, Round, Alone, NEW f \in Fiber, Others(f), job' = job,
         NEW how \in {"submitted", "repair_submitted"}, Submit(f, how), task' = task,
         Bears(f), pc'[f] \in {"finish", "lease"}, task.status \in Held, task.holder = job[f].run
  PROVE  Alone'
<1>1. /\ change'.state = "PREFLIGHT" /\ change'.revision = change.revision + 1
      /\ author' = [author EXCEPT ![change.revision + 1] = job[f].run]
      /\ change.revision + 1 \in Revisions
  BY TypeParts, SubmitWrites
<1>2. \A v \in Revisions : author'[v] = IF v = change.revision + 1 THEN job[f].run ELSE author[v]
  BY <1>1, Numbers
<1>3. StoreAlone'
  BY <1>1, <1>2 DEF Alone, StoreAlone, Unmoved, ReadyIsUnproved, HolderIsAuthor,
     FailedIsUnreviewed, OpenIsRepairable, Held
<1>4. FailedIsEscalated' BY DEF FailedIsEscalated, Held
<1>5. FiberAlone(f)' BY <1>1 DEF FiberAlone, Late, Held
<1>6. ASSUME NEW g \in Fiber, g # f PROVE FiberAlone(g)'
  <2>1. pc'[g] = pc[g] BY <1>6 DEF Others
  <2>2. Bears(g) => job[f].run # job[g].run BY <1>6 DEF Books, RunsApart
  <2> QED BY <1>1, <1>2, <2>1, <2>2 DEF Alone, FiberAlone, Late, Held, Bears
<1> QED BY <1>3, <1>4, <1>5, <1>6 DEF Alone

(* A completion that throws keeps the pair.                                *)
LEMMA GiveUpAlone ==
  ASSUME TypeOK, Books, Round, Alone, NEW f \in Fiber, Throw(f), Bears(f),
         UNCHANGED <<change, author, escalated>>
  PROVE  Alone'
<1>1. CASE task' = task
  <2>1. FiberAlone(f)' BY <1>1, GiveUpIs DEF FiberAlone, Pending
  <2> QED BY <1>1, <2>1, GiveUpIs, AloneFrame DEF Bears
<1>2. CASE task' # task
  BY <1>2, GiveUpIs, FailAlone DEF HoldsLease, Plain
<1> QED BY <1>1, <1>2

(* The pair is kept by the steps of a dispatch, a repair and a             *)
(* completion.                                                             *)
LEMMA RunningAlone ==
  ASSUME TypeOK, TypeOK', Books, Round, Alone, slips' = {}, NEW f \in Fiber, Running(f)
  PROVE  Alone'
<1> USE TypeParts
<1>0. pc[f] \notin {"idle", "guard", "scan"} => change.state # "none" BY DEF Round, FiberRound
<1>1. CASE Guard(f)
  <2>1. CASE Return(f) /\ Move("ready") /\ HoldsLease(job[f].run)
    <3>1. change.state \notin Reviewed \union {"IMPLEMENTING"}
      BY <1>1, <2>1, HeldBeforeProof DEF Guard
    <3>2. task'.status = "ready" /\ task'.holder = None BY <2>1, MoveWrites DEF Statuses
    <3> QED BY <1>1, <2>1, <3>1, <3>2, ReturnIs, FreeAlone DEF Guard, Bears, HoldsLease
  <2>2. CASE Return(f) /\ task' = task
    BY <1>1, <2>2, ReturnIs, PlainAlone DEF Guard
  <2>3. CASE Goto(f, "begin") /\ (Unlinked \/ Found = "READY") /\ UNCHANGED <<task, job>>
    <3>1. Others(f) /\ pc'[f] = "begin" /\ job' = job BY <2>3, GotoIs DEF Others, Stages
    <3>2. change.state = "READY"
      BY <1>1, <2>3, <3>1, SlipHappens, ReturnIs, FoundIs DEF Guard
    <3>3. FiberAlone(f)' BY <1>1, <3>1, <3>2 DEF Guard, Alone, FiberAlone, Pending, Late
    <3> QED BY <1>1, <2>3, <3>1, <3>3, AloneFrame DEF Guard
  <2> QED BY <1>1, <2>1, <2>2, <2>3 DEF Guard
<1>2. CASE Begin(f)
  <2>1. CASE Return(f) /\ Move("ready") /\ HoldsLease(job[f].run)
    <3>1. change.state \notin Reviewed
          /\ (pc[f] \in {"guard", "begin"} => change.state # "IMPLEMENTING")
      BY <1>2, <2>1, HeldBeforeProof DEF Begin
    <3>2. pc[f] = "launch" => change.state # "IMPLEMENTING" BY DEF Books, FiberBooks, Late
    <3>3. task'.status = "ready" /\ task'.holder = None BY <2>1, MoveWrites DEF Statuses
    <3> QED BY <1>2, <2>1, <3>1, <3>2, <3>3, ReturnIs, FreeAlone DEF Begin, Bears, HoldsLease
  <2>2. CASE Return(f) /\ task' = task
    BY <1>2, <2>2, ReturnIs, PlainAlone DEF Begin
  <2>3. CASE HoldsLease(job[f].run) /\ task' = [task EXCEPT !.status = "running"]
             /\ Goto(f, "work") /\ job' = job
    <3>1. /\ task'.status = "running" /\ task'.holder = task.holder /\ task.status \in Held
          /\ task.holder = job[f].run
      BY <2>3 DEF TaskOK, HoldsLease
    <3>2. Others(f) /\ pc'[f] = "work" BY <2>3, GotoIs DEF Others, Stages
    <3>3. UNCHANGED <<change, author>> BY <1>2 DEF Begin
    <3>4. StoreAlone'
      BY <3>1, <3>3 DEF Alone, StoreAlone, Unmoved, ReadyIsUnproved, HolderIsAuthor,
         FailedIsUnreviewed, OpenIsRepairable, Exhausted
    <3>5. FailedIsEscalated' BY <3>1 DEF FailedIsEscalated
    <3>6. FiberAlone(f)' BY <1>2, <2>3, <3>1, <3>2, <3>3 DEF Begin, Alone, FiberAlone, Pending
    <3>7. ASSUME NEW g \in Fiber, g # f PROVE FiberAlone(g)'
      BY <3>1, <3>2, <3>3, <3>7 DEF Alone, FiberAlone, Others, Pending
    <3> QED BY <3>4, <3>5, <3>6, <3>7 DEF Alone
  <2> QED BY <1>2, <2>1, <2>2, <2>3 DEF Begin
<1>3. CASE WorkSucceeds(f)
  <2>1. Others(f) /\ pc'[f] \in {"lease", "submit"} /\ job' = job
    BY <1>3, GotoIs DEF WorkSucceeds, Others, Stages
  <2>2. FiberAlone(f)' BY <1>3, <2>1 DEF WorkSucceeds, stores, Alone, FiberAlone, Pending
  <2> QED BY <1>3, <2>1, <2>2, AloneFrame DEF WorkSucceeds, stores
<1>4. CASE WorkFails(f)
  <2>1. Others(f) /\ pc'[f] \in Plain /\ Bears(f)
    BY <1>4, GotoIs DEF WorkFails, Others, Stages, Plain, Bears
  <2>2. CASE ~HoldsLease(job[f].run)
    BY <1>4, <2>1, <2>2, PlainAlone DEF WorkFails
  <2>3. CASE HoldsLease(job[f].run)
    <3>1. /\ task'.status = IF job[f].kind = "initial" THEN "failed" ELSE "ready"
          /\ task'.holder = None
      BY <1>4, <2>3 DEF WorkFails, TaskOK
    <3>2. CASE job[f].kind = "initial"
      BY <1>4, <2>1, <2>3, <3>1, <3>2, FailAlone DEF WorkFails, HoldsLease
    <3>3. CASE job[f].kind # "initial"
      <4>1. change.state \in Late BY <2>1, <3>3 DEF Books, FiberBooks
      <4>2. change.state \notin Reviewed \union {"IMPLEMENTING"}
        BY <1>4, <2>3, <4>1, HeldBeforeProof DEF WorkFails, Late
      <4> QED BY <1>4, <2>1, <2>3, <3>1, <3>3, <4>2, FreeAlone DEF WorkFails, HoldsLease
    <3> QED BY <3>2, <3>3
  <2> QED BY <2>2, <2>3
<1>5. CASE CompleteUngoverned(f)
  <2>1. change.state # "none" BY <1>0, <1>5 DEF CompleteUngoverned
  <2>2. task' = task BY <1>5, <2>1, SlipHappens DEF CompleteUngoverned
  <2>3. Others(f) /\ pc'[f] \in Plain BY <1>5, ReturnIs DEF CompleteUngoverned
  <2> QED BY <1>5, <2>2, <2>3, PlainAlone DEF CompleteUngoverned
<1>6. CASE CheckLease(f)
  <2>1. CASE Throw(f)
    BY <1>6, <2>1, GiveUpAlone DEF CheckLease, Bears
  <2>2. CASE ~Throw(f)
    <3>1. Others(f) /\ pc'[f] \in {"read", "prove"} /\ job' = job
      BY <1>6, <2>2, GotoIs DEF CheckLease, Others, Stages
    <3>2. FiberAlone(f)' BY <1>6, <2>2, <3>1 DEF CheckLease, Alone, FiberAlone, Pending
    <3> QED BY <1>6, <2>2, <3>1, <3>2, AloneFrame DEF CheckLease
  <2> QED BY <2>1, <2>2
<1>7. CASE Prove(f)
  <2>0. Bears(f) /\ pc[f] = "prove" BY <1>7 DEF Prove, Bears
  <2>1. ASSUME change.state \notin Late PROVE task.status \in Held /\ task.holder = job[f].run
    BY <2>0, <2>1 DEF Alone, FiberAlone, Books, FiberBooks, StoreBooks, HolderIsHeld
  <2>2. CASE change.state = "READY" /\ Enter("IMPLEMENTING") /\ UNCHANGED <<task, author, pc, job>>
    <3>1. change'.state = "IMPLEMENTING" BY <2>2, EnterWrites DEF States
    <3>2. task.status \in Held /\ task.holder = job[f].run BY <2>1, <2>2 DEF Late
    <3>3. StoreAlone'
      BY <2>2, <3>1, <3>2 DEF Alone, StoreAlone, Unmoved, ReadyIsUnproved, HolderIsAuthor,
         FailedIsUnreviewed, OpenIsRepairable, Held, Reviewed
    <3>4. FailedIsEscalated' BY <3>1 DEF FailedIsEscalated
    <3>5. ASSUME NEW g \in Fiber PROVE FiberAlone(g)'
      <4>1. pc[g] \in {"guard", "begin"} => job[f].run # job[g].run
        BY <2>0 DEF Books, RunsApart, Bears
      <4> QED BY <2>2, <3>1, <3>2, <4>1 DEF Alone, FiberAlone, Late
    <3> QED BY <3>3, <3>4, <3>5 DEF Alone
  <2>3. CASE Submit(f, "submitted") /\ Goto(f, "finish") /\ change.state = "IMPLEMENTING"
             /\ UNCHANGED <<task, job>>
    <3>1. Others(f) /\ pc'[f] = "finish" BY <2>3, GotoIs DEF Others, Stages
    <3>2. task.status \in Held /\ task.holder = job[f].run BY <2>1, <2>3 DEF Late
    <3> QED BY <2>0, <2>3, <3>1, <3>2, SubmitAlone
  <2>4. CASE OwnProof(f) /\ Goto(f, "finish") /\ UNCHANGED <<task, change, author, job>>
    <3>1. Others(f) /\ pc'[f] = "finish" BY <2>4, GotoIs DEF Others, Stages
    <3>2. FiberAlone(f)' BY <3>1 DEF FiberAlone, Pending
    <3> QED BY <1>7, <2>0, <2>4, <3>1, <3>2, AloneFrame DEF Prove
  <2>5. CASE Throw(f) /\ UNCHANGED <<change, author>>
    BY <1>7, <2>0, <2>5, GiveUpAlone DEF Prove
  <2> QED BY <1>7, <2>2, <2>3, <2>4, <2>5 DEF Prove
<1>8. CASE Finish(f)
  <2>1. CASE Throw(f)
    BY <1>8, <2>1, GiveUpAlone DEF Finish, Bears
  <2>2. CASE ~Throw(f)
    <3>1. task.status \in Held /\ task.holder = job[f].run
      BY <1>8, <2>2 DEF Finish, HoldsLease
    <3>2. ProofOf(job[f].run) = change.revision /\ change.state = "PREFLIGHT"
      <4>1. \E v \in Revisions : author[v] = job[f].run
        BY <1>8 DEF Finish, Round, FiberRound
      <4> QED BY <3>1, <4>1, ProofIsCurrent
    <3>3. task'.status = "in_review" /\ task'.holder = None
      BY <1>8, <2>2, <3>2, ShowWrites DEF Finish, Statuses, ChangeOK
    <3>4. Others(f) /\ pc'[f] \in Plain
      BY <1>8, <2>2, GotoIs DEF Finish, Others, Stages, FibersOK, Plain
    <3> QED BY <1>8, <3>2, <3>3, <3>4, ShownAlone DEF Finish, Late
  <2> QED BY <2>1, <2>2
<1> QED BY <1>1, <1>2, <1>3, <1>4, <1>5, <1>6, <1>7, <1>8 DEF Running

(* A run is taken of a task that no proof is under review for.             *)
LEMMA TakenAlone ==
  ASSUME TypeOK, TypeOK', Books, Alone, UNCHANGED <<change, author>>, NEW f \in Fiber, Others(f),
         \/ task.status = "ready"
         \/ task.status \in Held /\ change.state \in Late,
         change.state \notin Reviewed \union {"IMPLEMENTING"},
         task'.status \in Held, task'.holder = used.runs + 1,
         job'[f].run = used.runs + 1, pc'[f] \in {"guard", "launch"}
  PROVE  Alone'
<1>1. StoreAlone'
  BY DEF Alone, StoreAlone, Unmoved, ReadyIsUnproved, HolderIsAuthor, FailedIsUnreviewed,
     OpenIsRepairable, Held, Exhausted
<1>2. FailedIsEscalated' BY DEF FailedIsEscalated, Held
<1>3. \A v \in Revisions : author[v] # used.runs + 1
  BY Numbers, GovernedAssumption DEF Books, StoreBooks, RunsCounted
<1>4. FiberAlone(f)' BY <1>3 DEF FiberAlone, Held
<1>5. ASSUME NEW g \in Fiber, g # f PROVE FiberAlone(g)'
  <2>1. pc'[g] = pc[g] /\ job'[g] = job[g] BY <1>5 DEF Others
  <2>2. change.state \notin Late => pc[g] \notin {"work", "lease", "prove"}
    BY DEF Alone, FiberAlone, Books, StoreBooks, HolderIsHeld, FiberBooks, Bears, Held
  <2> QED BY <2>1, <2>2 DEF Alone, FiberAlone, Held
<1> QED BY <1>1, <1>2, <1>4, <1>5 DEF Alone

(* The pair is kept by the steps of the controller.                        *)
LEMMA ControllingAlone ==
  ASSUME TypeOK, TypeOK', Books, Round, Alone, slips' = {}, NEW f \in Fiber, Controlling(f)
  PROVE  Alone'
<1> USE TypeParts
<1>1. CASE ReadTask(f)
  <2>1. Others(f) /\ pc'[f] \in Plain
    BY <1>1, GotoIs DEF ReadTask, Others, Stages, FibersOK, Plain
  <2> QED BY <1>1, <2>1, PlainAlone DEF ReadTask, stores
<1>2. CASE Converge(f)
  <2>1. Others(f) /\ pc'[f] \in Plain
    BY <1>2, ReturnIs, GotoIs DEF Converge, Others, Stages, Plain
  <2>2. CASE task' = task BY <1>2, <2>1, <2>2, PlainAlone DEF Converge
  <2>3. CASE task' # task
    <3>1. task'.status = "done" /\ task'.holder = None
      BY <1>2, <2>3, MoveWrites DEF Converge, Statuses
    <3>2. change.state \in Late BY <1>2, FoundIs DEF Converge, Late
    <3> QED BY <1>2, <2>1, <3>1, <3>2, ShownAlone DEF Converge
  <2> QED BY <2>2, <2>3
<1>3. CASE Decide(f)
  <2>1. Others(f) /\ pc'[f] \in Plain
    BY <1>3, ReturnIs, GotoIs DEF Decide, Others, Stages, Plain
  <2> QED BY <1>3, <2>1, PlainAlone DEF Decide
<1>4. CASE SettleFailure(f)
  <2>1. Others(f) /\ pc'[f] \in Plain /\ UNCHANGED <<change, author, escalated>>
    BY <1>4, GotoIs DEF SettleFailure, Others, Stages, Plain
  <2>2. CASE task' = task BY <1>4, <2>1, <2>2, PlainAlone DEF SettleFailure
  <2>3. CASE task' # task
    <3>1. change.state = "REPAIR" BY <1>4, <2>3, SlipHappens DEF SettleFailure
    <3>2. CASE Exhausted
      <4>1. pc'[f] = "escalate" /\ task'.status = "failed" /\ task'.holder = None
        BY <1>4, <2>3, <3>2, MoveWrites, GotoIs DEF SettleFailure, Stages, Statuses
      <4>2. StoreAlone'
        BY <2>1, <3>1, <4>1 DEF StoreAlone, Unmoved, ReadyIsUnproved, HolderIsAuthor,
           FailedIsUnreviewed, OpenIsRepairable, Held
      <4>3. FailedIsEscalated' BY <4>1 DEF FailedIsEscalated
      <4>4. FiberAlone(f)' BY <2>1, PlainFiber
      <4>5. \A g \in Fiber : g # f => FiberAlone(g)'
        BY <2>1, <3>1, <4>1, AloneOthers DEF Late
      <4> QED BY <4>2, <4>3, <4>4, <4>5 DEF Alone
    <3>3. CASE ~Exhausted
      <4>1. task'.status = "changes_requested" /\ task'.holder = None
        BY <1>4, <2>3, <3>3, MoveWrites DEF SettleFailure, Statuses
      <4> QED BY <2>1, <3>1, <4>1, ShownAlone DEF Late
    <3> QED BY <3>2, <3>3
  <2> QED BY <2>2, <2>3
<1>5. CASE Escalate(f)
  BY <1>5, ReturnIs, PlainAlone DEF Escalate
<1>6. CASE Preflight(f)
  <2>1. CASE Return(f) /\ UNCHANGED change
    BY <1>6, <2>1, ReturnIs, PlainAlone DEF Preflight
  <2>2. CASE ~(Return(f) /\ UNCHANGED change)
    <3>1. /\ task.status = "in_review" /\ change.state \in {"PREFLIGHT", "REVIEW"}
          /\ Others(f) /\ pc'[f] = "reserve" /\ UNCHANGED <<task, author>>
      BY <1>6, <2>2, GotoIs DEF Preflight, Others, Stages, FibersOK
    <3>2. change'.state \in {"PREFLIGHT", "REVIEW"}
      BY <1>6, <2>2, <3>1 DEF Preflight, ChangeOK
    <3>3. StoreAlone'
      BY <3>1, <3>2 DEF StoreAlone, Unmoved, ReadyIsUnproved, HolderIsAuthor,
         FailedIsUnreviewed, OpenIsRepairable, Held
    <3>4. FailedIsEscalated' BY <3>1 DEF FailedIsEscalated
    <3>5. FiberAlone(f)' BY <3>1 DEF FiberAlone
    <3>6. ASSUME NEW g \in Fiber, g # f PROVE FiberAlone(g)'
      BY <3>1, <3>2, <3>6 DEF Alone, FiberAlone, Others, Late
    <3> QED BY <3>3, <3>4, <3>5, <3>6 DEF Alone
  <2> QED BY <2>1, <2>2
<1>7. CASE Reserve(f)
  <2>1. Others(f) /\ pc'[f] = "advance" /\ job' = job
    BY <1>7, GotoIs DEF Reserve, Others, Stages
  <2>2. FiberAlone(f)' BY <1>7, <2>1 DEF Reserve, Alone, FiberAlone, Pending
  <2> QED BY <1>7, <2>1, <2>2, AloneFrame DEF Reserve
<1>8. CASE Advance(f)
  <2>1. Others(f) /\ pc'[f] = "read" /\ UNCHANGED <<task, author, escalated>>
    BY <1>8, GotoIs DEF Advance, Others, Stages
  <2>2. CASE change.state # "PREFLIGHT"
    BY <1>8, <2>1, <2>2, PlainAlone DEF Advance, Plain
  <2>3. CASE change.state = "PREFLIGHT"
    <3>1. change'.state = "REVIEW" BY <1>8, <2>3, EnterWrites DEF Advance, States
    <3>2. Pending(f, change.revision) BY <1>8, <2>3, SlipHappens DEF Advance, Pending
    <3>3. task.status \notin Held BY <2>3, <3>2, HeldIsUnreviewed
    <3>4. task.status # "ready" BY <2>3 DEF Alone, StoreAlone, ReadyIsUnproved, Reviewed
    <3>5. task.status # "failed" BY <2>3, <3>2 DEF Alone, FiberAlone
    <3>6. StoreAlone'
      BY <2>1, <3>1, <3>3, <3>4, <3>5 DEF Alone, StoreAlone, Unmoved, ReadyIsUnproved,
         HolderIsAuthor, FailedIsUnreviewed, OpenIsRepairable
    <3>7. FailedIsEscalated' BY <3>1 DEF FailedIsEscalated
    <3>8. FiberAlone(f)' BY <2>1, PlainFiber DEF Plain
    <3>9. ASSUME NEW g \in Fiber, g # f PROVE FiberAlone(g)'
      BY <2>1, <3>1, <3>9 DEF Alone, FiberAlone, Others, Late
    <3> QED BY <3>6, <3>7, <3>8, <3>9 DEF Alone
  <2> QED BY <2>2, <2>3
<1>9. CASE Route(f)
  <2>1. Others(f) /\ pc'[f] \in {"idle", "recheck"}
    BY <1>9, ReturnIs, GotoIs DEF Route, Others, Stages
  <2>2. CASE task' = task
    <3>1. FiberAlone(f)' BY <2>1 DEF FiberAlone, Pending
    <3> QED BY <1>9, <2>1, <2>2, <3>1, AloneFrame DEF Route
  <2>3. CASE task' # task
    <3>1. task'.status = "ready" /\ task'.holder = None
      BY <1>9, <2>3, MoveWrites DEF Route, Statuses
    <3> QED BY <1>9, <2>1, <2>3, <3>1, FreeAlone DEF Route, Late, Reviewed, Plain
  <2> QED BY <2>2, <2>3
<1>10. CASE Recheck(f)
  <2>1. Others(f) /\ pc'[f] \in {"idle", "claim"}
    BY <1>10, ReturnIs, GotoIs DEF Recheck, Others, Stages
  <2>2. FiberAlone(f)' BY <2>1 DEF FiberAlone, Pending
  <2> QED BY <1>10, <2>1, <2>2, AloneFrame DEF Recheck
<1>11. CASE ClaimRepair(f)
  <2>1. CASE TakeRun(f, "repair", FALSE)
    <3>1. /\ used'.runs = used.runs + 1 /\ job'[f].run = used.runs + 1
          /\ \A g \in Fiber : g # f => job'[g] = job[g]
      BY <2>1, TakeRunWrites
    <3>2. /\ task' = [task EXCEPT !.status = "running", !.holder = used.runs + 1, !.live = TRUE]
          /\ Goto(f, "launch") /\ task.status \in Held \union {"ready"}
          /\ change.state = "REPAIR"
      <4>1. used' # used BY <3>1, Numbers
      <4> QED BY <1>11, <4>1, SlipHappens DEF ClaimRepair
    <3>3. task'.status = "running" /\ task'.holder = used.runs + 1 BY <3>2 DEF TaskOK
    <3>4. Others(f) /\ pc'[f] = "launch" BY <3>1, <3>2, GotoIs DEF Others, Stages
    <3>5. UNCHANGED <<change, author>> BY <1>11 DEF ClaimRepair
    <3> QED BY <3>1, <3>2, <3>3, <3>4, <3>5, TakenAlone DEF Held, Late, Reviewed
  <2>2. CASE ~TakeRun(f, "repair", FALSE)
    BY <1>11, <2>2, ReturnIs, PlainAlone DEF ClaimRepair
  <2> QED BY <2>1, <2>2
<1>12. CASE SubmitRepair(f)
  <2>1. CASE Submit(f, "repair_submitted") /\ Goto(f, "lease")
             /\ task.status \in Held /\ task.holder = job[f].run
    <3>1. Others(f) /\ pc'[f] = "lease" /\ Bears(f) /\ UNCHANGED <<task, job>>
      BY <1>12, <2>1, GotoIs DEF SubmitRepair, Others, Stages, Bears
    <3> QED BY <2>1, <3>1, SubmitAlone
  <2>2. CASE Goto(f, "trouble") /\ UNCHANGED <<change, author>>
    <3>1. Others(f) /\ pc'[f] = "trouble"
      BY <1>12, <2>2, GotoIs DEF SubmitRepair, Others, Stages
    <3>2. FiberAlone(f)' BY <3>1 DEF FiberAlone, Pending
    <3> QED BY <1>12, <2>2, <3>1, <3>2, AloneFrame DEF SubmitRepair
  <2> QED BY <1>12, <2>1, <2>2, SlipHappens DEF SubmitRepair
<1>13. CASE Trouble(f)
  <2>0. /\ Bears(f) /\ pc[f] = "trouble" /\ change.state \in Late
        /\ UNCHANGED <<change, author, escalated>>
    BY <1>13 DEF Trouble, Bears, Books, FiberBooks
  <2>1. Others(f) /\ pc'[f] \in Plain
    BY <1>13, ReturnIs, GotoIs DEF Trouble, Others, Stages, Plain
  <2>2. CASE task' = task BY <2>0, <2>1, <2>2, PlainAlone
  <2>3. CASE Show("in_review", ProofOf(job[f].run))
    <3>1. ProofOf(job[f].run) \in 0 .. MaxRepairRounds + 1
      BY GovernedAssumption DEF ProofOf, Revisions
    <3>2. task'.status = "in_review" /\ task'.holder = None BY <2>3, <3>1, ShowWrites DEF Statuses
    <3> QED BY <2>0, <2>1, <3>2, ShownAlone
  <2>4. CASE Move("failed") /\ task.status \in Held /\ task.holder = job[f].run
    <3>1. task'.status = "failed" /\ task'.holder = None BY <2>4, MoveWrites DEF Statuses
    <3> QED BY <2>0, <2>1, <2>4, <3>1, FailAlone
  <2>5. CASE Move("ready") /\ HoldsLease(job[f].run) /\ change.state # "PREFLIGHT"
    <3>1. task'.status = "ready" /\ task'.holder = None BY <2>5, MoveWrites DEF Statuses
    <3>2. task.status \in Held BY <2>5 DEF HoldsLease
    <3>3. change.state \notin Reviewed \union {"IMPLEMENTING"}
      BY <2>0, <2>5, <3>2, HeldIsUnreviewed DEF Late, Reviewed
    <3> QED BY <2>0, <2>1, <3>1, <3>2, <3>3, FreeAlone
  <2> QED BY <1>13, <2>2, <2>3, <2>4, <2>5 DEF Trouble, HoldsLease
<1> QED BY <1>1, <1>2, <1>3, <1>4, <1>5, <1>6, <1>7, <1>8, <1>9, <1>10, <1>11, <1>12, <1>13
        DEF Controlling

(* The pair is kept by the steps of recovery.                              *)
LEMMA RecoveringAlone ==
  ASSUME TypeOK, TypeOK', Books, Round, Alone, slips' = {}, NEW f \in Fiber, Recovering(f)
  PROVE  Alone'
<1> USE TypeParts
<1>1. CASE ScanLive(f)
  BY <1>1, ReturnIs, PlainAlone DEF ScanLive
<1>2. CASE ScanSettled(f)
  <2>1. Others(f) /\ pc'[f] \in Plain
    BY <1>2, ReturnIs, GotoIs DEF ScanSettled, Others, Stages, Plain
  <2>2. CASE task' = task BY <1>2, <2>1, <2>2, PlainAlone DEF ScanSettled
  <2>3. CASE task' # task /\ change.state = "REPAIR"
    <3>1. ReleaseExpired BY <1>2, <2>3 DEF ScanSettled
    <3>2. task'.status = "ready" /\ task'.holder = None /\ task.status \in Held
      BY <2>3, <3>1, ReleaseWrites
    <3> QED BY <1>2, <2>1, <2>3, <3>2, FreeAlone DEF ScanSettled, Late, Reviewed
  <2>4. CASE task' # task /\ change.state # "REPAIR"
    <3>1. task'.status = "done" /\ task'.holder = None /\ change.state = "APPROVED"
      BY <1>2, <2>4, MoveWrites DEF ScanSettled, Statuses
    <3> QED BY <1>2, <2>1, <3>1, ShownAlone DEF ScanSettled, Late
  <2> QED BY <2>2, <2>3, <2>4
<1>3. CASE ScanPartial(f)
  <2>1. Others(f) /\ pc'[f] \in Plain
    BY <1>3, ReturnIs, GotoIs DEF ScanPartial, Others, Stages, Plain
  <2>2. CASE task' = task BY <1>3, <2>1, <2>2, PlainAlone DEF ScanPartial
  <2>3. CASE task' # task
    <3>1. task'.status = "in_review" /\ task'.holder = None
      BY <1>3, <2>3, ShowWrites, SlipHappens DEF ScanPartial, Statuses, ChangeOK
    <3> QED BY <1>3, <2>1, <3>1, ShownAlone DEF ScanPartial, Late
  <2> QED BY <2>2, <2>3
<1>4. CASE ScanNothing(f)
  BY <1>4, ReturnIs, PlainAlone DEF ScanNothing
<1>5. CASE Compare(f)
  <2>1. Others(f) /\ pc'[f] = "reconcile"
    BY <1>5, GotoIs DEF Compare, Others, Stages, FibersOK
  <2>2. FiberAlone(f)' BY <2>1 DEF FiberAlone, Pending
  <2> QED BY <1>5, <2>1, <2>2, AloneFrame DEF Compare
<1>6. CASE Reconcile(f)
  <2>1. /\ Others(f) /\ pc'[f] \in Plain /\ pc[f] = "reconcile"
        /\ UNCHANGED <<change, author, escalated>>
    BY <1>6, ReturnIs DEF Reconcile
  <2>2. CASE task' = task BY <2>1, <2>2, PlainAlone
  <2>3. CASE Show("in_review", job[f].rev) /\ job[f].kind = "half"
    <3>1. task'.status = "in_review" /\ task'.holder = None
      BY <2>3, ShowWrites DEF Statuses, FibersOK, JobRow
    <3>2. change.state \in Late BY <2>1, <2>3 DEF Books, FiberBooks
    <3> QED BY <2>1, <3>1, <3>2, ShownAlone
  <2>4. CASE Move("done") /\ job[f].kind = "approved"
    <3>1. task'.status = "done" /\ task'.holder = None BY <2>4, MoveWrites DEF Statuses
    <3>2. change.state \in Late BY <2>1, <2>4 DEF Books, FiberBooks, Late
    <3> QED BY <2>1, <3>1, <3>2, ShownAlone
  <2>5. CASE task' = [task EXCEPT !.result = job[f].rev] /\ task.status = "in_review"
    <3>1. task'.status = "in_review" /\ task'.holder = task.holder BY <2>5 DEF TaskOK
    <3>2. task.holder = None BY <2>5 DEF Books, StoreBooks, HolderIsHeld, Held
    <3>3. change.state \in Late BY <2>5 DEF Round, StoreRound, Shown
    <3> QED BY <2>1, <3>1, <3>2, <3>3, ShownAlone
  <2> QED BY <1>6, <2>2, <2>3, <2>4, <2>5 DEF Reconcile
<1> QED BY <1>1, <1>2, <1>3, <1>4, <1>5, <1>6 DEF Recovering

(* A task under a verdict is neither held, nor ready, nor failed.          *)
LEMMA VerdictAlone ==
  ASSUME TypeOK, Round, Alone, change.state = "REVIEW", NEW s \in {"APPROVED", "REPAIR"},
         Enter(s), UNCHANGED <<task, author, job>>,
         \A f \in Fiber : pc'[f] = pc[f] \/ pc'[f] \in Plain
  PROVE  Alone'
<1>1. change'.state = s BY TypeParts, EnterWrites DEF States
<1>2. task.status \notin Held \union {"ready", "failed"}
  BY HeldIsUnreviewed DEF Alone, StoreAlone, ReadyIsUnproved, FailedIsUnreviewed, Reviewed
<1>3. StoreAlone'
  BY <1>2 DEF Alone, StoreAlone, Unmoved, ReadyIsUnproved, HolderIsAuthor,
     FailedIsUnreviewed, OpenIsRepairable
<1>4. FailedIsEscalated' BY <1>2 DEF FailedIsEscalated
<1>5. ASSUME NEW f \in Fiber PROVE FiberAlone(f)'
  <2>1. CASE pc'[f] \in Plain BY <2>1, PlainFiber
  <2>2. CASE pc'[f] = pc[f] BY <1>1, <2>2 DEF Alone, FiberAlone, Late
  <2> QED BY <2>1, <2>2
<1> QED BY <1>3, <1>4, <1>5 DEF Alone

(* The pair is kept when a call begins.                                    *)
LEMMA BeginningAlone ==
  ASSUME TypeOK, TypeOK', Books, Round, Alone, slips' = {}, NEW f \in Fiber,
         \/ Dispatch(f) \/ Wake(f) \/ ApplyVerdict(f)
         \/ StartScan(f) \/ TimerFires(f) \/ StartReconcile(f)
  PROVE  Alone'
<1> USE TypeParts
<1>1. CASE Dispatch(f)
  <2>1. job'[f].run = used.runs + 1 /\ \A g \in Fiber : g # f => job'[g] = job[g]
    BY <1>1, TakeRunWrites DEF Dispatch
  <2>2. task'.status = "claimed" /\ task'.holder = used.runs + 1 BY <1>1 DEF Dispatch, TaskOK
  <2>3. Others(f) /\ pc'[f] = "guard" BY <1>1, <2>1, GotoIs DEF Dispatch, Others, Stages
  <2>4. task.status = "ready" /\ change.state \notin Reviewed \union {"IMPLEMENTING"}
    BY <1>1 DEF Dispatch, Alone, StoreAlone, ReadyIsUnproved
  <2> QED BY <1>1, <2>1, <2>2, <2>3, <2>4, TakenAlone DEF Dispatch, Held
<1>2. CASE Wake(f)
  <2>1. Others(f) /\ pc'[f] \in Plain BY <1>2, GotoIs DEF Wake, Others, Stages, Plain
  <2> QED BY <1>2, <2>1, PlainAlone DEF Wake, stores
<1>3. CASE ApplyVerdict(f)
  <2>1. PICK s \in {"APPROVED", "REPAIR"} : Enter(s) BY <1>3 DEF ApplyVerdict
  <2>2. \A g \in Fiber : pc'[g] = pc[g] \/ pc'[g] \in Plain
    BY <1>3, GotoIs DEF ApplyVerdict, Stages, Plain
  <2> QED BY <1>3, <2>1, <2>2, VerdictAlone DEF ApplyVerdict
<1>4. CASE StartScan(f)
  <2>1. Others(f) /\ pc'[f] \in Plain BY <1>4, GotoIs DEF StartScan, Others, Stages, Plain
  <2> QED BY <1>4, <2>1, PlainAlone DEF StartScan, stores
<1>5. CASE TimerFires(f)
  <2>1. Others(f) /\ pc'[f] \in Plain /\ pc[f] = "idle"
    BY <1>5, GotoIs DEF TimerFires, Others, Stages, Plain
  <2>2. CASE task' = task BY <1>5, <2>1, <2>2, PlainAlone DEF TimerFires
  <2>3. CASE task' # task
    <3>1. task'.status = "ready" /\ task'.holder = None /\ task.status \in Held
      BY <1>5, <2>3, ReleaseWrites DEF TimerFires
    <3>2. change.state # "PREFLIGHT" BY <1>5, <3>1, SlipHappens DEF TimerFires
    <3>3. change.state \in Late BY <1>5 DEF TimerFires, Books, StoreBooks, TimerIsLate
    <3>4. change.state \notin Reviewed \union {"IMPLEMENTING"}
      BY <3>1, <3>2, <3>3, HeldIsUnreviewed DEF Late, Reviewed
    <3> QED BY <1>5, <2>1, <3>1, <3>3, <3>4, FreeAlone DEF TimerFires
  <2> QED BY <2>2, <2>3
<1>6. CASE StartReconcile(f)
  <2>1. Others(f) /\ pc'[f] \in Plain
    BY <1>6, GotoIs DEF StartReconcile, Others, Stages, FibersOK, Plain
  <2> QED BY <1>6, <2>1, PlainAlone DEF StartReconcile, stores
<1> QED BY <1>1, <1>2, <1>3, <1>4, <1>5, <1>6

(* Before the first proof every status goes with the Change.               *)
LEMMA EarlyAlone ==
  ASSUME TypeOK, Alone, change.state \notin Late, NEW s \in {"DRAFT", "PLANNED", "READY"}, Enter(s),
         UNCHANGED <<task, author, pc, job>>
  PROVE  Alone'
<1>1. change'.state = s BY TypeParts, EnterWrites DEF States
<1> QED BY <1>1 DEF Alone, StoreAlone, Unmoved, ReadyIsUnproved, HolderIsAuthor,
        FailedIsUnreviewed, OpenIsRepairable, Reviewed, FailedIsEscalated, FiberAlone, Late

(* Nobody outside moves a fiber, and the task keeps its status and holder. *)
LEMMA StillAlone ==
  ASSUME Alone, UNCHANGED <<change, author, escalated, pc, job>>,
         task'.status = task.status, task'.holder = task.holder
  PROVE  Alone'
BY DEF Alone, StoreAlone, Unmoved, ReadyIsUnproved, HolderIsAuthor, FailedIsUnreviewed,
   OpenIsRepairable, Exhausted, FailedIsEscalated, FiberAlone, Pending

(* The pair is kept by reviewers, the clock and crashes.                   *)
LEMMA OutsideAlone ==
  ASSUME TypeOK, TypeOK', Books, Round, Alone, slips' = {}, used'.moves = 0, Outside
  PROVE  Alone'
<1> USE TypeParts
<1>1. CASE Bootstrap
  <2>1. change.state = "none" /\ Enter("DRAFT")
    BY <1>1, BootstrapWrites
  <2> QED BY <1>1, <2>1, EarlyAlone DEF Bootstrap, Late
<1>2. CASE Plan
  BY <1>2, EarlyAlone DEF Plan, Late
<1>3. CASE Publish
  BY <1>3, StillAlone DEF Publish, stores
<1>4. CASE Activate
  <2>1. CASE task' = task BY <1>4, <2>1, StillAlone DEF Activate
  <2>2. CASE task' # task
    <3>1. task'.status = "done" /\ task'.holder = None /\ change.state = "APPROVED"
          /\ UNCHANGED <<change, author, pc, job>>
      BY <1>4, <2>2, FoundIs, MoveWrites DEF Activate, Statuses
    <3>2. StoreAlone' /\ FailedIsEscalated'
      BY <3>1 DEF StoreAlone, Unmoved, ReadyIsUnproved, HolderIsAuthor, FailedIsUnreviewed,
         OpenIsRepairable, FailedIsEscalated, Held
    <3>3. \A f \in Fiber : FiberAlone(f)' BY <3>1 DEF Alone, FiberAlone, Late
    <3> QED BY <3>2, <3>3 DEF Alone
  <2> QED BY <2>1, <2>2
<1>5. CASE Verdict
  <2>1. PICK s \in {"APPROVED", "REPAIR"} : Enter(s) BY <1>5 DEF Verdict
  <2> QED BY <1>5, <2>1, VerdictAlone DEF Verdict
<1>6. CASE PersonFinishes
  BY <1>6, Numbers DEF PersonFinishes, UsedOK
<1>7. CASE PersonMoves
  BY <1>7, Numbers DEF PersonMoves, UsedOK
<1>8. CASE LeaseEnds
  BY <1>8, StillAlone DEF LeaseEnds, TaskOK
<1>9. CASE Crash
  <2>1. \A g \in Fiber : pc'[g] \in Plain BY <1>9 DEF Crash, Plain
  <2>2. \A g \in Fiber : FiberAlone(g)' BY <2>1, PlainFiber
  <2>3. \A g \in Fiber : pc[g] # "escalate" BY <1>9, SlipHappens DEF Crash
  <2>4. UNCHANGED <<task, change, author, escalated>> BY <1>9 DEF Crash, stores
  <2>5. StoreAlone'
    BY <2>4 DEF Alone, StoreAlone, Unmoved, ReadyIsUnproved, HolderIsAuthor,
       FailedIsUnreviewed, OpenIsRepairable, Exhausted
  <2>6. FailedIsEscalated' BY <2>3, <2>4 DEF Alone, FailedIsEscalated, Exhausted
  <2> QED BY <2>2, <2>5, <2>6 DEF Alone
<1>10. CASE Restart
  BY <1>10, StillAlone DEF Restart, stores
<1> QED BY <1>1, <1>2, <1>3, <1>4, <1>5, <1>6, <1>7, <1>8, <1>9, <1>10 DEF Outside

(* Every step that hits no window, and is no person's, keeps the pair.     *)
LEMMA AloneStep ==
  ASSUME TypeOK, TypeOK', Books, Round, Alone, slips' = {}, used'.moves = 0, [Next]_vars
  PROVE  Alone'
<1>1. CASE Next
  BY <1>1, RunningAlone, ControllingAlone, RecoveringAlone, BeginningAlone, OutsideAlone DEF Next
<1>2. CASE UNCHANGED vars
  BY <1>2, StillAlone DEF vars, stores
<1> QED BY <1>1, <1>2

-----------------------------------------------------------------------------
(* What slipped stays slipped, and what a person moved is not taken back.  *)
LEMMA SlipsStay ==
  ASSUME TypeOK, [Next]_vars
  PROVE  slips \subseteq slips' /\ (used'.moves = 0 => used.moves = 0)
<1> USE TypeParts
<1>1. CASE UNCHANGED vars BY <1>1 DEF vars
<1>2. ASSUME NEW f \in Fiber, Running(f) PROVE slips \subseteq slips' /\ used' = used
  BY <1>2 DEF Running, Guard, Begin, WorkSucceeds, WorkFails, CompleteUngoverned, CheckLease,
     Prove, Finish, Slip
<1>3. ASSUME NEW f \in Fiber, Controlling(f)
      PROVE  slips \subseteq slips' /\ used'.moves = used.moves
  <2>1. CASE ClaimRepair(f)
    <3>1. slips \subseteq slips' BY <2>1 DEF ClaimRepair, Slip
    <3>2. TakeRun(f, "repair", FALSE) \/ used' = used BY <2>1 DEF ClaimRepair
    <3> QED BY <3>1, <3>2, TakeRunWrites
  <2>2. CASE ~ClaimRepair(f)
    BY <1>3, <2>2 DEF Controlling, ReadTask, Converge, Decide, SettleFailure, Escalate, Preflight,
       Reserve, Advance, Route, Recheck, SubmitRepair, Trouble, Slip
  <2> QED BY <2>1, <2>2
<1>4. ASSUME NEW f \in Fiber, Recovering(f) PROVE slips \subseteq slips' /\ used' = used
  BY <1>4 DEF Recovering, ScanLive, ScanSettled, ScanPartial, ScanNothing, Compare, Reconcile, Slip
<1>5. ASSUME NEW f \in Fiber,
             Wake(f) \/ ApplyVerdict(f) \/ StartScan(f) \/ TimerFires(f) \/ StartReconcile(f)
      PROVE  slips \subseteq slips' /\ used' = used
  BY <1>5 DEF Wake, ApplyVerdict, StartScan, TimerFires, StartReconcile, Slip
<1>6. ASSUME NEW f \in Fiber, Dispatch(f) PROVE slips' = slips /\ used'.moves = used.moves
  BY <1>6, TakeRunWrites DEF Dispatch
<1>7. CASE Outside
  <2>1. slips \subseteq slips'
    BY <1>7 DEF Outside, Bootstrap, Plan, Publish, Activate, Verdict, PersonFinishes, PersonMoves,
       LeaseEnds, Crash, Restart, Slip
  <2>2. \/ used' = used
        \/ used' = [used EXCEPT !.crashes = @ + 1]
        \/ used' = [used EXCEPT !.moves = @ + 1]
    BY <1>7 DEF Outside, Bootstrap, Plan, Publish, Activate, Verdict, PersonFinishes, PersonMoves,
       LeaseEnds, Crash, Restart
  <2> QED BY <2>1, <2>2, Numbers DEF UsedOK
<1>8. CASE Next
  BY <1>2, <1>3, <1>4, <1>5, <1>6, <1>7, <1>8 DEF Next
<1> QED BY <1>1, <1>8

(* Only the bootstrapper makes a second Change, and slips as it does.      *)
LEMMA SingleStays ==
  ASSUME TypeOK, Single, [Next]_vars
  PROVE  Single'
<1> USE TypeParts
<1>1. CASE Bootstrap
  <2>1. ASSUME slips' = {} PROVE change'.again = change.again /\ slips = {}
    <3>1. Enter("DRAFT") /\ slips = {} BY <1>1, <2>1, BootstrapWrites DEF Bootstrap
    <3> QED BY <3>1 DEF Enter, ChangeOK
  <2> QED BY <2>1 DEF Single
<1>2. CASE ~Bootstrap
  <2>0. change \in [state : States, revision : 0 .. MaxRepairRounds + 1,
                    how : {"none", "submitted", "repair_submitted"},
                    passed : 0 .. MaxRepairRounds + 1, again : BOOLEAN]
    BY DEF ChangeOK
  <2>1. ASSUME UNCHANGED vars PROVE change'.again = change.again
    BY <2>1 DEF vars, stores
  <2>2. ASSUME NEW f \in Fiber, Running(f) PROVE change'.again = change.again
    BY <2>2 DEF Running, Guard, Begin, WorkSucceeds, WorkFails, CompleteUngoverned, CheckLease,
       Prove, Finish, Enter, Submit, ChangeOK, stores
  <2>3. ASSUME NEW f \in Fiber, Controlling(f) PROVE change'.again = change.again
    BY <2>3 DEF Controlling, ReadTask, Converge, Decide, SettleFailure, Escalate, Preflight,
       Reserve, Advance, Route, Recheck, ClaimRepair, SubmitRepair, Trouble, Enter, Submit,
       ChangeOK, stores
  <2>4. ASSUME NEW f \in Fiber, Recovering(f) PROVE change'.again = change.again
    BY <2>4 DEF Recovering, ScanLive, ScanSettled, ScanPartial, ScanNothing, Compare, Reconcile
  <2>5. ASSUME NEW f \in Fiber, \/ Dispatch(f) \/ Wake(f) \/ ApplyVerdict(f) \/ StartScan(f)
                                \/ TimerFires(f) \/ StartReconcile(f)
        PROVE  change'.again = change.again
    BY <2>5 DEF Dispatch, Wake, ApplyVerdict, StartScan, TimerFires, StartReconcile, Enter,
       ChangeOK, stores
  <2>6. ASSUME Outside PROVE change'.again = change.again
    <3>1. CASE Plan BY <2>0, <3>1 DEF Plan, Enter
    <3>2. CASE Verdict BY <2>0, <3>2 DEF Verdict, Enter
    <3>3. CASE Publish \/ Activate \/ PersonFinishes \/ PersonMoves \/ LeaseEnds
      BY <3>3 DEF Publish, Activate, PersonFinishes, PersonMoves, LeaseEnds, stores
    <3>4. CASE Crash \/ Restart BY <3>4 DEF Crash, Restart, stores
    <3> QED BY <1>2, <2>6, <3>1, <3>2, <3>3, <3>4 DEF Outside
  <2>7. change'.again = change.again
    BY <2>1, <2>2, <2>3, <2>4, <2>5, <2>6 DEF Next
  <2> QED BY <2>7, SlipsStay DEF Single
<1> QED BY <1>1, <1>2

(* The first state has all three layers of the invariant.                  *)
LEMMA InitHolds ==
  ASSUME Init
  PROVE  IInv
<1>1. TaskOK BY GovernedAssumption DEF Init, TaskOK, Statuses
<1>2. ChangeOK BY GovernedAssumption DEF Init, ChangeOK, States
<1>3. AuthorOK /\ RolesOK /\ MemoryOK BY DEF Init, AuthorOK, RolesOK, MemoryOK
<1>4. FibersOK BY NoJobFits DEF Init, FibersOK, Stages
<1>5. UsedOK BY GovernedAssumption DEF Init, UsedOK
<1>6. TypeOK BY <1>1, <1>2, <1>3, <1>4, <1>5, GovernedAssumption DEF Init, TypeOK, TaskOK,
        ChangeOK, AuthorOK, RolesOK, MemoryOK, FibersOK, JobRow, UsedOK
<1>7. Books
  <2>1. StoreBooks
    BY GovernedAssumption DEF Init, StoreBooks, HolderIsHeld, RunsCounted, RoundsCounted,
       TimerIsLate, SnapshotKnown, Held, Late, States
  <2>2. ASSUME NEW f \in Fiber PROVE FiberBooks(f) /\ ~Bears(f)
    <3>1. pc[f] = "idle" /\ job[f] = NoJob /\ change.revision = 0 BY DEF Init
    <3> QED BY <3>1, NoJobIs DEF FiberBooks, Bears
  <2> QED BY <2>1, <2>2 DEF Books, RunsApart
<1>8. Round
  BY DEF Init, Round, StoreRound, Preflighted, Shown, Owned, Finished, Requested, Held,
     FiberRound, Pending
<1>9. Single BY DEF Init, Single
<1>10. Alone
  BY DEF Init, Alone, StoreAlone, Unmoved, ReadyIsUnproved, HolderIsAuthor, FailedIsUnreviewed,
     OpenIsRepairable, Held, Reviewed, FailedIsEscalated, FiberAlone, Pending
<1> QED BY <1>6, <1>7, <1>8, <1>9, <1>10 DEF IInv

(* Every step keeps all three layers.                                      *)
LEMMA InvariantStep ==
  ASSUME IInv, [Next]_vars
  PROVE  IInv'
<1>1. TypeOK /\ Books BY DEF IInv
<1>2. TypeOK' BY <1>1, TypesStep
<1>3. Books' BY <1>1, <1>2, BooksStep
<1>7. Single' BY <1>1, SingleStays DEF IInv
<1>4. slips \subseteq slips' /\ (used'.moves = 0 => used.moves = 0) BY <1>1, SlipsStay
<1>5. ASSUME slips' = {} PROVE Round /\ Round'
  <2>1. Round BY <1>4, <1>5 DEF IInv
  <2> QED BY <1>1, <1>2, <1>5, <2>1, RoundStep
<1>6. ASSUME slips' = {}, used'.moves = 0 PROVE Alone'
  <2>1. Alone BY <1>4, <1>6 DEF IInv
  <2> QED BY <1>1, <1>2, <1>5, <1>6, <2>1, AloneStep
<1> QED BY <1>2, <1>3, <1>5, <1>6, <1>7 DEF IInv

-----------------------------------------------------------------------------
(* The inductive invariant of the governed task: the type, the books of    *)
(* the two stores and the fibers, the round while nothing slipped, and the *)
(* pair while, besides, no person moved the task.                          *)
THEOREM GovernedInvariant == Spec => []IInv
<1>1. Init => IInv BY InitHolds
<1>2. IInv /\ [Next]_vars => IInv' BY InvariantStep
<1> QED BY <1>1, <1>2, PTL DEF Spec

(* Every variable keeps its type, for any number of fibers, runs, repair   *)
(* rounds, crashes and moves.                                              *)
THEOREM GovernedTypes == Spec => []TypeOK
<1>1. IInv => TypeOK BY DEF IInv
<1> QED BY <1>1, GovernedInvariant, PTL

(* While none of the named windows was hit, a governed task is done only   *)
(* when its Change is approved: no completion, repair, recovery, guard or  *)
(* person gets it there otherwise.                                         *)
THEOREM GovernedDone == Spec => []DoneIsApproved
<1>1. IInv => DoneIsApproved
  BY DEF IInv, Round, StoreRound, Finished, DoneIsApproved
<1> QED BY <1>1, GovernedInvariant, PTL

(* While none of the named windows was hit, a review, its verdict and a    *)
(* repair are about the revision that passed the preflight, however long   *)
(* the controllers of several calls wait between their steps.              *)
THEOREM GovernedReview == Spec => []ReviewIsPreflighted
<1>1. IInv => ReviewIsPreflighted
  BY DEF IInv, Round, StoreRound, Preflighted, ReviewIsPreflighted
<1> QED BY <1>1, GovernedInvariant, PTL

(* While none of the named windows was hit, the row of a task under review *)
(* shows the proof under review, whichever of completion, repair, recovery *)
(* and reconciliation wrote it.                                            *)
THEOREM GovernedResult == Spec => []ResultIsProof
<1>1. IInv => ResultIsProof
  BY DEF IInv, Round, StoreRound, Shown, ResultIsProof, Late
<1> QED BY <1>1, GovernedInvariant, PTL

(* While none of the named windows was hit and no person moved the task,   *)
(* the statuses of the task and of the Change that every controller finds  *)
(* for it form a pair of the lifecycle table, or one that the lease, a     *)
(* wake or reconciliation resolves.  A bootstrap between approval and the  *)
(* move to done is such a window: second_change leaves an in_review task   *)
(* with a DRAFT that nothing resolves.                                     *)
THEOREM GovernedPair == Spec => []PairIsKnown
<1>1. IInv => PairIsKnown
  <2> SUFFICES ASSUME IInv, slips = {}, used.moves = 0 PROVE Recoverable
    BY DEF PairIsKnown
  <2>1. Round /\ Alone /\ change.state \in States /\ task.status \in Statuses
    BY Numbers DEF IInv
  <2>0. Found = change.state BY DEF IInv, Single, Found
  <2>2. CASE task.status = "ready"
    BY <2>0, <2>1, <2>2 DEF Alone, StoreAlone, ReadyIsUnproved, Recoverable, Pair, AllowedChangeStates,
       States, Reviewed
  <2>3. CASE task.status = "failed"
    BY <2>0, <2>1, <2>3 DEF Alone, StoreAlone, FailedIsUnreviewed, Recoverable, Pair,
       AllowedChangeStates, States
  <2>4. CASE task.status = "in_review"
    BY <2>0, <2>1, <2>4 DEF Round, StoreRound, Shown, Late, Recoverable, Pair, AllowedChangeStates
  <2>5. CASE task.status \in {"done", "changes_requested"}
    BY <2>0, <2>1, <2>5 DEF Round, StoreRound, Finished, Requested, Recoverable, Pair,
       AllowedChangeStates
  <2>6. CASE task.status \in Held
    BY <2>6 DEF Recoverable
  <2> QED BY <2>1, <2>2, <2>3, <2>4, <2>5, <2>6 DEF Statuses, Held, Alone, StoreAlone, Unmoved
<1> QED BY <1>1, GovernedInvariant, PTL

(* While none of the named windows was hit and no person moved the task, a *)
(* task that failed with its repair rounds used up has its escalation on   *)
(* record once the host is quiet.                                          *)
THEOREM GovernedEscalation == Spec => []EscalationIsRecorded
<1>1. IInv => EscalationIsRecorded
  <2> SUFFICES ASSUME IInv, slips = {}, used.moves = 0, task.status = "failed",
                      change.state = "REPAIR", Quiet, ~(change.revision <= MaxRepairRounds)
               PROVE  escalated
    BY DEF EscalationIsRecorded
  <2>1. Exhausted BY Numbers, GovernedAssumption DEF IInv, Exhausted
  <2>2. escalated \/ \E f \in Fiber : pc[f] = "escalate"
    BY <2>1 DEF IInv, Alone, FailedIsEscalated
  <2> QED BY <2>2 DEF Quiet
<1> QED BY <1>1, GovernedInvariant, PTL
=============================================================================
