------------------------------ MODULE Dispatcher ------------------------------
(***************************************************************************)
(* WorkerDispatcher (task-orchestrator/src/dispatcher.js) at work on the   *)
(* task ledger.  A run is one call of dispatchOnce; its run id is the      *)
(* worker id it claims with, so a run is a member of Worker.  Dispatchers  *)
(* may live in different processes: another actor can act between any two  *)
(* calls of the store, and everything read before an `await' may be stale  *)
(* after it.                                                               *)
(*                                                                         *)
(* Every call of the store can throw, because it refuses or because the    *)
(* database stays locked past busy_timeout, so the branch that handles an  *)
(* exception is always open.                                               *)
(***************************************************************************)
EXTENDS TaskStore, FiniteSets

CONSTANTS NoTask,    \* the run has not claimed a task
          Governed,  \* the runs with a preDispatch guard and a completionHook
          Limit      \* the limit of dispatchOnce's listing

ASSUME DispatchAssumption ==
    /\ NoTask \notin Task
    /\ Governed \subseteq Worker
    /\ Limit \in Nat \ {0}

VARIABLE run   \* run[r]: the control state of the dispatch r

ledger   == <<live, row, deps, audit, guards>>
dispatch == <<ledger, run>>

\* What dispatchOnce returns: a reason, a claim_cleanup or a status;
\* "rejected" stands for an exception that leaves dispatchOnce.
Result == {"no_ready_task", "preflight_failed", "released", "reverted",
           "held_by_other", "failed_cleanup", "launch_failed", "lease_lost",
           "failed", "in_review", "rejected"}
Ended  == Result \cup {"crashed"}

Run == [pc       : {"idle", "preflight", "guard", "release", "reclaim",
                    "rerelease", "expire", "launch", "abort", "monitor",
                    "hook", "hooked"} \cup Ended,
        todo     : SUBSET Task,               \* candidates not tried yet
        task     : Task \cup {NoTask},
        worker   : {"none", "running", "ok", "bad",    \* its process or session,
                    "stillborn"},                      \* or one that never was
        lost     : BOOLEAN,                   \* leaseLost
        timedOut : BOOLEAN]

Goto(r, pc) == run' = [run EXCEPT ![r].pc = pc]

\* ready_to_run of list
ReadyToRun == {t \in live : /\ row[t].status = "ready"
                            /\ Blockers(t) = {}
                            /\ AttemptsLeft(t)}

DispatchInit ==
    /\ Init
    /\ run = [r \in Worker |-> [pc |-> "idle", todo |-> {}, task |-> NoTask,
                                worker |-> "none", lost |-> FALSE,
                                timedOut |-> FALSE]]

-----------------------------------------------------------------------------
\* Selecting and claiming a task

\* dispatchOnce reads its candidates once.
List(r) ==
    /\ run[r].pc = "idle"
    /\ \E S \in SUBSET ReadyToRun :
          /\ S = {} <=> ReadyToRun = {}
          /\ Cardinality(S) <= Limit
          /\ run' = [run EXCEPT ![r].todo = S,
                        ![r].pc = IF S = {} THEN "no_ready_task" ELSE "preflight"]
    /\ UNCHANGED ledger

PreflightFails(r) ==
    /\ run[r].pc = "preflight"
    /\ run' = [run EXCEPT ![r].pc = "preflight_failed", ![r].todo = {}]
    /\ UNCHANGED ledger

\* Slip: the run goes on without the task it claimed.
ClaimUnrecorded(r) ==
    /\ run[r].pc = "preflight"
    /\ \E t \in run[r].todo, d \in Age :
          /\ Claim(t, r, LeaseTicks, d)
          /\ run' = [run EXCEPT ![r].todo = {},
                        ![r].pc = IF r \in Governed THEN "guard" ELSE "launch"]

\* The preflight of a candidate passed.
ClaimCandidate(r) ==
    /\ run[r].pc = "preflight"
    /\ \E t \in run[r].todo, d \in Age :
          \/ /\ Claim(t, r, LeaseTicks, d)
             /\ run' = [run EXCEPT ![r].task = t, ![r].todo = {},
                           ![r].pc = IF r \in Governed THEN "guard" ELSE "launch"]
          \/ /\ t \in live /\ ~Claimable(t, d)    \* claim_race: the next one
             /\ run' = [run EXCEPT ![r].todo = @ \ {t},
                           ![r].pc = IF run[r].todo = {t} THEN "no_ready_task" ELSE @]
             /\ UNCHANGED ledger
          \/ /\ run' = [run EXCEPT ![r].pc = "rejected", ![r].todo = {}]
             /\ UNCHANGED ledger

\* preDispatch settles: anything but the exact verdict {ok: true} rejects.
GuardDecides(r) ==
    /\ run[r].pc = "guard"
    /\ \E next \in {"launch", "release"} : Goto(r, next)
    /\ UNCHANGED ledger

-----------------------------------------------------------------------------
\* releaseOrRevert: three calls of the store, tried one after the other

\* release returns without an effect for a task that is neither claimed nor
\* running; the caller takes that for a release.
ReleasesNothing(t) == t \in live /\ row[t].status \notin Held

CleanupRelease(r) ==
    /\ run[r].pc = "release"
    /\ \/ /\ \E d \in Age : Release(run[r].task, r, d)
          /\ Goto(r, "released")
       \/ ReleasesNothing(run[r].task) /\ Goto(r, "released") /\ UNCHANGED ledger
       \/ Goto(r, "reclaim") /\ UNCHANGED ledger

CleanupReclaim(r) ==
    /\ run[r].pc = "reclaim"
    /\ LET t == run[r].task
       IN  \/ /\ \E d \in Age : Claim(t, r, LeaseTicks, d)
              /\ Goto(r, "rerelease")
           \/ /\ t \in live
              /\ \E d \in Age :
                    /\ ~Claimable(t, d)
                    /\ IF /\ Blockers(t) = {} /\ row[t].status \in Held
                          /\ ~LeaseExpired(t, d)          \* already_claimed
                         THEN Goto(r, "held_by_other") ELSE Goto(r, "expire")
              /\ UNCHANGED ledger
           \/ Goto(r, "failed_cleanup") /\ UNCHANGED ledger

CleanupRerelease(r) ==
    /\ run[r].pc = "rerelease"
    /\ \/ /\ \E d \in Age : Release(run[r].task, r, d)
          /\ Goto(r, "reverted")
       \/ ReleasesNothing(run[r].task) /\ Goto(r, "reverted") /\ UNCHANGED ledger
       \/ Goto(r, "failed_cleanup") /\ UNCHANGED ledger

\* Slip: the row is put back to ready without a conditional update.
RevertDirectly(r) ==
    /\ run[r].pc = "expire"
    /\ run[r].task \in live
    /\ row' = [row EXCEPT ![run[r].task] = Released(@)]
    /\ Goto(r, "reverted")
    /\ UNCHANGED <<live, deps, audit, guards>>

CleanupExpire(r) ==
    /\ run[r].pc = "expire"
    /\ LET t == run[r].task
       IN  \/ /\ \E d \in Age : ReleaseExpiredClaim(t, r, d)
              /\ Goto(r, "reverted")
           \/ /\ t \in live /\ row[t].claimed_by # r
              /\ Goto(r, "held_by_other") /\ UNCHANGED ledger
           \/ Goto(r, "failed_cleanup") /\ UNCHANGED ledger

-----------------------------------------------------------------------------
\* Launching

\* The process is spawned, or the session has accepted its prompt.
WorkerBegins(r) ==
    /\ run[r].pc = "launch" /\ run[r].worker = "none"
    /\ run' = [run EXCEPT ![r].worker = "running"]
    /\ UNCHANGED ledger

\* spawn was called and hands out a child; that there is no process only an
\* `error' event will tell, after the handle was returned.
SpawnFails(r) ==
    /\ run[r].pc = "launch" /\ run[r].worker = "none"
    /\ run' = [run EXCEPT ![r].worker = "stillborn"]
    /\ UNCHANGED ledger

\* The worker ends by itself, or because it was told to.
WorkerEnds(r) ==
    /\ run[r].worker = "running"
    /\ \E w \in {"ok", "bad"} : run' = [run EXCEPT ![r].worker = w]
    /\ UNCHANGED ledger

\* Slip: the attempt is counted before the launch.
StartThenLaunch(r) ==
    /\ run[r].pc = "launch"
    /\ \/ /\ \E d \in Age : Start(run[r].task, r, d)
          /\ Goto(r, "monitor")
       \/ Goto(r, "abort") /\ UNCHANGED ledger

\* launch resolves with a handle and start follows at once; when start
\* throws, the handle is terminated.
LaunchResolves(r) ==
    /\ run[r].pc = "launch" /\ run[r].worker # "none"
    /\ \/ /\ \E d \in Age : Start(run[r].task, r, d)
          /\ Goto(r, "monitor")
       \/ Goto(r, "abort") /\ UNCHANGED ledger

\* launch rejects: before the worker exists, or after (a lost answer, a
\* failed role binding), when its cancellation is only attempted.
LaunchRejects(r) ==
    /\ run[r].pc = "launch"
    /\ Goto(r, "abort")
    /\ UNCHANGED ledger

AbortLaunch(r) ==
    /\ run[r].pc = "abort"
    /\ Goto(r, "launch_failed")
    /\ \/ \E d \in Age : Release(run[r].task, r, d)
       \/ UNCHANGED ledger                        \* the exception is dropped

-----------------------------------------------------------------------------
\* monitor

\* wait() resolves: the worker has ended, or its error event says that there
\* never was one.
Over == {"ok", "bad", "stillborn"}

\* The renewal timer; a refusal or an exception means that the lease is
\* lost, and the worker is told to stop.
Renew(r) ==
    /\ run[r].pc = "monitor" /\ ~run[r].lost
    /\ \/ /\ \E d \in Age : RenewLease(run[r].task, r, LeaseTicks, d)
          /\ UNCHANGED run
       \/ /\ run' = [run EXCEPT ![r].lost = TRUE]
          /\ UNCHANGED ledger

TimeoutFires(r) ==
    /\ run[r].pc = "monitor" /\ ~run[r].timedOut
    /\ run' = [run EXCEPT ![r].timedOut = TRUE]
    /\ UNCHANGED ledger

\* complete or fail, or the exception it throws.
Report(r, target) ==
    \/ /\ \E d \in Age : Finish(run[r].task, r, target, d)
       /\ Goto(r, target)
    \/ Goto(r, "rejected") /\ UNCHANGED ledger

\* Slip: only the end of the worker settles the race.
SettleOnExit(r) ==
    /\ run[r].pc = "monitor"
    /\ run[r].worker \in Over
    /\ IF run[r].lost
         THEN Goto(r, "lease_lost") /\ UNCHANGED ledger
       ELSE IF run[r].timedOut \/ run[r].worker # "ok"
         THEN Report(r, "failed")
       ELSE IF r \in Governed
         THEN Goto(r, "hook") /\ UNCHANGED ledger
         ELSE Report(r, "in_review")

\* The race between wait() and the timeout is over; the renewal timer is
\* cleared and the outcome reported.
Settle(r) ==
    /\ run[r].pc = "monitor"
    /\ run[r].worker \in Over \/ run[r].timedOut
    /\ IF run[r].lost
         THEN Goto(r, "lease_lost") /\ UNCHANGED ledger
       ELSE IF run[r].timedOut \/ run[r].worker # "ok"
         THEN Report(r, "failed")
       ELSE IF r \in Governed
         THEN Goto(r, "hook") /\ UNCHANGED ledger
         ELSE Report(r, "in_review")

\* completionHook moves the task to in_review some time before it returns.
HookCompletes(r) ==
    /\ run[r].pc = "hook"
    /\ \E d \in Age : Finish(run[r].task, r, "in_review", d)
    /\ Goto(r, "hooked")

HookReturns(r) ==
    /\ run[r].pc = "hooked"
    /\ Goto(r, "in_review")
    /\ UNCHANGED ledger

\* completionHook throws, before or after it moved the task: fail is tried,
\* and its own exception is read as the loss of the lease.
HookThrows(r) ==
    /\ run[r].pc \in {"hook", "hooked"}
    /\ \/ /\ \E d \in Age : Finish(run[r].task, r, "failed", d)
          /\ Goto(r, "failed")
       \/ Goto(r, "lease_lost") /\ UNCHANGED ledger

\* The dispatcher's process dies; its worker may live on.
Crash(r) ==
    /\ run[r].pc \notin Ended \cup {"idle"}
    /\ run' = [run EXCEPT ![r].pc = "crashed", ![r].todo = {}]
    /\ UNCHANGED ledger

-----------------------------------------------------------------------------
\* What a run does next when a promise it awaits settles or a timer fires.
Progress(r) ==
    \/ PreflightFails(r) \/ ClaimCandidate(r) \/ GuardDecides(r)
    \/ CleanupRelease(r) \/ CleanupReclaim(r) \/ CleanupRerelease(r) \/ CleanupExpire(r)
    \/ LaunchResolves(r) \/ LaunchRejects(r) \/ AbortLaunch(r)
    \/ TimeoutFires(r) \/ Settle(r)
    \/ HookCompletes(r) \/ HookReturns(r) \/ HookThrows(r)

RunStep(r) ==
    List(r) \/ Progress(r) \/ Renew(r) \/ WorkerBegins(r) \/ SpawnFails(r) \/ WorkerEnds(r)
    \/ Crash(r)

\* The manager beside the dispatcher; the attempt counters are left alone.
Manage(t) ==
    \/ \E s \in ManagerStatus, m \in Attempt, B \in SUBSET live : Create(t, s, m, B)
    \/ \E s \in ManagerStatus : Update(t, s, Keep, Keep)
    \/ Delete(t)

DispatchNext ==
    \/ \E r \in Worker : RunStep(r)
    \/ (\E t \in Task : Manage(t)) /\ UNCHANGED run
    \/ (GuardStep \/ Tick) /\ UNCHANGED run

DispatchSpec == DispatchInit /\ [][DispatchNext]_dispatch

\* Promises settle and timers fire; nothing makes a worker end or a manager act.
FairDispatchSpec == DispatchSpec /\ \A r \in Worker : WF_dispatch(Progress(r))

-----------------------------------------------------------------------------
\* The control states are well formed: a run that got past the claim has a
\* task, one that has candidates is trying them.
DispatchTypeOK ==
    /\ run \in [Worker -> Run]
    /\ \A r \in Worker :
          /\ run[r].task = NoTask
             => run[r].pc \in {"idle", "preflight", "no_ready_task",
                               "preflight_failed", "rejected", "crashed"}
          /\ run[r].todo # {} <=> run[r].pc = "preflight"

\* A run that says it put the task back or reported its outcome has let go of
\* its claim, and no claim is left that only the expiry of a lease would free.
ClaimGivenUp ==
    \A r \in Worker :
        run[r].pc \in {"released", "reverted", "failed", "in_review"}
        => row[run[r].task].claimed_by # r

\* releaseOrRevert: "no window for another owner to be clobbered".  No step of
\* a run touches the row of a task that another worker holds on a live lease.
NoClobber ==
    [][\A r \in Worker, t \in Task :
          /\ run'[r] # run[r]
          /\ row[t].claimed_by \notin {NoWorker, r} /\ row[t].lease > 0
          => row'[t] = row[t]]_dispatch

\* A run consumes one attempt at most, and none before its launcher called
\* for a worker: a failed preflight, a lost race, a vetoed dispatch and the
\* claims of the cleanup are free.  A process that could not be spawned is
\* not: its handle was there when start counted the attempt, although
\* WORKER-DISPATCH-PLAN's failure policy lets no failed launch consume one.
OneAttemptPerLaunch ==
    \A t \in Task :
        row[t].attempts <=
            Cardinality({r \in Worker : run[r].task = t /\ run[r].worker # "none"})

\* Every dispatch ends, whatever its worker, the other workers and the manager
\* do, unless its process dies.
DispatchEnds == \A r \in Worker : run[r].pc # "idle" ~> run[r].pc \in Ended
=============================================================================
