------------------------------ MODULE TaskStore ------------------------------
(***************************************************************************)
(* The durable task ledger of task-orchestrator/src/store.js: the rows of  *)
(* `tasks`, the edges of `task_dependencies`, the status trail kept in     *)
(* `task_events` and the lifecycle guards of a running store.              *)
(*                                                                         *)
(* Every mutation of the store is one BEGIN IMMEDIATE ... COMMIT, so every *)
(* operation is one action.  The one thing that is not atomic is the       *)
(* clock: an operation reads it before it waits for the write lock, so its *)
(* timestamp may be up to LockWait ticks old when the transaction runs.    *)
(* The parameter d of an action is that age.                               *)
(*                                                                         *)
(* A lease is kept as the time that is left of it, lease_expires_at - now; *)
(* `lease + d <= 0' is the code's `lease_expires_at <= timestamp'.  Text   *)
(* columns, priorities, actors and the other event types are left out.     *)
(* A call the code refuses (an exception, a false result) changes nothing: *)
(* it is a stuttering step and has no action.                              *)
(***************************************************************************)
EXTENDS Integers, DependencyGraph

CONSTANTS Task,          \* the task ids
          Worker,        \* the worker ids that claim tasks
          NoWorker,      \* claimed_by IS NULL
          NoLease,       \* lease_expires_at IS NULL
          Keep,          \* a patch that leaves the column alone
          LeaseTicks,    \* the longest lease_seconds a caller asks for
          LockWait,      \* busy_timeout: the oldest timestamp a commit uses
          AttemptBound,  \* bound on attempts and max_attempts
          Guarded,       \* the statuses a registered guard may veto
          ManagerStatus  \* the statuses create and update ask for

\* TASK_STATUSES, and one status unknown to the store.
KnownStatus == {"backlog", "planning", "ready", "claimed", "running",
                "in_review", "changes_requested", "blocked", "failed",
                "done", "cancelled"}
Status == KnownStatus \cup {"extension"}

Held     == {"claimed", "running"}
Waiting  == {"backlog", "planning", "ready"}
Terminal == {"done", "cancelled"}

ASSUME StoreAssumption ==
    /\ NoWorker \notin Worker
    /\ NoLease \notin Int
    /\ Keep \notin Status \cup Int \cup BOOLEAN
    /\ LeaseTicks \in Nat \ {0}
    /\ LockWait \in Nat
    /\ AttemptBound \in Nat
    /\ Guarded \subseteq Status
    /\ ManagerStatus \subseteq Status

\* KNOWN_TRANSITIONS
KnownTransition ==
    [backlog           |-> {"planning", "ready", "blocked", "cancelled"},
     planning          |-> {"backlog", "ready", "blocked", "failed", "cancelled"},
     ready             |-> {"planning", "claimed", "blocked", "failed", "cancelled"},
     claimed           |-> {"ready", "running", "blocked", "failed", "cancelled"},
     running           |-> {"ready", "in_review", "blocked", "failed", "cancelled"},
     in_review         |-> {"done", "changes_requested", "blocked", "failed", "cancelled"},
     changes_requested |-> {"planning", "ready", "blocked", "cancelled"},
     blocked           |-> {"planning", "ready", "failed", "cancelled"},
     failed            |-> {"ready", "cancelled"},
     done              |-> {},
     cancelled         |-> {}]

\* validateTransition: unknown statuses are allowed to and from.
ValidTransition(from, to) ==
    {from, to} \subseteq KnownStatus => to \in KnownTransition[from] \cup {from}

\* A lease older than LockWait looks the same to every later operation.
LeaseLeft == (-LockWait) .. LeaseTicks
Attempt   == 0 .. AttemptBound
Age       == 0 .. LockWait

Row == [status       : Status,
        claimed_by   : Worker \cup {NoWorker},
        lease        : LeaseLeft \cup {NoLease},
        attempts     : Attempt,
        max_attempts : Attempt,
        started      : BOOLEAN,    \* started_at IS NOT NULL
        completed    : BOOLEAN]    \* completed_at IS NOT NULL

BlankRow == [status |-> "backlog", claimed_by |-> NoWorker, lease |-> NoLease,
             attempts |-> 0, max_attempts |-> 0,
             started |-> FALSE, completed |-> FALSE]

VARIABLES live,    \* the ids that have a row
          row,     \* the row of each id; BlankRow when it has none
          deps,    \* task_dependencies
          audit,   \* the status each task's status events replay to
          guards   \* the statuses the registered lifecycle guards veto

vars == <<live, row, deps, audit, guards>>

-----------------------------------------------------------------------------
\* Reading a row

\* _blockerIds: the prerequisites that are not done.
Blockers(t) == {u \in DirectPrerequisites(deps, t) : row[u].status # "done"}

\* Slip: the age of the timestamp counts in favour of the expiry.
LeaseExpiredEarly(t, d) == row[t].lease # NoLease /\ row[t].lease <= d

\* lease_expires_at is set and has passed at a timestamp of age d.
LeaseExpired(t, d) == row[t].lease # NoLease /\ row[t].lease + d <= 0

\* _assertActiveLease
ActiveLease(t, w, d) ==
    /\ row[t].claimed_by = w
    /\ row[t].lease # NoLease
    /\ row[t].lease + d > 0

\* max_attempts = 0 means no limit.
AttemptsLeft(t) ==
    row[t].max_attempts > 0 => row[t].attempts < row[t].max_attempts

\* The conditions under which claim says yes: a ready task, or a held one
\* whose lease has passed.
Claimable(t, d) ==
    /\ Blockers(t) = {}
    /\ \/ row[t].status = "ready"
       \/ row[t].status \in Held /\ LeaseExpired(t, d)
    /\ AttemptsLeft(t)

\* _runLifecycleGuards: no registered guard vetoes the next status.
GuardsAllow(next) == next \notin guards

\* Slip: a return to ready is not taken for a status change.
LogAllButReady(t, from, to) ==
    audit' = IF from # to /\ to # "ready" THEN [audit EXCEPT ![t] = to] ELSE audit

\* _statusEvent: logged only when the status changes.
LogStatus(t, from, to) ==
    audit' = IF from # to THEN [audit EXCEPT ![t] = to] ELSE audit

-----------------------------------------------------------------------------
Init ==
    /\ live = {}
    /\ row = [t \in Task |-> BlankRow]
    /\ deps = {}
    /\ audit = [t \in Task |-> "backlog"]
    /\ guards = {}

\* create: any status, no guard; blocked_by must name other existing tasks.
Create(t, s, max, B) ==
    /\ t \notin live
    /\ B \subseteq live
    /\ live' = live \cup {t}
    /\ row' = [row EXCEPT ![t] = [BlankRow EXCEPT !.status = s, !.max_attempts = max]]
    /\ deps' = deps \cup {<<t, u>> : u \in B}
    /\ audit' = [audit EXCEPT ![t] = s]
    /\ UNCHANGED guards

\* update with a patch of the status s, attempts a and max_attempts m; the
\* clean-up of the claim and of the timestamps follows the resulting status
\* even when the patch has none.
Update(t, s, a, m) ==
    LET r    == row[t]
        next == IF s = Keep THEN r.status ELSE s
    IN  /\ t \in live
        /\ s # Keep => ValidTransition(r.status, s) /\ GuardsAllow(s)
        /\ row' = [row EXCEPT ![t] =
              [status       |-> next,
               claimed_by   |-> IF next # r.status /\ next \notin Held
                                  THEN NoWorker ELSE r.claimed_by,
               lease        |-> IF next # r.status /\ next \notin Held
                                  THEN NoLease ELSE r.lease,
               attempts     |-> IF a = Keep THEN r.attempts ELSE a,
               max_attempts |-> IF m = Keep THEN r.max_attempts ELSE m,
               started      |-> /\ next \notin {"ready", "planning", "backlog"}
                                /\ r.started \/ next = "running",
               completed    |-> /\ next \notin {"ready", "planning", "backlog",
                                                "changes_requested"}
                                /\ r.completed \/ next \in Terminal]]
        /\ LogStatus(t, r.status, next)
        /\ UNCHANGED <<live, deps, guards>>

\* delete: the edges of the task go with it (ON DELETE CASCADE).
Delete(t) ==
    /\ t \in live
    /\ live' = live \ {t}
    /\ row' = [row EXCEPT ![t] = BlankRow]
    /\ deps' = {e \in deps : e[1] # t /\ e[2] # t}
    /\ audit' = [audit EXCEPT ![t] = "backlog"]
    /\ UNCHANGED guards

\* claim for n ticks.
Claim(t, w, n, d) ==
    /\ t \in live
    /\ Claimable(t, d)
    /\ GuardsAllow("claimed")
    /\ row' = [row EXCEPT ![t].status = "claimed", ![t].claimed_by = w,
                          ![t].lease = n - d]
    /\ LogStatus(t, row[t].status, "claimed")
    /\ UNCHANGED <<live, deps, guards>>

\* A held row goes back to ready with its claim and timestamps cleared.
Released(r) == [r EXCEPT !.status = "ready", !.claimed_by = NoWorker,
                         !.lease = NoLease, !.started = FALSE,
                         !.completed = FALSE]

Release(t, w, d) ==
    /\ t \in live
    /\ row[t].status \in Held
    /\ ActiveLease(t, w, d)
    /\ GuardsAllow("ready")
    /\ row' = [row EXCEPT ![t] = Released(@)]
    /\ LogStatus(t, row[t].status, "ready")
    /\ UNCHANGED <<live, deps, guards>>

\* releaseExpiredClaim: the status is tested by the UPDATE only, the event
\* is appended whether or not the UPDATE found the row.
ReleaseExpiredClaim(t, w, d) ==
    /\ t \in live
    /\ row[t].claimed_by = w
    /\ LeaseExpired(t, d)
    /\ GuardsAllow("ready")
    /\ row' = IF row[t].status \in Held
                THEN [row EXCEPT ![t] = Released(@)] ELSE row
    /\ LogStatus(t, row[t].status, "ready")
    /\ UNCHANGED <<live, deps, guards>>

\* Slip: the renewal is added to what is left of the lease.
ExtendLease(t, w, n, d) ==
    /\ t \in live
    /\ row[t].status \in Held
    /\ ActiveLease(t, w, d)
    /\ row' = [row EXCEPT ![t].lease = @ + n]
    /\ UNCHANGED <<live, deps, audit, guards>>

RenewLease(t, w, n, d) ==
    /\ t \in live
    /\ row[t].status \in Held
    /\ ActiveLease(t, w, d)
    /\ row' = [row EXCEPT ![t].lease = n - d]
    /\ UNCHANGED <<live, deps, audit, guards>>

\* start counts the attempt.  AttemptBound caps a task without a limit.
Start(t, w, d) ==
    /\ t \in live
    /\ row[t].status = "claimed"
    /\ ActiveLease(t, w, d)
    /\ AttemptsLeft(t)
    /\ row[t].attempts < AttemptBound
    /\ GuardsAllow("running")
    /\ row' = [row EXCEPT ![t].status = "running", ![t].attempts = @ + 1,
                          ![t].started = TRUE]
    /\ LogStatus(t, "claimed", "running")
    /\ UNCHANGED <<live, deps, guards>>

\* _finish: complete goes to in_review, fail to failed.
Finish(t, w, target, d) ==
    /\ t \in live
    /\ row[t].status \in Held
    /\ ActiveLease(t, w, d)
    /\ GuardsAllow(target)
    /\ row' = [row EXCEPT ![t].status = target, ![t].claimed_by = NoWorker,
                          ![t].lease = NoLease,
                          ![t].completed = (target # "in_review")]
    /\ LogStatus(t, row[t].status, target)
    /\ UNCHANGED <<live, deps, guards>>

\* block: only a held task needs its worker's live lease.
Block(t, w, d) ==
    /\ t \in live
    /\ row[t].status \notin Terminal
    /\ row[t].status \in Held => ActiveLease(t, w, d)
    /\ GuardsAllow("blocked")
    /\ row' = [row EXCEPT ![t].status = "blocked", ![t].claimed_by = NoWorker,
                          ![t].lease = NoLease]
    /\ LogStatus(t, row[t].status, "blocked")
    /\ UNCHANGED <<live, deps, guards>>

Unblock(t) ==
    /\ t \in live
    /\ row[t].status = "blocked"
    /\ GuardsAllow("ready")
    /\ row' = [row EXCEPT ![t].status = "ready", ![t].started = FALSE,
                          ![t].completed = FALSE]
    /\ LogStatus(t, "blocked", "ready")
    /\ UNCHANGED <<live, deps, guards>>

RequestChanges(t) ==
    /\ t \in live
    /\ row[t].status = "in_review"
    /\ GuardsAllow("changes_requested")
    /\ row' = [row EXCEPT ![t].status = "changes_requested"]
    /\ LogStatus(t, "in_review", "changes_requested")
    /\ UNCHANGED <<live, deps, guards>>

\* updateIf: the patch is applied only to a row still in the status (and
\* with the owner) the caller saw.  Its completed_at patch has no caller.
UpdateIf(t, from, owner, s) ==
    LET r     == row[t]
        drops == r.status \in Held /\ s \notin Held
    IN  /\ t \in live
        /\ r.status = from
        /\ owner # Keep => r.claimed_by = owner
        /\ ValidTransition(from, s)
        /\ s # from => GuardsAllow(s)
        /\ row' = [row EXCEPT ![t].status = s,
                     ![t].claimed_by = IF drops THEN NoWorker ELSE @,
                     ![t].lease      = IF drops THEN NoLease ELSE @]
        /\ LogStatus(t, from, s)
        /\ UNCHANGED <<live, deps, guards>>

\* The <<expected status, patched status>> pairs of updateIf's callers: the
\* review verdicts and the recovery of task-change-control.
RepairPatch ==
    ({"in_review"} \X {"done", "failed", "changes_requested"})
      \cup (Held \X {"ready", "in_review", "failed"})
      \cup {<<"ready", "failed">>}

\* addDependency with _insertDependency's cycle check.
AddDependency(t, u) ==
    /\ {t, u} \subseteq live /\ t # u
    /\ <<t, u>> \notin deps
    /\ ~WouldCycle(deps, t, u, Task)
    /\ deps' = deps \cup {<<t, u>>}
    /\ UNCHANGED <<live, row, audit, guards>>

RemoveDependency(t, u) ==
    /\ t \in live
    /\ deps' = deps \ {<<t, u>>}
    /\ UNCHANGED <<live, row, audit, guards>>

\* registerLifecycleGuard, its disposer, and close (which forgets them all).
RegisterLifecycleGuard(s) ==
    /\ guards' = guards \cup {s}
    /\ UNCHANGED <<live, row, deps, audit>>

DisposeLifecycleGuard(s) ==
    /\ guards' = guards \ {s}
    /\ UNCHANGED <<live, row, deps, audit>>

Close ==
    /\ guards' = {}
    /\ UNCHANGED <<live, row, deps, audit>>

\* Time passes: every lease runs down.
Tick ==
    /\ row' = [t \in Task |->
                 IF row[t].lease # NoLease /\ row[t].lease > -LockWait
                   THEN [row[t] EXCEPT !.lease = @ - 1] ELSE row[t]]
    /\ UNCHANGED <<live, deps, audit, guards>>

-----------------------------------------------------------------------------
ManagerStep(t) ==
    \/ \E s \in ManagerStatus, m \in Attempt, B \in SUBSET live : Create(t, s, m, B)
    \/ \E s \in ManagerStatus \cup {Keep}, a, m \in Attempt \cup {Keep} : Update(t, s, a, m)
    \/ Delete(t)
    \/ Unblock(t)
    \/ RequestChanges(t)
    \/ \E p \in RepairPatch, w \in Worker \cup {NoWorker, Keep} :
          UpdateIf(t, p[1], w, p[2])
    \/ \E u \in Task : AddDependency(t, u) \/ RemoveDependency(t, u)

WorkerStep(t, w) ==
    \E d \in Age :
        \/ \E n \in 1 .. LeaseTicks : Claim(t, w, n, d) \/ RenewLease(t, w, n, d)
        \/ Release(t, w, d)
        \/ ReleaseExpiredClaim(t, w, d)
        \/ Start(t, w, d)
        \/ \E target \in {"in_review", "failed"} : Finish(t, w, target, d)
        \/ Block(t, w, d)

GuardStep ==
    \/ \E s \in Guarded : RegisterLifecycleGuard(s) \/ DisposeLifecycleGuard(s)
    \/ Close

Next ==
    \/ \E t \in Task : ManagerStep(t)
    \/ \E t \in Task, w \in Worker : WorkerStep(t, w)
    \/ GuardStep
    \/ Tick

Spec == Init /\ [][Next]_vars

-----------------------------------------------------------------------------
\* The ledger keeps its column types.
LedgerTypeOK ==
    /\ live \subseteq Task
    /\ row \in [Task -> Row]
    /\ deps \subseteq Task \X Task
    /\ audit \in [Task -> Status]
    /\ guards \subseteq Guarded

\* claimed_by and lease_expires_at are set and cleared together, and only a
\* claimed or running row has them.  Nine operations write these columns,
\* and releaseExpiredClaim relies on it to log a release it has not tested.
ClaimShape ==
    \A t \in Task :
        /\ row[t].claimed_by = NoWorker <=> row[t].lease = NoLease
        /\ row[t].claimed_by # NoWorker => row[t].status \in Held

\* Replaying a task's creation and status_changed events, which are appended
\* by other code than the row is written by, ends in the status of its row.
AuditReplays == \A t \in live : audit[t] = row[t].status

\* The prerequisite edges join existing tasks and never form a cycle, over
\* any series of additions, removals, creations and deletions.
DependenciesSound ==
    /\ deps \subseteq live \X live
    /\ Acyclic(deps, Task)

\* A task passes from one worker to another only when the lease of the first
\* has run out, however long either waited for the write lock.
LeaseHonoured ==
    [][\A t \in Task :
          /\ row[t].claimed_by # NoWorker
          /\ row'[t].claimed_by \notin {NoWorker, row[t].claimed_by}
          => row[t].lease <= 0]_vars

\* A done or cancelled task stays so: it can only be deleted or be moved by a
\* manager to a status the store does not know.
TerminalIsFinal ==
    [][\A t \in live \cap live' :
          row[t].status \in Terminal
          => row'[t].status \in {row[t].status} \cup (Status \ KnownStatus)]_vars

\* No operation moves an existing task to a status that a registered guard
\* vetoes (registerLifecycleGuard: "every status-changing mutation path").
NoVetoedTransition ==
    [][\A t \in live \cap live' :
          row'[t].status # row[t].status => row'[t].status \notin guards]_vars
=============================================================================
