# Verification of dsh-engineering-control

TLA+ models of the engineering-control packages under `src/packages/`, model-checked
with TLC, with theorems checked by TLAPS. File names without a path are in
`src/packages/task-orchestrator/src/`, `src/packages/change-control/src/` or
`src/packages/task-change-control/src/`.

Model-check a run with `tlc -config <run>.cfg <module>.tla`, check proofs with
`tlapm <module>.tla`. `PROJECT.json` lists the runs, the mutants that show each
property can fail, the map from definitions to source lines, the hazards and the
theorems.

## 1. Inventory

Three Cordis services run in one DSH host. Several hosts may share one data directory.
The two domain packages never import each other's stores; the third one integrates them.

| Part | State | Operations | Talks to |
|---|---|---|---|
| **TaskStore** (`store.js`) | SQLite: `tasks`, `task_dependencies`, `task_events`, `projects`, `milestones`, `task_links`, criteria; in memory: lifecycle guards | create/update/delete, claim/renew/release/start/complete/fail/block/unblock, updateIf, dependencies, board | every mutation is one `BEGIN IMMEDIATE`; guards are called back inside it |
| **WorkerDispatcher** (`dispatcher.js`) | one run per `dispatchOnce`: claim, worker handle, renewal and timeout timers | list, preflight, claim, guard, launch, monitor, completion hook, clean-up | TaskStore; a process or an agent session; `preDispatch` and `completionHook` callbacks |
| **Change domain** (`domain/change.js`) | the lifecycle DRAFT, PLANNED, READY, IMPLEMENTING, PREFLIGHT, REVIEW, REPAIR, APPROVED | `transitionTo` | called by ChangeStore |
| **ChangeStore** (`storage/change-store.js`) | one JSON file: changes, plans, bindings, attempts, proofs, preflight results, reviews, claims, repair proofs, risk gates, budgets, audit; a copy of it per process | create, plan, bind, transition, proof, preflight, review, repair, risk, budget | a process-local queue, a lock directory on disk, merge-on-persist |
| **Preflight runner, change tools, filesystem policy** | none of their own | run checks, wrap the store as tools, allow or refuse a path | ChangeStore |
| **Governance** (`service.js`, `governance.js`, `binding.js`, `lifecycle.js`) | links from tasks to Changes, session bindings | `preDispatch` guard, role binding round the launch, governed completion, recovery | both stores, dispatcher callbacks |
| **Reviewer reservation and repair routing** (`service.js`) | claim files, reclaim lock files, role bindings | reserve, launch, bind, reclaim a reviewer; route a repair | file system, ChangeStore, TaskStore, sessions |
| **Recovery and bootstrap** (`index.js`, `lifecycle-bootstrap.js`, `policy.js`) | lease timers, wake-ups, stop flags | restart scan, reconcile task and Change states | both stores |
| **R2 handoff producer, agent-teams adapter** | handoff packages, team state | produce, adapt | agent sessions |
| **Plan import, worker specs and preflight, reviewer launcher, routes, tools, UI client** | none of their own | parse, check, forward | TaskStore, processes, HTTP |

### What is hard here

* **Interleaving and staleness.** Candidates are listed once and claimed later; timestamps
  are read before the write lock is waited for; ChangeStore operations validate a copy of
  the file and persist it under another lock.
* **Leases.** A lease may run out while a guard, a launch, or a completion hook is awaited.
* **Failure half-way.** Launch, start, release, hook and persist can each fail after the
  step before them took effect, and a process may die between two of them.
* **Two stores, one outcome.** A completion moves a Change and a task, a review verdict
  too; a crash in between has to be repaired on restart.
* **Progress.** `dispatchOnce` must return even if its worker never ends.

### What makes each part correct

* TaskStore: claim and lease appear together and only on held tasks; the lease of a live
  worker is honoured; terminal tasks stay terminal; no transition bypasses a guard; the
  audit replays to the row; prerequisites and parents stay acyclic and never dangle; a
  milestone belongs to its task's project.
* Dispatcher: it only ever does what the ledger allows; it never touches a task another
  worker holds; it gives its claim up; it ends; a dispatch is charged once at most, and not before its launcher
  called for a worker. A session it waits for succeeds by its own turn, and is never left running.
* Change domain: a Change is approved only after an independent passing review of the
  current revision; an accepted plan is unique and immutable; the audit replays.
* ChangeStore: concurrent processes behave as if each operation were atomic.
* Governance: task and Change states stay paired or are brought back together by recovery;
  at most one reviewer is at work for a round, and the durable record names it; an
  interrupted repair and an approved task converge.
* Handoff: a planner owns the task it is bound to; an accepted plan reaches a worker, once.
* Plan import: what is reported as imported is there.

## 2. Plan

All of it is done; in the order it was done:

1. `DependencyGraph`, `TaskStore`: the ledger, the abstract specification of everything
   that uses tasks. `Dispatcher` composes it with dispatch runs and refines it.
2. `ChangeLifecycle`: the Change as one record with atomic operations, which is what the
   store promises. `ChangeStore`: several host processes over one file, with the same
   operations spread over refresh, change, merge and write.
3. `ReviewerSlot`, what the reviewer claim of a round promises, and `ReviewerClaim`, the
   claim file, the reclaim lock and the launch of a reviewer with crashes, which refines it.
4. `GovernedTask`: task and Change as a pair, through completion, review, repair and restart.
5. `ControllerHandoff`: from the planner's claim to the worker's.
6. `ProjectBoard` with plan imports, and `WorkerSession`.

What could still be added is named in section 6.

## 3. Models

### DependencyGraph, TaskStore

`row[t]` is a row of `tasks`, `live` the ids that have one, `deps` the table
`task_dependencies`, `audit[t]` the status that replaying the status events of `t` gives,
`guards` the statuses the registered lifecycle guards veto. One action per mutating
method. A method that throws or returns false changes nothing and so has no action.

* *Time.* A row keeps the time left of its lease. Methods read the clock before they wait
  for the write lock, so every timed action takes the age `d` of its timestamp, at most
  `LockWait` ticks (`busy_timeout`). `Tick` runs all leases down.
* *Guards* are called inside the transaction, so a veto is a conjunct of the action,
  also where the code calls them after its UPDATE and rolls back.
* `updateIf` is open to the pairs of statuses its callers in `task-change-control` pass
  (`RepairPatch`).
* *Left out:* text columns, priorities and criteria. Projects, milestones, parents and links
  are in `ProjectBoard`; no guard of the ledger reads them.

### Dispatcher

`run[r]` is the control state of one `dispatchOnce`. Its run id is the worker id it
claims with. Between two actions of a run anything else may happen: other runs (in the
same process or another), a manager, guards, time. Every store call may throw, because it
refuses or because the database stays locked, so the exception branch is always open.

* `List`, `ClaimCandidate`, `PreflightFails`: selecting and claiming; a lost race goes on
  to the next candidate.
* `GuardDecides`, `CleanupRelease`, `CleanupReclaim`, `CleanupRerelease`,
  `CleanupExpire`: the verdict of `preDispatch` and the three calls of `releaseOrRevert`.
* `WorkerBegins`, `SpawnFails`, `WorkerEnds`, `LaunchResolves`, `LaunchRejects`, `AbortLaunch`: the
  worker is in the model apart from the promise that reports it, since a launch may fail
  after the worker came to be, and the headless launcher returns its handle before the
  process is known to exist: a `stillborn` worker is one whose `error` event is still to come.
* A `release` that finds nothing to release returns without throwing (`ReleasesNothing`), and the clean-up
  then reports a task as released that it left alone.
* `Renew`, `TimeoutFires`, `Settle`, `HookCompletes`, `HookReturns`, `HookThrows`:
  `monitor`. The completion hook is external; it may complete the task and then throw.
* `Crash`: the process of the dispatcher dies and its worker lives on.
* *Left out:* what a worker session does and how its envelope is read (`WorkerSession`);
  the wording of reasons.

### ChangeLifecycle

`change[x]` is the durable record of Change `x`: its state, work item, plan revisions and
the accepted one, bindings, attempts, proof, reviews, finding claims, risk and gates. Each
operation of the store that writes one of them is a condition `Can...(c)` and a resulting
record `With...(c)`; here each is one atomic step, so the module is both a state machine
of its own and the abstract specification of `ChangeStore`.

* *Attempts* are identified by kind and revision, as in the code, so an attempt whose id
  is on file is dropped (`AddAttempt`). An attempt records the session that the store
  writes, and, as a ghost field that no guard reads, the caller (`by`).
* *Calls* are those the services, the tools and the dispatcher make: `AskedTransition` are the
  transitions somebody asks for, the others happen inside submitPlan, acceptPlan,
  submitProof, submitReview and submitRepair. Nobody rebinds.
* *A finding* is the number of the review it is in, since guards only ask whether a
  review has blocking findings and whether they are claimed.
* *Left out:* plan digests, texts and times; preflight results (the move to REVIEW is open
  from PREFLIGHT, so a property that holds here does not rely on them); the planner role,
  which no operation asks for; required checks, budgets and governance modes, which gate
  operations and never write the fields above. Leaving a gate out only adds behaviour.

### ChangeStore

`change` is here the content of the file, and `host[h]` what process `h` has in memory: its
copy, the audit events that are not on file, the dirty flags, the operation under way and
what it is about to write. `at[h][w]` says how far a writer is: `op`, the operation, of
which a process has one at a time (`acquireLock` is a queue), and `pre`, the persist of
preflight results, which does not queue. An operation takes these steps, and any step of
the same or another process may come in between:

1. `Host...`: it refreshes its copy, checks `Can...` and changes the copy. *Locked*
   operations (create with a work item, plans, transition, bindings) hold the disk lock from
   here on; *light* ones (proof, review, repair, risk, gates, audit) do not, and creation without a work
   item and `appendAudit` do not refresh either.
2. `PushEvent`: the highest event id is read from the file, then the audit event is pushed, and with it the new
   plan or attempt (`Early` is what is in memory before that). The operation decides
   `job.rec` for the file; memory differs from it only in the gates that `setRisk` deletes (`InMemory`).
3. `Merge`: takes the disk lock, or enters it again, reads the file and merges. State and plans come from the
   memory if the process has events for the Change, bindings, reviews and claims if they are flagged
   dirty, attempts are a union, a proof in memory wins, gates on file that memory has none of stay.
4. `Write`: writes the file, clears the flags, leaves the lock.

`PersistFails` stands for a lock that times out or a failing write: the caller gets an error and what it did
stays in memory. `Crash` is a process that dies and is opened again; its lock directory
stays (`Stale`) until a waiter finds it too old (`Judge`) and removes it by name (`Reap`),
which may hit the directory somebody else has made since. The lock is re-entrant by a
count; who made the directory removes it and forgets the count, even while another section of
its process is inside.

History variables that no guard reads make the properties precise: `behind` (somebody
wrote since this writer read), `torn` (since it merged), `failed` (the persist before
failed), `breached` (the lock went while somebody was inside).

*Abstractions:* the file exists; a plan is known by its revision; event ids are unique; a
process has one preflight persist at a time; a file that cannot be read while persisting,
and a live process that holds the lock for more than 30 seconds, are left out; the second
refresh of `submitProof` is taken together with the first. Budgets, required checks,
governance modes and `recordAttempt` (which only tests call) are left out.

### Slips and windows

The five models below follow code that spreads one decision over several reads and writes
and cannot keep everything else out in between. Where the code really loses what a property
asks for, the step that does so is marked with a *slip*, a ghost flag no guard reads, and the
property is stated until the first slip: it says that *nothing but* the named steps can break
it. The slips of each model are listed below with their lines, which is the list of known
weaknesses. `Windows` names the slips an instance lets happen. Leaving one out only cuts
behaviours in which the properties conditional on it hold trivially from there on; runs
whose properties are not conditional let all of them happen.

### ReviewerSlot, ReviewerClaim (`service.js` 2150 to 2950)

`ReviewerSlot` is the promise: a request reaches a reviewer only when none of the round is at
work and no verdict was given. `ReviewerClaim` has `claim` and `lock`, the two files; `grab[h]`, what a
host has renamed away; `pc[h]` and `job[h]`, its reservation; `watch[h][s]`, its observer of a
turn; `turn[s]`, the session service; `bound`, `audited` and `settled`, the Change.

* `Wake` to `GiveUp`: find a confirmed binding, adopt a delivered request, or seek the lock.
* `CreateLock` to `VerifyLock`: `acquireReclaimLock`, with a stale lock renamed away, compared,
  and discarded or put back. A lock is created first and written afterwards; a reader in between finds
  no record in it and takes it for stale (`HalfWritten`, `ObserveEmpty`), which the slip `lock_grabbed` is about.
* `Revalidate` to `Unlink`: the critical section and `releaseReclaimLock`, whose removal may fail.
* `CreateSession` to `AuditRequested`: the launch, each of whose steps may fail or be the last.
* `TurnObserved` to `Rebuild`: a turn ends without a verdict, the round is expired and asked again.
* `Crash`, `Dispose`, leases that run out, sessions that end and disappear.

Slips: `lock_grabbed`, the rename takes a live lock (2327); `claim_overwritten`, an expiry without
the lock hits a newer record; `turn_cut_off`, an unreadable history counts as the end of a
turn (2891); `reviewer_stranded`, a failed cancellation is ignored; `lease_outlived`, a live
host takes longer than its lease.

### GovernedTask (`service.js`, `governance.js`, `lifecycle.js`, `binding.js`, `index.js`, `lifecycle-bootstrap.js`)

`task` and `change` are what the two stores have; `snapshot`, `host`, `timer` and `due` are the
controller's memory; each fiber is one call of the host at one of its awaits. A proof is
known by its revision, `author` says whose it is. `change` is the Change the work is done under;
`change.again` says that the bootstrapper made a second one once it was APPROVED, and `Found` is the one that a
lookup by the task finds, the second if there is one. The second Change is followed as a DRAFT only: that is
enough to hide the approval, and what planning it over again leads to is not modelled.

* `Bootstrap`, `Plan`, `Dispatch`, `Guard`, `Begin`: until a worker is at work. A task whose only Change is
  APPROVED counts as ungoverned for bootstrapper, guard and completion hook (`Unlinked`).
* `CheckLease`, `Prove`, `Finish`, `Throw`: `completeGovernedTask`, whose two writes to the Change and
  one to the task are separate.
* `ReadTask`, `Decide`, `Converge`, `SettleFailure`, `Escalate`, `ApplyVerdict`, `Preflight`,
  `Reserve`, `Advance`: `runGovernedSdlc` and the outcome of a review.
* `Route`, `Recheck`, `ClaimRepair`, `SubmitRepair`, `Trouble`: `routeRepairAttempt`.
* `Activate`, `StartScan`, `TimerFires`, `Scan...`, `StartReconcile`, `Compare`, `Reconcile`: recovery.
* People move the task, leases run out, the host crashes and restarts.

Slips: `second_change`, the bootstrapper makes a second Change for a task whose Change is APPROVED, by a task
notification or a startup rescan before the task is done (`lifecycle-bootstrap.js` 42 to 68, `change-store.js` 888
to 926): the task is then stuck in (in_review, DRAFT), which neither the lifecycle table nor a recovery rule knows;
`late_bootstrap`, the task has left the active states while the bootstrapper awaited its lookup; `ungoverned_dispatch`, a
task passes the guard before its Change exists or after it is APPROVED; `late_review`, REVIEW is entered at a revision that came in meanwhile; `unguarded_done`, a
move to done while no snapshot exists; `stale_result`, an older proof is shown, by a completion or by
the recovery of half of one;
`unrecorded`, a crash between the move to failed and the escalation audit (3022); `late_settlement`, a failed verdict is applied
to a Change that has moved on; `repair_dropped`, the lease timer releases a task whose
repair proof is on file, before or after the recovery fails it (`index.js` 417, 474); `late_repair`, the repair
is claimed after the round moved on;
`repair_stranded`, `submitRepair` does not check the lease (3385).

### ControllerHandoff (`service.js` 1900 to 2090, `r2-handoff-producer.js`, `index.js`)

`plan[s]` is a `startControllerOwnedPlanning`, `armed`, `emitted`, `eval` and `hints` the producer,
`bridge`, `wanted`, `op` and `completed` the coalescing bridge and its handoffs; all are lost
when the host restarts. `Arm` is followed by `scan`, which evaluates the candidates one by one and awaits each
(`Scan`), and only then is the producer `subscribed` (`Subscribe`); until that, notifications and events reach nobody.

Slips: `planner_outlived`, the claim ends between the second read and the binding; `claimed_back`, the
planner's session claims again between release and dispatch; `hint_lost`, a wake-up joins an
evaluation that has read "not ready" already (`r2-handoff-producer.js` 384); `unsubscribed`, a plan is accepted or
a task claimed after `arm` looked at it and before it subscribes (413 to 481); `unresolved`, the worker profile of the
task does not resolve, or a read throws, and nothing wakes the producer when that changes (272 to 332); `other_task` and
`worker_refused`, `dispatchOnce` is given a profile and no task, so it may take another one, or
a refused one at the head of the line.

### ProjectBoard (`store.js`, `plan-import.js`)

`project`, `milestone`, `task`, `deps` and `links` are the tables; each store call is one
transaction, foreign keys are part of the action that fires them. `import[i]` is an
`applyPlanImport` under way, a sequence of such calls. Slips: `moved`, `updateMilestone`
changes the project of a milestone whose tasks stay; `partial`, an import stopped half-way,
still runs, or its rows or its prerequisites were edited (`RemoveDependency` among them), which a replay cannot see.

### WorkerSession (`dispatcher.js`)

`createSessionLauncher` and its `wait`, from `session.create` to the outcome, and the session:
its prompts, whose turn it is, its events. `Extract` is `extractWorkerCompletion`. Slips: a
prompt by somebody else, a cancellation that is refused, a history that cannot be read.
The history is complete, as the adapter of the production host returns it.

## 4. Runs

| Run | Instance | Shows |
|---|---|---|
| `store_rows` | 1 task, 2 workers, all statuses, lease 2, lock wait 1, attempts at most 2 | types, `AuditReplays`, `LeaseHonoured` |
| `store_graph` | 3 tasks, 1 worker | `DependenciesSound` |
| `dispatch` | 1 task, 2 runs (one governed), a manager, a guard on `ready`, crashes, lease 2, lock wait 1, fairness | refinement of `TaskStore` (`Spec`), `NoClobber`, `OneAttemptPerLaunch`, `DispatchEnds` |
| `change_rounds` | 1 Change, 2 sessions, 2 plan revisions, 2 plan contents, 2 workspace revisions, 2 reviews, risk 2 | types, `ApprovedIsReviewed`, `BlockingIsClaimed` |
| `hosts` | 2 processes, 2 Changes, 2 sessions, 2 workspace revisions, 8 files at the start, 3 operations, 1 fault | types, `LockExcludes`, `WritesAreOperations`, `StaleWritersKeep` |
| `claim` | 2 hosts, 2 sessions, 2 requests, removals of the lock that fail, no slip | types, `ReviewerIsRecorded`, refinement of `ReviewerSlot` (`ImplementsSlot`) |
| `claim_wait` | 2 hosts, 1 session, 2 requests, `lock_grabbed`, fairness | `WaitEnds` |
| `governed` | 2 fibers, 2 runs, 1 repair round, 1 crash, no policy, no slip | types, `ReviewIsPreflighted`, `ResultIsProof`, `PairIsKnown`, `EscalationIsRecorded` |
| `governed_live` | 1 fiber, 2 runs, 1 repair round, 1 crash, 2 moves by people, a policy, all slips, fairness | `DoneIsApproved`, `ApprovedConverges`, `RepairIsResumed` |
| `handoff` | 2 tasks, one planned, 2 sessions, 2 startups or restarts, all slips, fairness | types, `PlannerOwnsTask`, `DispatchedOnce`, `HandoffServed` |
| `board` | 2 projects, 2 milestones, 3 tasks, 3 plans (two of one label), 2 importers, 3 edits, all slips | types, `MilestoneInProject`, `ParentsAcyclic`, `ImportIsComplete` |
| `session` | 2 call ids, 3 calls and results, 2 foreign prompts | types, `SuccessIsOwn`, `ProofIsOwn`, `NoOrphan` |

*Bounds.* No action of the ledger touches two rows except through prerequisites, so one
task carries the row properties and three tasks are the smallest graph with a cycle that
is closed in two steps beside a third node. Two workers are one holder and one rival;
properties speak of pairs. A lease of 2 with a wait of 1 has every order of reading the
clock, expiring and committing. `AttemptBound` 2 has one free attempt after a retry. With one
task a run's only candidate is won, lost or gone when its turn comes.

An operation on a Change touches another one only by comparing work items at its
creation, and that no two nonterminal ones share one is a theorem, so `change_rounds` has one Change.
Two sessions are a worker and a reviewer, two workers, or one that changes roles; two plan
revisions have one that supersedes another; two reviews have findings of an earlier
round beside those of a later one.

In `hosts` the files at the start are the stages of a Change's life, a Change with a satisfied
gate, whose risk can be raised, and two Changes of which one is in preflight, so that three
operations reach what takes a dozen from an empty file. Three are one that goes stale, one
that overtakes it and one that follows; a preflight persist counts as one. One fault is a
crash inside the lock, which a second process then judges and removes, or a persist that
fails and is followed by another. A second Change is there to be overwritten by a writer
that works on the first.

In `claim` a second session and a second request are what a duplicate reviewer needs; a third
host would only repeat what one of the two can do under its own name, since a lock that is left behind
makes even two of them grab and put back a lock that is not the one they saw. `claim_wait` has
two requests because its property ends when the last is used up.
In `governed` one repair round has a first proof, a failed review, a repair and the
escalation after it; two fibers are a call and one that overtakes it.
In `handoff` the second task is there to be dispatched instead of the first; with three
startups or restarts the safety properties held too (8.4 million states). In `board` three edits
undo, redo and contradict an import of a project with a milestone, two tasks and a
prerequisite. In `session` three events are a call, its result and one too many; four gave
the same (18.8 million states).

*Symmetry* is used on workers, tasks, sessions, processes, fibers, importers and calls, in runs with safety properties only.

*Deadlock* is checked for the ledger, the dispatcher and the two Change modules. In the others
a behaviour may stop: all hosts are dead, the bounded runs, edits or startups are used up,
or the session is over.

### Fairness

* `FairDispatchSpec`: weak fairness of `Progress(r)` for each run: a promise
  that a run awaits settles (`preflight`, guard, launch, hook, and `terminate`, which kills
  the process or cancels the session and swallows its failure) and the timeout timer fires.
  `List` (nobody has to dispatch), `Renew`, `WorkerBegins`, `WorkerEnds`, `Crash`, the
  manager and the clock are not fair: nothing in the code makes a worker end. That a guard,
  a launch or a completion hook settles is an assumption on these callbacks: the code sets
  no timeout round them.
* `ReviewerClaim!FairSpec`: a live process goes on with its reservation and leases run out
  (weak); the lock that is free again and again is created in the end, since waiters poll in turn with
  no priority, and a history that can be read again and again is read in the end (strong). No reviewer has to
  end its turn and no host to wake; `WaitEnds` therefore allows a wait that its deadline ends. It is
  checked where no removal of the lock fails and with two hosts. Waiters that
  keep taking each other's locks by mistake, half-written or with a lease that runs, can starve one another, and
  nothing in the code prevents that; since it takes endless repetitions of a race of a few file operations, fairness
  assumes that it ends some time (`GrabsLive`). `WaitEnds` is false without that assumption.
* `GovernedTask!FairSpec`: a call that was begun goes on, because its waits have timeouts (weak); an event, a scan
  or a timer finds a free fiber (strong, because fibers are only a bound: the host has no
  limit); an abandoned lease runs out and a host that is down is started again.
* `ControllerHandoff!FairSpec`: promises that producer and bridge await settle. No session has to
  plan, no plan to be accepted, no worker to end and no lease to run out.

### Refinements

`Dispatcher` implements `TaskStore` (run `dispatch`, and a theorem). `ReviewerClaim` implements
`ReviewerSlot` with the sessions at work as `reviewers` and any slip as `exposed` (run `claim`, and a theorem).
`ChangeStore` writes what an operation of `ChangeLifecycle` would (`WritesAreOperations`): a write departs from the
operation it is for only if another writer came in since it read, which for light operations
nothing prevents, or after a persist of the same process that failed.

### Where the code and its documents disagree

Met while modelling; the models follow the code.

* *Ledger.* `claim` tests the attempt limit before the expired lease, so a lost
  worker on its last attempt leaves a task nobody can claim (`store.js` 1012;
  `task-orchestrator/README.md:85`). `block` takes a failed task to `blocked`, which `KNOWN_TRANSITIONS`
  does not have, and it keeps `completed_at` (`README.md:79`, `:87`).
* *Dispatcher.* A process that cannot be spawned costs an attempt: `spawn` fails by an event that arrives after
  `start` has counted it (`dispatcher.js` 69 to 74, 93 to 107, 273), where `docs/WORKER-DISPATCH-PLAN.md:304` lets no failed
  launch consume one. `releaseOrRevert` takes any `already_claimed` for a third party (`dispatcher.js` 178). The lease is
  renewed only in `monitor`, so a slow guard or launch outlives it (`docs/WORKER-DISPATCH-PLAN.md:339`).
  A hook that throws fails the task, which `service.js` 757 says is still running.
* *ChangeStore.* A repair that returns to a revision an earlier repair delivered goes unrecorded
  (`change-store.js` 2553). Without a named session an attempt goes to the first bound
  worker, so a submitting worker may later review itself (1675, 2168). `setRisk` says it invalidates
  the gates of the previous level and deletes them in memory (1793), but the merge keeps the ones on
  file (703); harmless, because a gate counts for its own level only (1832). Two processes can
  settle the same review and one verdict is lost (2120).
* *Reviewer claim.* Adoption and reuse return without `ensureRoundRequestAudit` (`service.js` 2517 to 2560), which
  2717 says is called exactly once.
* *Pair.* `index.js` 558 promises a governed task exactly one linked Change, and the header of
  `lifecycle-bootstrap.js` exactly one that is nonterminal. The lookup skips APPROVED Changes, so a task in review whose
  Change was just approved gets a second one, and neither the settled event nor a restart takes it to done any more.
  The same header speaks of four active states where six are. A first
  proof whose completion is cut off is not resumed by a restart, and a repair whose lease is lost while the host stays up only by one.
* *Handoff.* `arm` subscribes after it has evaluated the candidates (413 to 481), and nothing looks at them again,
  so a plan accepted in between is lost for good. The second owner read narrows the window before a planner is bound and does not close it
  (1905). A handoff that failed is never requested again. A controller lease that lapses while
  planning strands the task until somebody claims it.
* *Import.* A partial import is answered as replayed for ever (`plan-import.js` 592), though 560 calls it
  idempotent; the conflict check and the creation are separate, so two processes can import two versions
  of one label; `apply` resolves an ambiguous title that `preview` warns of (646).
* *Session.* A foreign turn that ends last decides, and its calls fail a good run; when a session was created but
  could not be recorded it is not cancelled (reviewers).

## 5. Proofs

All for arbitrary tasks, workers, lease lengths, lock waits, Changes, sessions, hosts, fibers,
revisions, projects, plans, call ids and bounds, under the assumption each module names: null values
differ from real ones (from numbers, states and whole records), risks are 1 to 3, bounds are naturals and
the files a store starts from hold records. The theorems about `TaskStore` are with those about
`Dispatcher`, those about `ChangeLifecycle` with those about `ChangeStore`.

| Theorem | Statement | Argument |
|---|---|---|
| `LedgerInvariant` | `Spec => [](LedgerTypeOK /\ ClaimShape /\ AuditReplays)` | the conjunction is inductive: `AuditReplays` for `releaseExpiredClaim` needs `ClaimShape`, since it logs an event for an update it did not test; `LedgerKeepsTypes` is its first part |
| `LeasesAreHonoured` | `LeaseHonoured` | from the invariant; only `Claim` changes the owner, and of a held row only when the lease has passed |
| `TerminalStaysTerminal` | `TerminalIsFinal` | from the invariant and `KNOWN_TRANSITIONS` |
| `GuardsAreNotBypassed` | `NoVetoedTransition` | one case per operation |
| `DependenciesStaySound` | `DependenciesSound` | acyclicity is stated as "no non-empty set of tasks each of which has a prerequisite in the set"; adding an edge that passes the cycle check keeps it (`DependencyGraphProofs`) |
| `DispatcherImplementsLedger` | `DispatchSpec => Spec` | every action of a run is an action of the ledger or leaves it alone |
| `DispatchersNeverClobber` | `NoClobber` | a store call of a run needs its own live claim, a ready row or an expired lease |
| `RunsGiveUpClaims` | `ClaimGivenUp` | strengthened with the fact that only runs between claim and outcome own their task's claim |
| `DispatchTypes`, `LaunchesAreCharged` | `DispatchTypeOK`, `OneAttemptPerLaunch` | `AttemptsCounted`: no run has a worker, not even a stillborn one, before its launch, and a task has no more attempts than runs that are past it; `start`, which counts one, moves one run past its launch |
| `LifecycleIsSafe`, `ChangesKeepTypes`, `BlockingStaysClaimed` | `LifecycleSpec => [](LifecycleTypeOK /\ ApprovedIsReviewed /\ OneAcceptedPlan /\ BlockingIsClaimed /\ OneChangePerItem)` and parts of it | `Sound(c)` gathers the facts of one record and is preserved by each `With...` (an operation that adds attempts or bindings cannot run in APPROVED, one that adds a review does so together with the new state). One lemma lifts it to all Changes. `OneChangePerItem` compares two of them: only `Create` sets an item, and no operation leaves APPROVED. It is about nonterminal Changes: an APPROVED one can have one of them beside it |
| `AcceptedPlansStay` | `AcceptedPlanIsImmutable` | from the invariant: an edit needs a plan that is PLANNED, and a new revision is appended |
| `ProcessesExclude` | `LockExcludes`, for any number of processes, operations and faults | until the lock is breached it belongs to the process of whoever is inside, to each process with a positive count and to each writer that will remove it; entering, leaving, crashing and removing a stale lock each keep this |
| `StoreKeepsTypes` | `StoreTypeOK` | `LifeInv` on file, each copy and pending write a well-typed record, and `Counted`: a process counts at most its own entries, of which there are three |
| `WritesAreLifecycleOperations`, `StaleWritersKeepAlways` | `WritesAreOperations`, `StaleWritersKeep` | see below |
| `HandoffTypeOK`, `OneDispatch`, `PlannerOwns` | `TypeOK`, `DispatchedOnce`, `PlannerOwnsTask` | `Inv == TypeOK /\ PlanOK /\ MadeOK /\ OwnerOK`: a handoff is counted where its operation becomes one that no request starts again, and a session that is about to bind still owns its task unless a slip happened |
| `ReferencesAreKept`, `MilestonesStayInProject`, `ParentsStayAcyclic` | `TypeOK`, `MilestoneInProject`, `ParentsAcyclic` | `Tables /\ Imports /\ Counters /\ MilestoneInProject /\ ParentsAcyclic`: deletions null or take every reference in the same transaction; a new parent is no descendant, so the relation stays acyclic by the lemmas about prerequisites |
| `ImportsAreComplete` | `ImportIsComplete` | on top of these, `Progress` while nothing slipped: an import past its first write has on the board all but what it still has to write, and a project that carries a label is complete or has such an import at work; an edit that is no slip takes nothing from it |
| `ClaimTypes`, `ReviewerAlwaysRecorded` | `TypeOK`, `ReviewerIsRecorded` | `ClaimInvariant`: `Places` says at any time what a host carries at each stage; `Locked` and `Round`, while nothing slipped, that whoever is in the critical section owns a live lock, that a launch runs under a live record of its own request whose session nobody has bound, adopted or observed, that a host that decides finds no live record, and that whoever is at work is the record's session |
| `ClaimImplementsSlot` | `ImplementsSlot` | from that invariant: only a prompt that is accepted puts a session to work, and then nobody else is at work and no verdict was given; every other step stutters or ends a turn |
| `GovernedTypes`, `GovernedDone`, `GovernedReview`, `GovernedResult`, `GovernedPair`, `GovernedEscalation` | `TypeOK`, `DoneIsApproved`, `ReviewIsPreflighted`, `ResultIsProof`, `PairIsKnown`, `EscalationIsRecorded` | `GovernedInvariant`, in three layers: `Books`, whatever slips (who holds the task, which run handed in which revision, no two fibers with the same run); `Round`, while nothing slipped (the proof of the run that holds the task is the one in PREFLIGHT, and nobody is about to take it into review); `Alone`, while, besides, no person moved the task (which statuses go with which states). While nothing slipped there is no second Change (`Single`), so `GovernedPair`, which speaks of the Change a lookup finds, does not say that the bootstrapper leaves approved tasks alone: it does not |
| `SessionKeepsTypes`, `SuccessesAreOwn`, `ProofsAreOwn`, `NothingIsOrphaned` | `TypeOK`, `SuccessIsOwn`, `ProofIsOwn`, `NoOrphan` | `OnceOwn`, the prompt is sent once and is queued, worked on or done; `Alone`, without a slip everything after the baseline is the run's; `Answered`, a result of a call follows a call of its id in the same turn; `Settled`, after a success nothing is to come |

Stated and proved without a run: `ClaimShape`, `TerminalIsFinal`, `NoVetoedTransition`, `ClaimGivenUp`,
`OneAcceptedPlan`, `AcceptedPlanIsImmutable`, `OneChangePerItem`.

The proof of `GovernedInvariant` failed at first for good reasons: with more runs than the instances had, a
repair can be claimed after the round moved on, the lease timer can release a task before the recovery
has failed it, and the recovery of half a completion can show an older proof. TLC confirmed
each with three runs; they are now among the slips. `PairIsKnown`, on the other hand, needs no quiet
controller: the theorem has it at every moment.

The two theorems about the merge rest on three things. `Effect(c, d)` is what every operation does to a record
`c` as far as the merge is concerned: plans and attempts on file keep their places, of the attempts only new
ids are added, reviews, claims and bindings change only where the operation sets a flag. `MergedIs` says what the merge
computes from a memory that is the file with such an effect on one Change (the operation's record), and
`MergedIsSame` what it computes from a memory without one (the file); both need that `MergedAttempts`,
which orders the new attempts by counting the places before them, returns exactly these attempts
in order, for sequences of any length. The induction that takes is one over places,
by the least counterexample (`LeastElement`). `HostInv` then relates each process to the file at every moment: which flags a
process without an operation can have (`Clean`), what it is about to write (`Sent`, `Snapshot`), what is in its memory if
nobody wrote behind its back (`Basis`, `MemIs`), and, however old the memory is, that what it has to say is about the
Change of its operation (`Own`, `Idler`).

Attempting them found two errors in the model and one in a property. `PushEvent` put the whole record in
memory, with the gates that `setRisk` had just deleted there; the job of a raised risk had no gates, while no persist
deletes any; neither was within the old instance, which now has a gated Change. And
`StaleWritersKeep` asked that the plans of another Change stay as they are, where a preflight persist
of the same process can have dropped a plan that the next persist adds again: what holds
is that every plan on file is kept. TLC shows the first version false with two Changes at the start.

Only model-checked: liveness (`DispatchEnds`, `WaitEnds`, `ApprovedConverges`, `RepairIsResumed`,
`HandoffServed`). Liveness under fairness and `ENABLED` are out of the prover's reach.

## 6. Not modelled

See "components" in `PROJECT.json` for each part and its reason.

* *Pure decisions without state:* the filesystem policy and the change tools, validation of
  worker specs, worker preflight, the reviewer launcher's configuration, parsing of policies, plans and
  envelopes, the checks of the preflight runner. The models take their verdict as a choice, which has every outcome.
* *Surfaces:* HTTP routes, tool wrappers and the UI client forward calls to the modelled operations; `lib/` is a build copy of `src/`.
* *Budgets, required checks and governance modes* of a Change, and the G4 guard: they only refuse calls,
  and no property here depends on a refusal; leaving them out adds behaviour.
* *The agent-teams adapter* forwards to another package. The *page limit* of an explicit RPC client, which
  reads only the last 500 events of a session, and *criterion results*, which no operation reads.

Next would come the budgets, whose counters are merged by maximum across processes
(`change-store.js` 2599).
