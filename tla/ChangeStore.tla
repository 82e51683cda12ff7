------------------------------ MODULE ChangeStore ------------------------------
(***************************************************************************)
(* How ChangeStore (change-control/src/storage/change-store.js) keeps the  *)
(* Changes of ChangeLifecycle in one JSON file that several host processes *)
(* share.  `change' is now the content of that file.  Each host has a copy *)
(* of it in memory; an operation refreshes the copy, validates and changes *)
(* it, and persists it, which merges what it changed with what is on file. *)
(*                                                                         *)
(* Within a process operations queue up (acquireLock), so a host has one   *)
(* operation under way, "op".  Besides it runPreflight persists its        *)
(* results without queueing, "pre".  Across processes there is a lock      *)
(* directory, re-entrant within a process.  Some operations hold it from   *)
(* before they refresh (acquireWriteLock), the others, called light here,  *)
(* only while they persist.                                                *)
(*                                                                         *)
(* A plan is known by its revision and event ids are unique.  A lock is    *)
(* held by a dead process when it is judged stale: nobody holds it for     *)
(* more than 30 seconds alive.                                             *)
(***************************************************************************)
EXTENDS ChangeLifecycle, FiniteSets

CONSTANTS Host,        \* processes that opened the file
          NoLock,      \* the lock directory does not exist
          Stale,       \* it does, and the process that made it is dead
          StartFile,   \* contents of the file at the start
          OpBound,     \* bound on the operations of all hosts
          FaultBound   \* bound on crashes and failing persists

ASSUME StoreFileAssumption ==
    /\ {NoLock, Stale} \cap (Host \X {"op", "pre"}) = {} /\ NoLock # Stale
    /\ OpBound \in Nat /\ FaultBound \in Nat
    /\ Change # {} /\ StartFile \subseteq [Change -> Record]

Writer == {"op", "pre"}

VARIABLES host,      \* what each process has in memory
          at,        \* at[h][w]: how far writer w of process h is
          held,      \* processes whose operation holds the lock throughout
          lock,      \* NoLock, Stale, or <<process, writer>> that made it
          depth,     \* diskLockDepth of each process
          makers,    \* <<h, w>>: w removes the lock directory when it leaves
          judged,    \* hosts that found the lock stale and will remove it
          ops, faults,
          \* The rest is history that no guard reads.
          behind,    \* <<h, w>>: somebody wrote since w took its basis
          torn,      \* <<h, w>>: somebody wrote since w merged
          failed,    \* hosts whose last operation could not persist
          breached   \* the lock went while somebody was inside

ghosts == <<behind, torn, failed, breached>>
disk   == <<lock, depth, makers>>
vars   == <<change, host, at, held, disk, judged, ops, faults, ghosts>>

Stage == {"idle", "mutated", "ready", "merged"}

\* What the operation under way does: the record it makes of which Change.
Job == [x : Change, rec : Record]

Process ==
    [mem    : [Change -> Record],
     events : SUBSET Change,    \* Changes with audit events not on file
     bound  : SUBSET (Change \X Session),    \* #dirtyBindings
     gone   : SUBSET (Change \X Session),    \* #removedBindings
     reviewed : SUBSET Change,  \* #dirtyReviews
     claimed  : SUBSET Change,  \* #dirtyRepairClaims
     job    : Job,
     out    : [Writer -> [Change -> Record]],  \* what w is about to write
     sent   : [Writer -> SUBSET Change]]       \* the events in it

AllIdle == [w \in Writer |-> "idle"]
Nothing == [x \in Change |-> Absent]
NoJob   == [x |-> CHOOSE x \in Change : TRUE, rec |-> Absent]

\* #load: a process that has just opened the file.
Opened(ch) ==
    [mem |-> ch, events |-> {}, bound |-> {}, gone |-> {}, reviewed |-> {}, claimed |-> {},
     job |-> NoJob, out |-> [w \in Writer |-> Nothing], sent |-> [w \in Writer |-> {}]]

-----------------------------------------------------------------------------
\* #refreshChange: all is read from the file, but where the file has no
\* repair claims or gates for a Change the ones in memory stay.
Kept(c, m) == [c EXCEPT !.claims = IF @ = {} THEN m.claims ELSE @,
                        !.gates  = IF @ = {} THEN m.gates ELSE @]

Refreshed(h) == [x \in Change |-> Kept(change[x], host[h].mem[x])]

\* A process that has refreshed is not behind any more, unless it kept something.
UpToDate(h) == IF Refreshed(h) = change THEN behind \ {<<h, "op">>} ELSE behind

\* Slip: memory only adds revisions.
AddedPlans(d, m, mine) ==
    [i \in DOMAIN d.plans \cup DOMAIN m.plans |->
        IF i \in DOMAIN d.plans THEN d.plans[i] ELSE m.plans[i]]

\* The plans on file, overlaid by those in memory that are newer, or by all
\* if this process has something to say about the Change.
MergedPlans(d, m, mine) ==
    [i \in DOMAIN d.plans \cup DOMAIN m.plans |->
        IF i \in DOMAIN m.plans /\ (mine \/ i \notin DOMAIN d.plans)
          THEN m.plans[i] ELSE d.plans[i]]

\* Slip: the attempts in memory replace those on file.
LocalAttempts(d, m) == IF m.attempts # <<>> THEN m.attempts ELSE d.attempts

\* The places of the attempts in memory whose id is not on file, and these
\* attempts in their order.
NewPlaces(d, m) ==
    {k \in DOMAIN m.attempts : \A i \in DOMAIN d.attempts :
        \/ d.attempts[i].kind # m.attempts[k].kind
        \/ d.attempts[i].rev # m.attempts[k].rev}

InOrder(s, places) ==
    [n \in 1 .. Cardinality(places) |->
        s[CHOOSE k \in places : Cardinality({i \in places : i <= k}) = n]]

MergedAttempts(d, m) == d.attempts \o InOrder(m.attempts, NewPlaces(d, m))

\* #persistUnderLock for one Change: d on file, m in memory.
MergedRecord(p, x, d, m) ==
    LET mine  == x \in p.events
        known == m.state # "ABSENT"
        own   == mine /\ known
    IN  [state    |-> IF own THEN m.state ELSE d.state,
         item     |-> IF own THEN m.item ELSE d.item,
         accepted |-> IF own THEN m.accepted ELSE d.accepted,
         plans    |-> MergedPlans(d, m, mine),
         bindings |-> [s \in Session |->
                          IF <<x, s>> \in p.gone THEN "none"
                          ELSE IF <<x, s>> \in p.bound /\ m.bindings[s] # "none"
                                 THEN m.bindings[s] ELSE d.bindings[s]],
         attempts |-> MergedAttempts(d, m),
         proof    |-> IF m.proof # NoRevision THEN m.proof ELSE d.proof,
         reviews  |-> IF x \in p.reviewed /\ m.reviews # <<>> THEN m.reviews ELSE d.reviews,
         claims   |-> IF x \in p.claimed THEN m.claims ELSE d.claims,
         risk     |-> IF known /\ (mine \/ d.state # "ABSENT") THEN m.risk ELSE d.risk,
         gates    |-> IF m.gates # {} THEN m.gates ELSE d.gates]

Merged(h) ==
    [x \in Change |-> MergedRecord(host[h], x, change[x], host[h].mem[x])]

-----------------------------------------------------------------------------
\* The lock directory and the count that makes it re-entrant.

\* Slip: re-entrant for everybody.
AnyoneEnters(h) == lock \in {NoLock} \cup (Host \X Writer)

CanEnter(h) == depth[h] > 0 \/ lock = NoLock

Enter(h, w) ==
    /\ CanEnter(h)
    /\ depth' = [depth EXCEPT ![h] = @ + 1]
    /\ lock' = IF depth[h] = 0 THEN <<h, w>> ELSE lock
    /\ makers' = IF depth[h] = 0 THEN makers \cup {<<h, w>>} ELSE makers

InSection(h, w) ==
    \/ at[h][w] = "merged"
    \/ w = "op" /\ h \in held

\* How often w has entered.
Entries(h, w) == (IF at[h][w] = "merged" THEN 1 ELSE 0)
                   + (IF w = "op" /\ h \in held THEN 1 ELSE 0)

\* Its maker removes the directory and forgets the count, also if another
\* section of the process, which entered after it, is still inside, and
\* whoever made the directory that is there by now.
Leave(h, w) ==
    LET made == <<h, w>> \in makers
        left == IF depth[h] > Entries(h, w) THEN depth[h] - Entries(h, w) ELSE 0
    IN  /\ at' = [at EXCEPT ![h][w] = "idle"]
        /\ held' = IF w = "op" THEN held \ {h} ELSE held
        /\ lock' = IF made THEN NoLock ELSE lock
        /\ depth' = [depth EXCEPT ![h] = IF made THEN 0 ELSE left]
        /\ makers' = makers \ {<<h, w>>}
        /\ breached' = (breached \/ (made /\ \E u \in Writer \ {w} : InSection(h, u)))

\* A waiter finds the lock of a dead process by its age and removes it by its
\* name, which by then may be another one's.
Judge(h) ==
    /\ lock = Stale /\ h \notin judged
    /\ judged' = judged \cup {h}
    /\ UNCHANGED <<change, host, at, held, disk, ops, faults, ghosts>>

Reap(h) ==
    /\ h \in judged
    /\ judged' = judged \ {h} /\ lock' = NoLock
    /\ breached' = (breached \/ lock \notin {NoLock, Stale})
    /\ UNCHANGED <<change, host, at, held, depth, makers, ops, faults, behind, torn, failed>>

-----------------------------------------------------------------------------
\* The part of an operation that is in memory while it reads the highest
\* event id: a new plan and attempt and submitProof's proof follow together
\* with the audit event.
Early(c, d) ==
    [d EXCEPT !.attempts = c.attempts,
              !.plans = [i \in DOMAIN c.plans |-> d.plans[i]],
              !.gates = IF d.risk # c.risk THEN {} ELSE @,
              !.proof = IF c.state = "IMPLEMENTING" /\ d.state = "PREFLIGHT"
                          THEN c.proof ELSE @]

\* In memory setRisk has deleted the gates by then; the file keeps them.
InMemory(m, d) == [d EXCEPT !.gates = m.gates]

\* An operation that finds v in memory makes d of Change x.  Its audit event
\* follows "later", is there "now", or there is none ("never").
Begin(h, v, x, d, locked, event) ==
    LET c     == v[x]
        bound == {x} \X {s \in Session : d.bindings[s] \notin {"none", c.bindings[s]}}
        gone  == {x} \X {s \in Session : d.bindings[s] = "none" /\ c.bindings[s] # "none"}
    IN  /\ at[h]["op"] = "idle" /\ ops < OpBound
        /\ IF locked THEN Enter(h, "op") ELSE UNCHANGED disk
        /\ held' = IF locked THEN held \cup {h} ELSE held
        /\ at' = [at EXCEPT ![h]["op"] = IF event = "later" THEN "mutated" ELSE "ready"]
        /\ host' = [host EXCEPT ![h] = [host[h] EXCEPT
              !.mem = [v EXCEPT ![x] = IF event = "later" THEN Early(c, d) ELSE d],
              !.events = IF event = "now" THEN @ \cup {x} ELSE @,
              !.job = [x |-> x, rec |-> [d EXCEPT !.gates =
                                           IF @ = {} THEN change[x].gates ELSE @]],
              !.bound = (@ \ gone) \cup bound,
              !.gone = @ \cup gone,
              !.reviewed = IF d.reviews # c.reviews THEN @ \cup {x} ELSE @,
              !.claimed = IF c.state = "REPAIR" /\ d.state = "PREFLIGHT"
                            THEN @ \cup {x} ELSE @]]
        /\ ops' = ops + 1
        /\ UNCHANGED <<change, judged, faults, torn, failed, breached>>

\* An operation that refreshes first, on Change x.
Call(h, x, d, locked, event) ==
    Begin(h, Refreshed(h), x, d, locked, event) /\ behind' = UpToDate(h)

Locked(h, x, d) == Call(h, x, d, TRUE, "later")
Light(h, x, d)  == Call(h, x, d, FALSE, "later")

\* The id of a new Change is new: nothing is known by it anywhere.
Unused(x) ==
    /\ change[x] = Absent
    /\ \A h \in Host : /\ host[h].mem[x] = Absent
                       /\ at[h]["op"] # "idle" => host[h].job.x # x
                       /\ \A w \in Writer : host[h].out[w][x] = Absent

-----------------------------------------------------------------------------
\* Operations of a host

HostCreate(h, x) ==
    \E item \in WorkItem :
        /\ Unused(x)
        /\ CanCreate([Refreshed(h) EXCEPT ![x] = Absent], x, item)
        /\ Locked(h, x, WithNew(Absent, item))

\* Without a work item create neither locks nor refreshes.
HostCreateUnlinked(h, x) ==
    /\ Unused(x)
    /\ Begin(h, host[h].mem, x, WithNew(Absent, NoItem), FALSE, "later")
    /\ UNCHANGED behind

HostSubmitPlan(h, x) ==
    LET c == Refreshed(h)[x]
    IN  CanSubmitPlan(c) /\ \E k \in Content : Locked(h, x, WithPlan(c, k))

HostAcceptPlan(h, x) ==
    LET c == Refreshed(h)[x]
    IN  CanAcceptPlan(c) /\ Locked(h, x, WithAcceptedPlan(c))

HostUpdatePlan(h, x) ==
    LET c == Refreshed(h)[x]
    IN  \E i \in 1 .. PlanBound, k \in Content :
            CanUpdatePlan(c, i) /\ Call(h, x, WithUpdatedPlan(c, i, k), TRUE, "now")

HostTransition(h, x) ==
    LET c == Refreshed(h)[x]
    IN  \E to \in State : CanTransition(c, to) /\ Locked(h, x, WithState(c, to))

\* bindRole leaves no audit event.
HostBindRole(h, x) ==
    LET c == Refreshed(h)[x]
    IN  \E s \in Session, b \in Binding \ {"none"} :
            CanBind(c, s) /\ Call(h, x, WithBinding(c, s, b), TRUE, "never")

HostUnbindRole(h, x) ==
    LET c == Refreshed(h)[x]
    IN  \E s \in Session : CanUnbind(c, s) /\ Locked(h, x, WithBinding(c, s, "none"))

HostSubmitProof(h, x) ==
    LET c == Refreshed(h)[x]
    IN  \E rev \in Revision, s, by \in Session :
            CanSubmitProof(c, s, by) /\ Light(h, x, WithProof(c, rev, s, by))

\* invalidateProof neither.
HostInvalidateProof(h, x) ==
    LET c == Refreshed(h)[x]
    IN  CanInvalidateProof(c) /\ Call(h, x, WithoutProof(c), FALSE, "never")

HostSubmitReview(h, x) ==
    LET c == Refreshed(h)[x]
    IN  \E s \in Session, o \in Outcome :
            CanSubmitReview(c, s) /\ Light(h, x, WithReview(c, s, o))

HostSubmitRepair(h, x) ==
    LET c == Refreshed(h)[x]
    IN  \E rev \in Revision, s \in Session \cup {NoSession}, by \in Session :
            CanSubmitRepair(c, rev, s, by) /\ Light(h, x, WithRepair(c, rev, s, by))

HostSetRisk(h, x) ==
    LET c == Refreshed(h)[x]
    IN  \E level \in Risk : CanSetRisk(c, level) /\ Light(h, x, WithRisk(c, level))

HostRecordGate(h, x) ==
    LET c == Refreshed(h)[x]
    IN  CanRecordGate(c) /\ Light(h, x, WithGate(c))

\* appendAudit does not refresh: its event speaks for what is in memory.
HostAppendAudit(h, x) ==
    LET m == host[h].mem
    IN  /\ m[x].state # "ABSENT"
        /\ Begin(h, m, x, m[x], FALSE, "later")
        /\ UNCHANGED behind

\* A read (getReview, findByWorkItem, getBudget and others).
HostRead(h) ==
    /\ at[h]["op"] = "idle"
    /\ host' = [host EXCEPT ![h].mem = Refreshed(h)]
    /\ behind' = UpToDate(h)
    /\ UNCHANGED <<change, at, held, disk, judged, ops, faults, torn, failed, breached>>

\* runPreflight and the preflight runner find a Change in memory whose proof
\* is current and store the results; the move to REVIEW is an operation.
HostPreflight(h) ==
    /\ at[h]["pre"] = "idle" /\ ops < OpBound
    /\ at[h]["op"] = "idle"      \* get and getProof queue up
    /\ \E x \in Change : /\ host[h].mem[x].state = "PREFLIGHT"
                         /\ \/ host[h].mem[x].proof \in Revision
                            \/ /\ host[h].mem[x].proof = NoRevision
                               /\ change[x].proof \in Revision
    /\ at' = [at EXCEPT ![h]["pre"] = "ready"]
    /\ ops' = ops + 1
    /\ UNCHANGED <<change, host, held, disk, judged, faults, ghosts>>

Operate(h, x) ==
    \/ HostCreate(h, x) \/ HostCreateUnlinked(h, x)
    \/ HostSubmitPlan(h, x) \/ HostAcceptPlan(h, x) \/ HostUpdatePlan(h, x)
    \/ HostTransition(h, x) \/ HostBindRole(h, x) \/ HostUnbindRole(h, x)
    \/ HostSubmitProof(h, x) \/ HostInvalidateProof(h, x)
    \/ HostSubmitReview(h, x) \/ HostSubmitRepair(h, x)
    \/ HostSetRisk(h, x) \/ HostRecordGate(h, x) \/ HostAppendAudit(h, x)

-----------------------------------------------------------------------------
\* The rest of an operation

PushEvent(h) ==
    LET j == host[h].job
    IN  /\ at[h]["op"] = "mutated"
        /\ at' = [at EXCEPT ![h]["op"] = "ready"]
        /\ host' = [host EXCEPT ![h].mem[j.x] = InMemory(@, j.rec),
                                ![h].events = @ \cup {j.x}]
        /\ UNCHANGED <<change, held, disk, judged, ops, faults, ghosts>>

\* #persist: the lock, unless this process has it, then the merge.
Merge(h, w) ==
    /\ at[h][w] = "ready" /\ Enter(h, w)
    /\ at' = [at EXCEPT ![h][w] = "merged"]
    /\ host' = [host EXCEPT ![h].out[w] = Merged(h),
                            ![h].sent[w] = host[h].events]
    /\ behind' = IF /\ w = "pre"
                    /\ <<h, "op">> \in behind \/ at[h]["op"] # "idle"
                   THEN behind \cup {<<h, w>>} ELSE behind
    /\ UNCHANGED <<change, held, judged, ops, faults, torn, failed, breached>>

\* The writer is done, in one way or another.
Idle(p, w) ==
    [p EXCEPT !.out[w] = Nothing, !.sent[w] = {},
              !.job = IF w = "op" THEN NoJob ELSE @]

\* A write overtakes whatever other writers have read: the memory of other
\* processes and what is about to be written.  The memory of its own process
\* is behind when something else is on file now.
Overtaken(h, w) ==
    {v \in (Host \X Writer) \ {<<h, w>>} :
        \/ at[v[1]][v[2]] = "merged"
        \/ v[2] = "op" /\ (v[1] # h \/ at[v[1]][v[2]] # "idle")}
    \cup (IF h \in failed \/ <<h, w>> \in behind THEN {<<h, "op">>} ELSE {})

\* writeJson, the flags it clears, and the end of the operation.
Write(h, w) ==
    /\ at[h][w] = "merged"
    /\ change' = host[h].out[w]
    /\ host' = [host EXCEPT ![h] = [Idle(host[h], w) EXCEPT
                   !.events = @ \ host[h].sent[w],
                   !.bound = {}, !.gone = {}, !.reviewed = {}, !.claimed = {}]]
    /\ Leave(h, w)
    /\ behind' = (IF w = "pre" THEN behind \ {<<h, w>>} ELSE behind) \cup Overtaken(h, w)
    /\ torn' = (torn \ {<<h, w>>}) \cup
                 {v \in (Host \X Writer) \ {<<h, w>>} : at[v[1]][v[2]] = "merged"}
    /\ failed' = IF w = "op" THEN failed \ {h} ELSE failed
    /\ UNCHANGED <<judged, ops, faults>>

\* The lock times out or the file cannot be written: the caller gets an
\* error, what the operation did stays in memory.
PersistFails(h, w) ==
    /\ at[h][w] \in {"ready", "merged"} /\ faults < FaultBound
    /\ host' = [host EXCEPT ![h] = Idle(host[h], w)]
    /\ Leave(h, w)
    /\ faults' = faults + 1
    /\ behind' = IF w = "pre" THEN behind \ {<<h, w>>} ELSE behind
    /\ torn' = torn \ {<<h, w>>}
    /\ failed' = IF w = "op" THEN failed \cup {h} ELSE failed
    /\ UNCHANGED <<change, judged, ops>>

\* The process dies and is started again; to start later is to read later.
Crash(h) ==
    /\ faults < FaultBound /\ faults' = faults + 1
    /\ host' = [host EXCEPT ![h] = Opened(change)]
    /\ at' = [at EXCEPT ![h] = AllIdle] /\ held' = held \ {h}
    /\ lock' = IF lock \in {h} \X Writer THEN Stale ELSE lock
    /\ depth' = [depth EXCEPT ![h] = 0] /\ makers' = makers \ ({h} \X Writer)
    /\ judged' = judged \ {h}
    /\ behind' = behind \ ({h} \X Writer) /\ torn' = torn \ ({h} \X Writer)
    /\ failed' = failed \ {h}
    /\ UNCHANGED <<change, ops, breached>>

-----------------------------------------------------------------------------
StoreInit ==
    /\ change \in StartFile
    /\ host = [h \in Host |-> Opened(change)]
    /\ at = [h \in Host |-> AllIdle] /\ held = {}
    /\ lock = NoLock /\ depth = [h \in Host |-> 0] /\ makers = {} /\ judged = {}
    /\ ops = 0 /\ faults = 0
    /\ behind = {} /\ torn = {} /\ failed = {} /\ breached = FALSE

StoreNext ==
    \E h \in Host :
        \/ \E x \in Change : Operate(h, x)
        \/ HostRead(h) \/ HostPreflight(h) \/ PushEvent(h)
        \/ \E w \in Writer : Merge(h, w) \/ Write(h, w) \/ PersistFails(h, w)
        \/ Crash(h) \/ Judge(h) \/ Reap(h)

StoreSpec == StoreInit /\ [][StoreNext]_vars

-----------------------------------------------------------------------------
StoreTypeOK ==
    /\ LifecycleTypeOK
    /\ host \in [Host -> Process]
    /\ at \in [Host -> [Writer -> Stage]] /\ held \subseteq Host
    /\ lock \in {NoLock, Stale} \cup (Host \X Writer)
    /\ depth \in [Host -> 0 .. 3] /\ makers \subseteq Host \X Writer
    /\ judged \subseteq Host /\ failed \subseteq Host
    /\ behind \subseteq Host \X Writer /\ torn \subseteq Host \X Writer
    /\ ops \in 0 .. OpBound /\ faults \in 0 .. FaultBound /\ breached \in BOOLEAN

\* Each persist does to the file exactly what its operation decided, which is
\* an operation of ChangeLifecycle, and a persist of audit events or preflight
\* results changes no record: unless another writer wrote since the operation
\* read, or the persist before this one of the process failed.
WritesAreOperations ==
    [][\A h \in Host, w \in Writer :
          Write(h, w) /\ <<h, w>> \notin behind /\ h \notin failed =>
              IF w = "op"
                THEN /\ change' = [change EXCEPT ![host[h].job.x] = host[h].job.rec]
                     /\ LifecycleNext \/ UNCHANGED change
                ELSE UNCHANGED change]_vars

\* However old the memory of the writer is, as long as nobody wrote between
\* its merge and its write, it keeps every attempt, the bindings of other
\* sessions and, of the Changes it has no event for, the state, the plans,
\* the reviews and the claims.
MergeKeeps(h, x) ==
    LET c == change[x]
        d == host[h].out["op"][x]
        j == host[h].job
    IN  /\ Len(c.attempts) <= Len(d.attempts)
        /\ SubSeq(d.attempts, 1, Len(c.attempts)) = c.attempts
        /\ \A s \in Session : d.bindings[s] # c.bindings[s] =>
              x = j.x /\ d.bindings[s] = j.rec.bindings[s]
        /\ x # j.x => /\ d.state = c.state
                      /\ \A i \in DOMAIN c.plans : i \in DOMAIN d.plans /\ d.plans[i] = c.plans[i]
                      /\ d.reviews = c.reviews /\ d.claims = c.claims

StaleWritersKeep ==
    [][\A h \in Host, x \in Change :
          Write(h, "op") /\ <<h, "op">> \notin torn /\ h \notin failed => MergeKeeps(h, x)]_vars

\* Two processes are never inside the lock together, unless the lock went
\* while somebody was inside: removed by a second waiter that had judged its
\* predecessor stale, or by its maker while another section of the same
\* process was in it.
LockExcludes ==
    breached \/ \A g, h \in Host : \A u, w \in Writer :
                    InSection(g, u) /\ InSection(h, w) => g = h
=============================================================================
