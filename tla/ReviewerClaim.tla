---------------------------- MODULE ReviewerClaim ----------------------------
(***************************************************************************)
(* The durable reviewer claim of one review round (one Change at one       *)
(* revision): host processes that share the task workspace agree through   *)
(* a claim file and a reclaim-lock file on which of them launches the      *)
(* reviewer, adopt what a crashed process launched, and relaunch when a    *)
(* reviewer turn ends without a verdict.                                   *)
(*                                                                         *)
(* A crashed process never comes back: its successor has another identity  *)
(* (hostname:pid) and is another element of Host.  The claim is written by *)
(* tmp + rename, so a reader sees a whole record; the lock is created and  *)
(* then written, so a reader may find it empty.                            *)
(* A claim or a lock is live until its lease runs out.  The steps that the *)
(* protocol cannot keep apart from the others are named in `slips`.        *)
(***************************************************************************)
EXTENDS Naturals

CONSTANTS Host,         \* the host processes
          Session,      \* the sessions the launcher can create
          None,         \* no host, session, request or record
          MaxRequests,  \* bound: claims created for the round
          Windows       \* the slips and failures an instance lets happen

Slips == {"lock_grabbed", "claim_overwritten", "turn_cut_off",
          "reviewer_stranded", "lease_outlived"}

VARIABLES claim,        \* the claim file: None or a record
          lock,         \* the reclaim-lock file: None or a record
          grab,         \* the lock file a host renamed to its own grab name
          pc,           \* where each host's reservation is
          job,          \* the session, request, lock owner and continuation
                        \* a reservation works with
          watch,        \* each host's observer of each reviewer turn
          turn,         \* what the session service knows of each session
          bound,        \* sessions bound to the Change as reviewer
          audited,      \* requests with a review_round_requested audit
          settled,      \* a verdict moved the Change out of REVIEW
          created,      \* claims created so far: the last request id
          slips         \* the slips that happened

locks == <<lock, grab>>
service == <<turn, settled>>
change == <<bound, audited>>
vars == <<claim, locks, pc, job, watch, service, change, created, slips>>

Requests == 1 .. MaxRequests
ClaimRecord == [session : Session \union {None},
                request : Requests \union {None},
                sent : BOOLEAN, live : BOOLEAN]
LockRecord == [owner : Host, live : BOOLEAN]

ASSUME ClaimAssumption ==
  /\ None \notin Host /\ None \notin Session
  /\ MaxRequests \in Nat /\ None \notin Nat
  /\ None \notin ClaimRecord \union LockRecord
  /\ Windows \subseteq Slips \union {"lock_left"}

Holding == {"locked", "probe", "unsent", "create", "adopt_delivered",
            "adopt_probed", "mark_adopted", "release", "unlink"}
Launching == {"launch", "record", "prompt", "mark", "bind"}
Stages == {"idle", "look", "adopt", "lock", "grab", "compare", "verify",
           "cancel", "discard", "audit_adopted", "audit", "attach", "dead"}
          \union Holding \union Launching

NoJob == [session |-> None, request |-> None, owner |-> None, then |-> "idle"]
NoWatch == [stage |-> "off", request |-> None]

TypeOK ==
  /\ claim \in ClaimRecord \union {None}
  /\ lock \in LockRecord \union {None}
  /\ grab \in [Host -> LockRecord \union {None}]
  /\ pc \in [Host -> Stages]
  /\ job \in [Host -> [session : Session \union {None},
                       request : Requests \union {None},
                       owner : Host \union {None},
                       then : {"idle", "look", "launch", "audit_adopted", "attach"}]]
  /\ watch \in [Host -> [Session ->
                [stage : {"off", "on", "expire", "unbind", "rebuild"},
                 request : Requests \union {None}]]]
  /\ turn \in [Session -> {"unused", "open", "live", "ended", "gone"}]
  /\ bound \subseteq Session
  /\ audited \subseteq Requests
  /\ settled \in BOOLEAN
  /\ created \in 0 .. MaxRequests
  /\ slips \subseteq Windows

Init ==
  /\ claim = None /\ lock = None
  /\ grab = [h \in Host |-> None]
  /\ pc = [h \in Host |-> "idle"]
  /\ job = [h \in Host |-> NoJob]
  /\ watch = [h \in Host |-> [s \in Session |-> NoWatch]]
  /\ turn = [s \in Session |-> "unused"]
  /\ bound = {} /\ audited = {} /\ settled = FALSE
  /\ created = 0 /\ slips = {}

(* Records.                                                                *)
HasSession(r) == r # None /\ r.session # None
Confirmed(r) == HasSession(r) /\ r.session \in bound
Stale(r) == r # None /\ ~r.live
Ambiguous(r) == Stale(r) /\ HasSession(r) /\ ~r.sent
Delivered(r) == Stale(r) /\ HasSession(r) /\ r.sent

Record(s, r, sent, live) ==
  [session |-> s, request |-> r, sent |-> sent, live |-> live]

Goto(h, stage) == pc' = [pc EXCEPT ![h] = stage]
GotoAfresh(h, stage) == /\ Goto(h, stage)
                        /\ job' = [job EXCEPT ![h] = NoJob]
GotoWith(h, stage, s, r) ==
  /\ Goto(h, stage)
  /\ job' = [job EXCEPT ![h].session = s, ![h].request = r]
Leave(h, stage, s, r) ==
  /\ Goto(h, "release")
  /\ job' = [job EXCEPT ![h].session = s, ![h].request = r, ![h].then = stage]
Resume(h) == /\ Goto(h, job[h].then)
             /\ job' = [job EXCEPT ![h].then = "idle"]
Slip(kind) == slips' = slips \union {kind}

-----------------------------------------------------------------------------
(* A reservation outside the lock.                                         *)

(* runGovernedReview is called for the round (a wake, a duplicate wake, a  *)
(* restart); the in-process tail lock lets one reservation of a host run.  *)
Wake(h) == /\ pc[h] = "idle" /\ ~settled
           /\ Goto(h, "look")
           /\ UNCHANGED <<claim, locks, job, watch, service, change, created, slips>>

(* The round's confirmed binding is reused.                                *)
Reuse(h) == /\ pc[h] = "look" /\ Confirmed(claim)
            /\ GotoWith(h, "attach", claim.session, claim.request)
            /\ UNCHANGED <<claim, locks, watch, service, change, created, slips>>

\* Slip: a stale record is adopted though it names no session.
FindAnyStale(h) ==
  /\ pc[h] = "look" /\ Stale(claim) /\ claim.request # None
  /\ GotoWith(h, "adopt", claim.session, claim.request)
  /\ UNCHANGED <<claim, locks, watch, service, change, created, slips>>

(* A stale record of a sent request: its session is adopted at once.       *)
FindDelivered(h) ==
  /\ pc[h] = "look" /\ ~Confirmed(claim) /\ Delivered(claim)
  /\ GotoWith(h, "adopt", claim.session, claim.request)
  /\ UNCHANGED <<claim, locks, watch, service, change, created, slips>>

Adopt(h) == /\ pc[h] = "adopt"
            /\ bound' = bound \union {job[h].session}
            /\ Goto(h, "attach")
            /\ UNCHANGED <<claim, locks, job, watch, service, audited, created, slips>>

(* No record, or a stale one whose request is not known to be delivered:   *)
(* the lock is needed.  A live record is waited on by staying in "look".   *)
SeekLock(h) ==
  /\ pc[h] = "look" /\ ~Confirmed(claim)
  /\ claim = None \/ (Stale(claim) /\ ~Delivered(claim))
  /\ Goto(h, "lock")
  /\ UNCHANGED <<claim, locks, job, watch, service, change, created, slips>>

(* The wait ends at its deadline, or the controller is disposed.           *)
GiveUp(h) == /\ pc[h] \in {"look", "lock"}
             /\ GotoAfresh(h, "idle")
             /\ UNCHANGED <<claim, locks, watch, service, change, created, slips>>

-----------------------------------------------------------------------------
(* acquireReclaimLock: exclusive create; a stale lock is renamed away and  *)
(* discarded if it is the one that was read, else put back.                *)

CreateLock(h) == /\ pc[h] = "lock" /\ lock = None
                 /\ lock' = [owner |-> h, live |-> TRUE]
                 /\ Goto(h, "verify")
                 /\ UNCHANGED <<claim, grab, job, watch, service, change, created, slips>>

\* Slip: only a lock of one's own is reclaimed.
ObserveOwnStale(h) == /\ pc[h] = "lock" /\ Stale(lock) /\ lock.owner = h
                      /\ Goto(h, "grab")
                      /\ job' = [job EXCEPT ![h].owner = lock.owner]
                      /\ UNCHANGED <<claim, locks, watch, service, change, created, slips>>

ObserveStale(h) == /\ pc[h] = "lock" /\ Stale(lock)
                   /\ Goto(h, "grab")
                   /\ job' = [job EXCEPT ![h].owner = lock.owner]
                   /\ UNCHANGED <<claim, locks, watch, service, change, created, slips>>

(* The lock's owner has created the file, and may not have written it yet. *)
HalfWritten(r) == r # None /\ r.live /\ pc[r.owner] = "verify"

(* An empty lock counts as stale too; it names no owner.                   *)
ObserveEmpty(h) == /\ pc[h] = "lock" /\ HalfWritten(lock)
                   /\ Goto(h, "grab")
                   /\ job' = [job EXCEPT ![h].owner = None]
                   /\ UNCHANGED <<claim, locks, watch, service, change, created, slips>>

(* The rename takes whatever lock is in the slot now.                      *)
Grab(h) ==
  /\ pc[h] = "grab"
  /\ \/ /\ lock = None /\ GotoAfresh(h, "lock")
        /\ UNCHANGED <<locks, slips>>
     \/ /\ lock # None /\ Goto(h, "compare") /\ UNCHANGED job
        /\ lock' = None
        /\ grab' = [grab EXCEPT ![h] = lock]
        /\ IF lock.live THEN /\ "lock_grabbed" \in Windows
                             /\ Slip("lock_grabbed")
                        ELSE UNCHANGED slips
  /\ UNCHANGED <<claim, watch, service, change, created>>

DiscardGrabbed(h) ==
  /\ pc[h] = "compare"
  /\ \/ grab[h] = [owner |-> job[h].owner, live |-> FALSE]
     \/ job[h].owner = None /\ HalfWritten(grab[h])
  /\ grab' = [grab EXCEPT ![h] = None]
  /\ GotoAfresh(h, "lock")
  /\ UNCHANGED <<claim, lock, watch, service, change, created, slips>>

(* A newer lock goes back, unless the slot was filled meanwhile.           *)
RestoreGrabbed(h) ==
  /\ pc[h] = "compare"
  /\ grab[h] # [owner |-> job[h].owner, live |-> FALSE]
  /\ lock' = IF lock = None THEN grab[h] ELSE lock
  /\ grab' = [grab EXCEPT ![h] = None]
  /\ GotoAfresh(h, "lock")
  /\ UNCHANGED <<claim, watch, service, change, created, slips>>

VerifyLock(h) ==
  /\ pc[h] = "verify"
  /\ Goto(h, IF lock # None /\ lock.owner = h /\ lock.live THEN "locked" ELSE "lock")
  /\ UNCHANGED <<claim, locks, job, watch, service, change, created, slips>>

-----------------------------------------------------------------------------
(* The critical section: the claim is read again and (re)created, adopted, *)
(* or left alone.                                                          *)

Revalidate(h) ==
  /\ pc[h] = "locked"
  /\ \/ /\ Confirmed(claim)
        /\ Leave(h, "attach", claim.session, claim.request)
     \/ /\ ~Confirmed(claim) /\ Ambiguous(claim)
        /\ GotoWith(h, "probe", claim.session, claim.request)
     \/ /\ ~Confirmed(claim) /\ Delivered(claim)
        /\ GotoWith(h, "adopt_delivered", claim.session, claim.request)
     \/ /\ claim = None \/ (Stale(claim) /\ ~HasSession(claim))
        /\ GotoWith(h, "create", None, None)
     \/ /\ claim # None /\ claim.live /\ ~Confirmed(claim)
        /\ Leave(h, "look", None, None)
  /\ UNCHANGED <<claim, locks, watch, service, change, created, slips>>

(* The launcher's probe of an ambiguous request: sent when the session's   *)
(* history holds the request marker, unsent when the session is gone or a  *)
(* complete history lacks it, unknown whenever the history is unreadable.  *)
Probe(h) ==
  /\ pc[h] = "probe"
  /\ \/ /\ turn[job[h].session] \in {"live", "ended"}
        /\ Goto(h, "adopt_probed") /\ UNCHANGED job
     \/ /\ turn[job[h].session] \notin {"live", "ended"}
        /\ Goto(h, "unsent") /\ UNCHANGED job
     \/ Leave(h, "look", None, None)
  /\ UNCHANGED <<claim, locks, watch, service, change, created, slips>>

(* The recorded session is bound; after a probe the send is then marked.   *)
AdoptLocked(h) ==
  /\ \/ /\ pc[h] = "adopt_delivered"
        /\ Leave(h, "audit_adopted", job[h].session, job[h].request)
     \/ /\ pc[h] = "adopt_probed"
        /\ Goto(h, "mark_adopted") /\ UNCHANGED job
  /\ bound' = bound \union {job[h].session}
  /\ UNCHANGED <<claim, locks, watch, service, audited, created, slips>>

MarkAdopted(h) ==
  /\ pc[h] = "mark_adopted"
  /\ claim' = Record(job[h].session, job[h].request, TRUE, TRUE)
  /\ Leave(h, "audit_adopted", job[h].session, job[h].request)
  /\ UNCHANGED <<locks, watch, service, change, created, slips>>

ExpireUnsent(h) ==
  /\ pc[h] = "unsent"
  /\ claim' = Record(None, job[h].request, FALSE, FALSE)
  /\ Goto(h, "create")
  /\ UNCHANGED <<locks, job, watch, service, change, created, slips>>

(* A fresh request identity is persisted before anything is launched.      *)
CreateClaim(h) ==
  /\ pc[h] = "create" /\ created < MaxRequests
  /\ created' = created + 1
  /\ claim' = Record(None, created + 1, FALSE, TRUE)
  /\ Leave(h, "launch", None, created + 1)
  /\ UNCHANGED <<locks, watch, service, change, slips>>

(* releaseReclaimLock reads the owner, then removes the file; a removal    *)
(* that fails is ignored, and the lock left to its lease.                  *)
Release(h) ==
  /\ pc[h] = "release"
  /\ IF lock # None /\ lock.owner = h THEN Goto(h, "unlink") /\ UNCHANGED job
                                      ELSE Resume(h)
  /\ UNCHANGED <<claim, locks, watch, service, change, created, slips>>

Unlink(h) ==
  /\ pc[h] = "unlink"
  /\ lock' = None \/ ("lock_left" \in Windows /\ UNCHANGED lock)
  /\ Resume(h)
  /\ UNCHANGED <<claim, grab, watch, service, change, created, slips>>

(* The adopter repairs the audit a crashed owner may not have written.     *)
AuditAdopted(h) ==
  /\ pc[h] = "audit_adopted"
  /\ audited' = audited \union {job[h].request}
  /\ Goto(h, "attach")
  /\ UNCHANGED <<claim, locks, job, watch, service, bound, created, slips>>
-----------------------------------------------------------------------------
(* The launch, outside the lock and under the claim's request identity.    *)

CreateSession(h) ==
  /\ pc[h] = "launch"
  /\ \/ \E s \in Session :
           /\ turn[s] = "unused"
           /\ turn' = [turn EXCEPT ![s] = "open"]
           /\ GotoWith(h, "record", s, job[h].request)
     \/ /\ Goto(h, "discard") /\ UNCHANGED <<turn, job>>
  /\ UNCHANGED <<claim, locks, watch, settled, change, created, slips>>

\* Slip: the session is recorded only once the prompt is accepted.
RecordNothing(h) ==
  /\ pc[h] = "record"
  /\ Goto(h, "prompt")
  /\ UNCHANGED <<claim, locks, job, watch, service, change, created, slips>>

(* recordCreated: the session is recorded before the prompt, unsent.       *)
RecordCreated(h) ==
  /\ pc[h] = "record"
  /\ claim' = Record(job[h].session, job[h].request, FALSE, TRUE)
  /\ Goto(h, "prompt")
  /\ UNCHANGED <<locks, job, watch, service, change, created, slips>>

(* session.prompt is accepted, or fails; a failed call may have delivered  *)
(* the request all the same.                                               *)
Prompt(h) ==
  /\ pc[h] = "prompt"
  /\ \/ /\ turn' = [turn EXCEPT ![job[h].session] = "live"]
        /\ Goto(h, "mark") \/ Goto(h, "cancel")
     \/ /\ Goto(h, "cancel") /\ UNCHANGED turn
  /\ UNCHANGED <<claim, locks, job, watch, settled, change, created, slips>>

(* recordSent, and recordSession with the same record after the launch.    *)
RecordSent(h) ==
  /\ pc[h] = "mark"
  /\ claim' = Record(job[h].session, job[h].request, TRUE, TRUE)
  /\ Goto(h, "bind")
  /\ UNCHANGED <<locks, job, watch, service, change, created, slips>>

(* The reviewer role is bound, or the binding fails.                       *)
BindRole(h) ==
  /\ pc[h] = "bind"
  /\ \/ /\ bound' = bound \union {job[h].session}
        /\ Goto(h, "audit")
     \/ Goto(h, "cancel") /\ UNCHANGED bound
  /\ UNCHANGED <<claim, locks, job, watch, service, audited, created, slips>>

(* A failed launch cancels its session; a cancel that fails is ignored.    *)
Cancel(h) ==
  LET s == job[h].session IN
  /\ pc[h] = "cancel" /\ Goto(h, "discard")
  /\ \/ /\ turn' = [turn EXCEPT ![s] = IF @ = "live" THEN "ended" ELSE @]
        /\ UNCHANGED slips
     \/ /\ UNCHANGED turn
        /\ IF turn[s] = "live" THEN /\ "reviewer_stranded" \in Windows
                                    /\ Slip("reviewer_stranded")
                               ELSE UNCHANGED slips
  /\ UNCHANGED <<claim, locks, job, watch, settled, change, created>>

(* ... and expires the claim, so that the next wake launches at once.      *)
DiscardSession(h) ==
  /\ pc[h] = "discard"
  /\ claim' = Record(None, None, FALSE, FALSE)
  /\ GotoAfresh(h, "idle")
  /\ UNCHANGED <<locks, watch, service, change, created, slips>>

AuditRequested(h) ==
  /\ pc[h] = "audit"
  /\ audited' = audited \union {job[h].request}
  /\ watch' = [watch EXCEPT ![h][job[h].session].stage = "on"]
  /\ GotoAfresh(h, "idle")
  /\ UNCHANGED <<claim, locks, service, bound, created, slips>>

-----------------------------------------------------------------------------
(* Observing the reviewer's turn.                                          *)

(* A reservation that converged on an existing session observes it if the  *)
(* round's record still names it.                                          *)
Reattach(h) ==
  LET s == job[h].session IN
  /\ pc[h] = "attach" /\ GotoAfresh(h, "idle")
  /\ watch' = IF HasSession(claim) /\ claim.session = s /\ watch[h][s].stage = "off"
              THEN [watch EXCEPT ![h][s].stage = "on"] ELSE watch
  /\ UNCHANGED <<claim, locks, service, change, created, slips>>

\* Slip: the state of the Change is not looked at.
TurnObservedBlindly(h, s) ==
  /\ watch[h][s].stage = "on" /\ turn[s] # "live"
  /\ HasSession(claim) /\ claim.session = s
  /\ watch' = [watch EXCEPT ![h][s] = [stage |-> "expire", request |-> claim.request]]
  /\ UNCHANGED <<claim, locks, pc, job, service, change, created, slips>>

(* wait() resolves when the turn ended; it rejects, with the same effect,  *)
(* when the session's history cannot be read, the turn over or not.        *)
TurnObserved(h, s) ==
  /\ watch[h][s].stage = "on"
  /\ IF settled \/ ~HasSession(claim) \/ claim.session # s
     THEN /\ turn[s] # "live"
          /\ watch' = [watch EXCEPT ![h][s] = NoWatch]
          /\ UNCHANGED slips
     ELSE /\ watch' = [watch EXCEPT ![h][s] =
                         [stage |-> "expire", request |-> claim.request]]
          /\ IF turn[s] = "live" THEN /\ "turn_cut_off" \in Windows
                                      /\ Slip("turn_cut_off")
                                 ELSE UNCHANGED slips
  /\ UNCHANGED <<claim, locks, pc, job, service, change, created>>

(* expireReviewerRound rewrites the record it has read, without the lock.  *)
ExpireRound(h, s) ==
  /\ watch[h][s].stage = "expire"
  /\ claim' = Record(None, watch[h][s].request, FALSE, FALSE)
  /\ watch' = [watch EXCEPT ![h][s].stage = "unbind"]
  /\ IF claim = None \/ claim.session # s
     THEN /\ "claim_overwritten" \in Windows
          /\ Slip("claim_overwritten")
     ELSE UNCHANGED slips
  /\ UNCHANGED <<locks, pc, job, service, change, created>>

Unbind(h, s) ==
  /\ watch[h][s].stage = "unbind"
  /\ bound' = bound \ {s}
  /\ watch' = [watch EXCEPT ![h][s].stage = "rebuild"]
  /\ UNCHANGED <<claim, locks, pc, job, service, audited, created, slips>>

(* One fresh request: runGovernedReview again, behind the host's tail lock.*)
Rebuild(h, s) ==
  /\ watch[h][s].stage = "rebuild" /\ pc[h] = "idle"
  /\ watch' = [watch EXCEPT ![h][s] = NoWatch]
  /\ Goto(h, IF settled THEN "idle" ELSE "look")
  /\ UNCHANGED <<claim, locks, job, service, change, created, slips>>

(* A disposed controller throws at the next check: out of the critical     *)
(* section it releases the lock, out of a launch it cleans nothing up, and *)
(* its observers stop where they are.                                      *)
Dispose(h) ==
  /\ \/ /\ pc[h] \in {"locked", "probe", "unsent", "create", "adopt_probed",
                     "adopt_delivered", "mark_adopted"}
        /\ Leave(h, "idle", None, None)
     \/ /\ pc[h] \in {"idle", "look", "adopt", "lock", "launch", "record", "prompt",
                     "mark", "bind", "audit", "audit_adopted", "attach"}
        /\ GotoAfresh(h, "idle")
  /\ watch' = [watch EXCEPT ![h] = [s \in Session |-> NoWatch]]
  /\ UNCHANGED <<claim, locks, service, change, created, slips>>

-----------------------------------------------------------------------------
(* The session service, the clock and crashes.                             *)

(* A turn ends; a session whose turn is over may be deleted.               *)
TurnEnds(s) ==
  /\ \/ turn[s] = "live" /\ turn' = [turn EXCEPT ![s] = "ended"]
     \/ turn[s] = "ended" /\ turn' = [turn EXCEPT ![s] = "gone"]
  /\ UNCHANGED <<claim, locks, pc, job, watch, settled, change, created, slips>>

(* A reviewer's verdict settles the round if the round's record names its  *)
(* session and the session is bound.                                       *)
Verdict(s) ==
  /\ ~settled /\ turn[s] = "live" /\ s \in bound
  /\ HasSession(claim) /\ claim.session = s
  /\ settled' = TRUE
  /\ UNCHANGED <<claim, locks, pc, job, watch, turn, change, created, slips>>

(* A live host whose launch runs under the claim, or that holds the lock.  *)
Launches(h) == \/ pc[h] \in Launching \union {"cancel", "discard"}
               \/ pc[h] \in {"release", "unlink"} /\ job[h].then = "launch"
Outlives(late) == IF late THEN /\ "lease_outlived" \in Windows
                               /\ Slip("lease_outlived")
                          ELSE UNCHANGED slips

ClaimLeaseEnds ==
  /\ claim # None /\ claim.live
  /\ claim' = [claim EXCEPT !.live = FALSE]
  /\ Outlives(\E h \in Host : Launches(h) /\ job[h].request = claim.request)
  /\ UNCHANGED <<locks, pc, job, watch, service, change, created>>

LockLeaseEnds ==
  /\ lock # None /\ lock.live
  /\ lock' = [lock EXCEPT !.live = FALSE]
  /\ Outlives(pc[lock.owner] \in Holding \union {"verify"})
  /\ UNCHANGED <<claim, grab, pc, job, watch, service, change, created>>

Crash(h) ==
  /\ pc[h] # "dead"
  /\ GotoAfresh(h, "dead")
  /\ watch' = [watch EXCEPT ![h] = [s \in Session |-> NoWatch]]
  /\ UNCHANGED <<claim, locks, service, change, created, slips>>

Reserve(h) == \/ Wake(h) \/ Reuse(h) \/ FindDelivered(h) \/ Adopt(h)
              \/ SeekLock(h) \/ GiveUp(h)
LockStep(h) == \/ CreateLock(h) \/ ObserveStale(h) \/ ObserveEmpty(h)
               \/ Grab(h) \/ DiscardGrabbed(h) \/ RestoreGrabbed(h)
               \/ VerifyLock(h)
Critical(h) == \/ Revalidate(h) \/ Probe(h) \/ AdoptLocked(h)
               \/ MarkAdopted(h) \/ ExpireUnsent(h) \/ CreateClaim(h)
               \/ Release(h) \/ Unlink(h) \/ AuditAdopted(h)
Launch(h) == \/ CreateSession(h) \/ RecordCreated(h) \/ Prompt(h)
             \/ RecordSent(h) \/ BindRole(h) \/ Cancel(h)
             \/ DiscardSession(h) \/ AuditRequested(h)
Observe(h, s) == \/ TurnObserved(h, s) \/ ExpireRound(h, s) \/ Unbind(h, s)
                 \/ Rebuild(h, s)
Outside == \/ \E s \in Session : TurnEnds(s) \/ Verdict(s)
           \/ ClaimLeaseEnds \/ LockLeaseEnds
           \/ \E h \in Host : Crash(h)

Next == \/ \E h \in Host : \/ Reserve(h) \/ LockStep(h) \/ Critical(h)
                           \/ Launch(h) \/ Reattach(h) \/ Dispose(h)
                           \/ \E s \in Session : Observe(h, s)
        \/ Outside

Spec == Init /\ [][Next]_vars

-----------------------------------------------------------------------------
(* Scheduling: a live process goes on with its reservation, a lease that   *)
(* nobody renews runs out, and a history that can be read again and again  *)
(* is read in the end.  Hosts poll with pauses in between, so the race in  *)
(* which one of them renames a lock just taken is not run for ever.        *)
(* Nothing makes a reviewer end its turn, a host wake or the deadline of a *)
(* wait fall.                                                              *)
Progress(h) == \/ Reuse(h) \/ FindDelivered(h) \/ Adopt(h) \/ SeekLock(h)
               \/ LockStep(h) \/ Critical(h) \/ Launch(h) \/ Reattach(h)
GrabsLive(h) == Grab(h) /\ grab'[h] # None /\ grab'[h].live
Answered(h) == Probe(h) /\ pc'[h] # "release"

Fairness == /\ \A h \in Host : /\ WF_vars(Progress(h))
                               /\ SF_vars(Answered(h)) /\ SF_vars(CreateLock(h))
                               /\ <>[][~GrabsLive(h)]_vars
            /\ WF_vars(ClaimLeaseEnds) /\ WF_vars(LockLeaseEnds)

FairSpec == Spec /\ Fairness

-----------------------------------------------------------------------------
AtWork == {s \in Session : turn[s] = "live"}

(* A reviewer at work is named by the durable record, whatever crashed     *)
(* ("adopted, never re-launched, never orphaned").                         *)
ReviewerIsRecorded ==
  slips = {} => \A s \in AtWork : claim # None /\ claim.session = s

(* The claim implements the slot of the round: a request reaches a session *)
(* only when no reviewer is at work and no verdict was given.              *)
Slot == INSTANCE ReviewerSlot WITH reviewers <- AtWork, exposed <- slips # {}
ImplementsSlot == Slot!SlotSpec

(* A reservation that waits on others does not wait for ever: it reuses or *)
(* adopts a session, launches one, or its host stops, unless the round has *)
(* used up the claims the instance allows.                                 *)
WaitEnds == \A h \in Host :
  pc[h] = "look" ~> \/ pc[h] \in {"idle", "dead", "launch", "attach"}
                    \/ created = MaxRequests
=============================================================================
