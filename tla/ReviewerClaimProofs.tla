------------------------- MODULE ReviewerClaimProofs -------------------------
(***************************************************************************)
(* Proofs about the durable reviewer claim: its type invariant, that the   *)
(* record names every reviewer at work, and that the claim implements the  *)
(* slot of the round, as long as no slip happened.                         *)
(*                                                                         *)
(* The inductive invariant has two parts.  Places holds whatever slips     *)
(* happened: what a reservation carries at each of its stages.  Locked and *)
(* Round hold while slips = {}: a host in the critical section owns a live lock; one  *)
(* that decides about the claim finds no live record; a launch runs under  *)
(* a live record of its own request, whose session nobody else has bound,  *)
(* adopted or observed; and whoever is at work is the record's session.    *)
(***************************************************************************)
EXTENDS ReviewerClaim, TLAPS

Job == [session : Session \union {None}, request : Requests \union {None},
        owner : Host \union {None},
        then : {"idle", "look", "launch", "audit_adopted", "attach"}]
Watch == [stage : {"off", "on", "expire", "unbind", "rebuild"},
          request : Requests \union {None}]

(* The sessions a request may have reached, and who carries one of them.   *)
Begun == {s \in Session : turn[s] \in {"live", "ended", "gone"}}
Leaving(h, stages) == pc[h] \in {"release", "unlink"} /\ job[h].then \in stages
Adopts(h) == \/ pc[h] \in {"adopt", "adopt_delivered", "adopt_probed", "mark_adopted",
                           "audit_adopted", "attach"}
             \/ Leaving(h, {"audit_adopted", "attach"})
Follows(h) == Adopts(h) \/ pc[h] = "audit"
Opened(h) == pc[h] \in {"record", "prompt"}

Place(h) ==
  /\ Follows(h) => job[h].session \in Begun
  /\ Adopts(h) \/ Launches(h) \/ pc[h] \in {"audit", "probe", "unsent"} =>
       job[h].request \in Requests
  /\ pc[h] \in {"probe", "unsent", "cancel"} => job[h].session \in Session
  /\ Opened(h) => job[h].session \in Session /\ turn[job[h].session] = "open"
  /\ pc[h] \in {"mark", "bind"} => job[h].session \in Begun

Apart == \A g, h \in Host :
  Opened(g) /\ Opened(h) /\ job[g].session = job[h].session => g = h
Known ==
  /\ bound \subseteq Begun
  /\ \A h \in Host, s \in Session : watch[h][s].stage # "off" => s \in Begun
  /\ HasSession(claim) => claim.request # None /\ (claim.sent => claim.session \in Begun)
Places == (\A h \in Host : Place(h)) /\ Apart /\ Known

(* The critical section.                                                   *)
Holds(h) == pc[h] \in Holding \union {"verify"}
Locked == \A h \in Host : Holds(h) => lock = [owner |-> h, live |-> TRUE]

(* A launch and its record.                                                *)
Free == claim = None \/ ~claim.live
Early(h) == pc[h] \in {"launch", "record"} \/ Leaving(h, {"launch"})
Fresh == /\ claim.session \notin bound
         /\ \A g \in Host, s \in Session : watch[g][s].stage # "off" => s # claim.session
         /\ \A g \in Host : Follows(g) => job[g].session # claim.session
Owned(h) == Launches(h) =>
  /\ claim # None /\ claim.live /\ claim.request = job[h].request
  /\ \A g \in Host : Launches(g) => g = h
  /\ ~settled
  /\ Early(h) => claim.session = None
  /\ pc[h] \in {"prompt", "mark", "bind", "cancel"} => claim.session = job[h].session
  /\ pc[h] \notin {"mark", "bind", "cancel"} => AtWork = {}
  /\ Fresh

(* What a host in the critical section, or one that adopts, may rely on.   *)
Decided(h) ==
  /\ pc[h] \in {"probe", "unsent", "create", "adopt_delivered", "adopt_probed",
                "mark_adopted"} => Free
  /\ pc[h] \in {"unsent", "create"} => AtWork = {} /\ ~settled
  /\ pc[h] \in {"probe", "adopt_probed", "mark_adopted"} =>
       /\ AtWork \subseteq {job[h].session}
       /\ HasSession(claim) => claim.session = job[h].session
  /\ pc[h] = "probe" => /\ ~settled
                        /\ HasSession(claim) => ~claim.sent /\ claim.session \notin bound
  /\ pc[h] = "adopt" /\ HasSession(claim) /\ claim.session = job[h].session => claim.sent

Recorded == \A s \in AtWork : claim # None /\ claim.session = s
Over == \A h \in Host, s \in Session :
  watch[h][s].stage \in {"expire", "unbind", "rebuild"} => s \notin AtWork
Decisive == settled => /\ Confirmed(claim)
                       /\ \A h \in Host : watch[h][claim.session].stage \notin {"expire", "unbind"}
Round == /\ Recorded /\ Over /\ Decisive
         /\ \A h \in Host : Owned(h) /\ Decided(h)
IInv == TypeOK /\ Places /\ (slips = {} => Locked /\ Round)

-----------------------------------------------------------------------------
(* What a step of h does to its place, in place of the EXCEPTs.            *)
Stepped(h, stage, s, r, then) ==
  /\ pc' \in [Host -> Stages] /\ job' \in [Host -> Job]
  /\ pc'[h] = stage
  /\ job'[h].session = s /\ job'[h].request = r /\ job'[h].then = then
  /\ \A g \in Host : g # h => pc'[g] = pc[g] /\ job'[g] = job[g]

LEMMA GotoSteps ==
  ASSUME TypeOK, NEW h \in Host, NEW stage \in Stages, Goto(h, stage), job' = job
  PROVE  Stepped(h, stage, job[h].session, job[h].request, job[h].then)
  BY DEF TypeOK, Goto, Stepped, Job

LEMMA GotoWithSteps ==
  ASSUME TypeOK, NEW h \in Host, NEW stage \in Stages,
         NEW s \in Session \union {None}, NEW r \in Requests \union {None},
         GotoWith(h, stage, s, r)
  PROVE  Stepped(h, stage, s, r, job[h].then)
  BY DEF TypeOK, Goto, GotoWith, Stepped, Job

LEMMA LeaveSteps ==
  ASSUME TypeOK, NEW h \in Host,
         NEW stage \in {"idle", "look", "launch", "audit_adopted", "attach"},
         NEW s \in Session \union {None}, NEW r \in Requests \union {None},
         Leave(h, stage, s, r)
  PROVE  Stepped(h, "release", s, r, stage)
<1>1. job \in [Host -> Job]
  BY DEF TypeOK, Job
<1>2. job' \in [Host -> Job] /\ job'[h].session = s /\ job'[h].request = r /\ job'[h].then = stage
  <2> DEFINE j == [job[h] EXCEPT !.session = s, !.request = r, !.then = stage]
  <2>1. j \in Job /\ j.session = s /\ j.request = r /\ j.then = stage
    BY <1>1 DEF Job
  <2>2. job' = [job EXCEPT ![h] = j]
    BY <1>1 DEF Leave
  <2> QED
    BY <1>1, <2>1, <2>2
<1>3. \A g \in Host : g # h => job'[g] = job[g]
  BY <1>1 DEF Leave
<1>4. pc' \in [Host -> Stages] /\ pc'[h] = "release" /\ \A g \in Host : g # h => pc'[g] = pc[g]
  BY DEF TypeOK, Goto, Leave, Stages, Holding
<1> QED
  BY <1>2, <1>3, <1>4 DEF Stepped

LEMMA ResumeSteps ==
  ASSUME TypeOK, NEW h \in Host, Resume(h)
  PROVE  Stepped(h, job[h].then, job[h].session, job[h].request, "idle")
  BY DEF TypeOK, Goto, Resume, Stepped, Job, Stages, Launching

LEMMA AfreshSteps ==
  ASSUME TypeOK, NEW h \in Host, NEW stage \in Stages, GotoAfresh(h, stage)
  PROVE  Stepped(h, stage, None, None, "idle")
  BY DEF TypeOK, Goto, GotoAfresh, Stepped, Job, NoJob

(* Steps that keep the parts of the invariant.                             *)
Frame(h) == \A g \in Host : g # h => pc'[g] = pc[g] /\ job'[g] = job[g]
WatchKept == \A g \in Host, s \in Session :
  watch'[g][s].stage = watch[g][s].stage \/ watch'[g][s].stage = "off"

LEMMA PlacesKept ==
  ASSUME TypeOK, Places, NEW h \in Host, Frame(h), Begun \subseteq Begun',
         \A g \in Host : g # h /\ Opened(g) => turn'[job[g].session] = "open",
         Place(h)',
         Opened(h)' => \A g \in Host : g # h /\ Opened(g) => job[g].session # job'[h].session,
         Known'
  PROVE  Places'
<1>1. ASSUME NEW g \in Host, g # h PROVE Place(g)'
  <2>1. pc'[g] = pc[g] /\ job'[g] = job[g]
    BY <1>1 DEF Frame
  <2>2. Place(g)
    BY DEF Places
  <2>3. /\ Follows(g)' <=> Follows(g)  
        /\ Adopts(g)' <=> Adopts(g)
        /\ Launches(g)' <=> Launches(g)
        /\ Opened(g)' <=> Opened(g)
    BY <2>1 DEF Follows, Adopts, Launches, Opened, Leaving
  <2>4. Opened(g) => turn'[job[g].session] = "open"
    BY <1>1
  <2> QED
    BY <2>1, <2>2, <2>3, <2>4 DEF Place
<1>2. \A g \in Host : Place(g)'
  BY <1>1
<1>3. Apart'
  <2> SUFFICES ASSUME NEW f \in Host, NEW g \in Host, Opened(f)', Opened(g)',
                      job'[f].session = job'[g].session
               PROVE  f = g
    BY DEF Apart
  <2>1. CASE f # h /\ g # h
    <3>1. Opened(f) /\ Opened(g) /\ job[f].session = job[g].session
      BY <2>1 DEF Frame, Opened
    <3> QED
      BY <3>1 DEF Places, Apart
  <2>2. CASE f = h /\ g # h
    BY <2>2 DEF Frame, Opened
  <2>3. CASE f # h /\ g = h
    BY <2>3 DEF Frame, Opened
  <2> QED
    BY <2>1, <2>2, <2>3
<1> QED
  BY <1>2, <1>3 DEF Places

(* The usual case: h alone moves, and the round is as it was.              *)
Still == UNCHANGED <<claim, turn, bound, settled>>

LEMMA PlacesStill ==
  ASSUME TypeOK, Places, NEW h \in Host, Frame(h), Still, WatchKept,
         Place(h)', Opened(h)' => Opened(h) /\ job'[h].session = job[h].session
  PROVE  Places'
<1>1. Begun' = Begun
  BY DEF Still, Begun
<1>2. \A g \in Host : g # h /\ Opened(g) => turn'[job[g].session] = "open"
  BY DEF Still, Places, Place
<1>3. Opened(h)' => \A g \in Host : g # h /\ Opened(g) => job[g].session # job'[h].session
  BY DEF Places, Apart
<1>4. Known'
  BY <1>1 DEF Still, Places, Known, WatchKept, HasSession
<1> QED
  BY <1>1, <1>2, <1>3, <1>4, PlacesKept

LEMMA LockedKept ==
  ASSUME Locked, NEW h \in Host, Frame(h), lock' = lock,
         Holds(h)' => lock = [owner |-> h, live |-> TRUE]
  PROVE  Locked'
<1> SUFFICES ASSUME NEW g \in Host, Holds(g)'
             PROVE  lock' = [owner |-> g, live |-> TRUE]
  BY DEF Locked
<1>1. CASE g = h
  BY <1>1
<1>2. CASE g # h
  BY <1>2 DEF Locked, Frame, Holds
<1> QED
  BY <1>1, <1>2

(* What the others rely on when h moves under the same record: h starts no *)
(* launch, and adopts only when nobody launches.                           *)
BoundKept(h) ==
  /\ settled /\ Confirmed(claim) => claim.session \in bound'
  /\ \A g \in Host : g # h /\ (Launches(g) \/ pc[g] = "probe") /\ Confirmed(claim)'
                       => Confirmed(claim)
WatchesFollow(h) == \A g \in Host, s \in Session :
  watch'[g][s].stage # "off" => \/ watch[g][s].stage # "off"
                                \/ g = h /\ Follows(h) /\ s = job[h].session
Quiet(h) ==
  /\ Frame(h) /\ UNCHANGED <<claim, settled>> /\ AtWork' \subseteq AtWork
  /\ BoundKept(h) /\ WatchesFollow(h)
  /\ Launches(h)' => Launches(h)
  /\ Follows(h)' => \/ Follows(h) /\ job'[h].session = job[h].session
                    \/ Launches(h) \/ Free \/ Confirmed(claim)

LEMMA OthersKept ==
  ASSUME TypeOK, TypeOK', Places, Round, NEW h \in Host, Quiet(h), NEW g \in Host, g # h
  PROVE  Owned(g)' /\ Decided(g)'
<1>1. pc'[g] = pc[g] /\ job'[g] = job[g] /\ claim' = claim /\ settled' = settled
  BY DEF Quiet, Frame
<1>2. /\ Launches(g)' <=> Launches(g)
      /\ Early(g)' <=> Early(g)
  BY <1>1 DEF Launches, Early, Leaving
<1>3. ASSUME Launches(g) PROVE Owned(g)'
  <2>1. /\ claim # None /\ claim.live /\ claim.request = job[g].request
        /\ \A f \in Host : Launches(f) => f = g
        /\ ~settled
        /\ Early(g) => claim.session = None
        /\ pc[g] \in {"prompt", "mark", "bind", "cancel"} => claim.session = job[g].session
        /\ pc[g] \notin {"mark", "bind", "cancel"} => AtWork = {}
        /\ Fresh
    BY <1>3 DEF Round, Owned
  <2>2. ~Launches(h) /\ ~Launches(h)'
    BY <2>1 DEF Quiet
  <2>3. ~Free /\ ~Confirmed(claim)
    BY <2>1 DEF Free, Confirmed, HasSession, Fresh
  <2>4. \A f \in Host : Launches(f)' => f = g
    <3> TAKE f \in Host
    <3>1. CASE f = h
      BY <3>1, <2>2
    <3>2. CASE f # h
      BY <3>2, <2>1 DEF Quiet, Frame, Launches
    <3> QED
      BY <3>1, <3>2
  <2>5. Fresh'
    <3>1. \A f \in Host : Follows(f)' => job'[f].session # claim.session
      <4> TAKE f \in Host
      <4>1. CASE f = h
        BY <4>1, <2>1, <2>2, <2>3 DEF Fresh, Quiet
      <4>2. CASE f # h
        BY <4>2, <2>1 DEF Quiet, Frame, Follows, Adopts, Leaving, Fresh
      <4> QED
        BY <4>1, <4>2
    <3>2. \A f \in Host, s \in Session : watch'[f][s].stage # "off" => s # claim.session
      BY <2>1, <2>2 DEF Fresh, Quiet, WatchesFollow
    <3>3. claim.session \notin bound'
      <4>1. CASE claim.session = None
        BY <4>1, ClaimAssumption DEF TypeOK
      <4>2. CASE claim.session # None
        BY <4>2, <1>1, <1>3, <2>1, <2>3 DEF Quiet, BoundKept, Confirmed, HasSession
      <4> QED
        BY <4>1, <4>2
    <3> QED
      BY <1>1, <3>1, <3>2, <3>3 DEF Fresh
  <2>6. AtWork' \subseteq AtWork
    BY DEF Quiet
  <2> QED
    BY <1>1, <1>2, <2>1, <2>4, <2>5, <2>6 DEF Owned
<1>4. Decided(g)'
  <2>1. Decided(g)
    BY DEF Round
  <2>2. AtWork' \subseteq AtWork
    BY DEF Quiet
  <2>3. pc[g] = "probe" /\ HasSession(claim) => claim.session \notin bound'
    BY <1>1, <2>1 DEF Quiet, BoundKept, Confirmed, Decided, HasSession
  <2> QED
    BY <1>1, <2>1, <2>2, <2>3 DEF Decided, Free, HasSession
<1> QED
  BY <1>2, <1>3, <1>4 DEF Owned

WatchesEnd == settled => \A g \in Host :
  watch'[g][claim.session].stage \in {"expire", "unbind"} =>
    watch[g][claim.session].stage \in {"expire", "unbind"}

LEMMA RoundKept ==
  ASSUME TypeOK, TypeOK', Places, Round, NEW h \in Host, Quiet(h),
         Owned(h)', Decided(h)', Over', WatchesEnd
  PROVE  Round'
<1>1. \A g \in Host : g # h => Owned(g)' /\ Decided(g)'
  BY OthersKept
<1>2. Recorded'
  BY DEF Round, Recorded, Quiet
<1>3. Decisive'
  BY DEF Round, Decisive, Quiet, BoundKept, WatchesEnd, Confirmed, HasSession
<1> QED
  BY <1>1, <1>2, <1>3 DEF Round

LEMMA WatchesKept ==
  ASSUME TypeOK, Round, NEW h \in Host, WatchKept, AtWork' \subseteq AtWork
  PROVE  WatchesFollow(h) /\ WatchesEnd /\ Over'
<1>1. WatchesFollow(h)
  BY DEF WatchKept, WatchesFollow
<1>2. WatchesEnd
  <2>1. settled => claim.session \in Session
    BY DEF Round, Decisive, Confirmed, TypeOK
  <2> QED
    BY <2>1 DEF WatchKept, WatchesEnd
<1>3. Over'
  BY DEF WatchKept, Round, Over
<1> QED
  BY <1>1, <1>2, <1>3

LEMMA BoundStays ==
  ASSUME NEW h \in Host, bound' = bound, claim' = claim
  PROVE  BoundKept(h)
  BY DEF BoundKept, Confirmed, HasSession

(* A step of h away from every claim, session and request.                 *)
Away == {"idle", "look", "lock", "grab", "compare", "verify", "locked", "dead"}
Aside(h) == pc[h] \in Away \/ Leaving(h, {"idle", "look"})

LEMMA AsideKept ==
  ASSUME TypeOK, Places, NEW h \in Host, Frame(h), Still, WatchKept, Aside(h)'
  PROVE  Places' /\ (Round /\ TypeOK' => Round')
<1>1. /\ ~Follows(h)' /\ ~Adopts(h)' /\ ~Launches(h)' /\ ~Opened(h)'
      /\ pc'[h] \notin {"audit", "probe", "unsent", "cancel", "mark", "bind", "create",
                        "adopt_delivered", "adopt_probed", "mark_adopted", "adopt"}
  BY DEF Aside, Away, Leaving, Follows, Adopts, Launches, Opened, Launching
<1>2. Places'
  <2>1. Place(h)'
    BY <1>1 DEF Place
  <2> QED
    BY <1>1, <2>1, PlacesStill
<1>3. ASSUME Round, TypeOK' PROVE Round'
  <2>1. Owned(h)' /\ Decided(h)'
    BY <1>1 DEF Owned, Decided
  <2>2. AtWork' \subseteq AtWork
    BY DEF Still, AtWork
  <2>3. Quiet(h)
    BY <1>1, <1>3, <2>2, WatchesKept, BoundStays DEF Still, Quiet
  <2> QED
    BY <1>3, <2>1, <2>2, <2>3, RoundKept, WatchesKept
<1> QED
  BY <1>2, <1>3

(* A step of h that leaves the files, the sessions and the slips alone.    *)
Calm == Still /\ WatchKept /\ lock' = lock /\ slips' = slips

LEMMA AsideStep ==
  ASSUME IInv, NEW h \in Host, NEW stage, NEW s, NEW r, NEW then,
         Stepped(h, stage, s, r, then), Calm, TypeOK', Aside(h)',
         Holds(h)' => Holds(h) \/ lock = [owner |-> h, live |-> TRUE]
  PROVE  IInv'
<1>1. Frame(h)
  BY DEF Stepped, Frame
<1>2. Places' /\ (Round => Round')
  BY <1>1, AsideKept DEF IInv, Calm
<1>3. ASSUME Locked PROVE Locked'
  BY <1>1, <1>3, LockedKept DEF Calm, Locked
<1> QED
  BY <1>2, <1>3 DEF IInv, Calm

(* A step of h under the same record, from one of its places to another.   *)
LEMMA MoveLockStep ==
  ASSUME IInv, NEW h \in Host, NEW stage, NEW s, NEW r, NEW then,
         Stepped(h, stage, s, r, then), Still, WatchKept, slips' = slips, TypeOK',
         Place(h)', Opened(h)' => Opened(h) /\ s = job[h].session,
         Locked => Locked',
         Locked /\ Round => /\ Owned(h)' /\ Decided(h)'
                            /\ Launches(h)' => Launches(h)
                            /\ Follows(h)' => \/ Follows(h) /\ s = job[h].session
                                              \/ Launches(h) \/ Free \/ Confirmed(claim)
  PROVE  IInv'
<1>1. Frame(h) /\ job'[h].session = s
  BY DEF Stepped, Frame
<1>2. Places'
  BY <1>1, PlacesStill DEF IInv
<1>3. ASSUME Locked, Round PROVE Round'
  <2>1. AtWork' \subseteq AtWork
    BY DEF Still, AtWork
  <2>2. Quiet(h)
    BY <1>1, <1>3, <2>1, WatchesKept, BoundStays DEF IInv, Still, Quiet
  <2> QED
    BY <1>3, <2>1, <2>2, RoundKept, WatchesKept DEF IInv
<1> QED
  BY <1>2, <1>3 DEF IInv

LEMMA MoveStep ==
  ASSUME IInv, NEW h \in Host, NEW stage, NEW s, NEW r, NEW then,
         Stepped(h, stage, s, r, then), Calm, TypeOK',
         Place(h)', Opened(h)' => Opened(h) /\ s = job[h].session,
         Holds(h)' => Holds(h),
         Locked /\ Round => /\ Owned(h)' /\ Decided(h)'
                            /\ Launches(h)' => Launches(h)
                            /\ Follows(h)' => \/ Follows(h) /\ s = job[h].session
                                              \/ Launches(h) \/ Free \/ Confirmed(claim)
  PROVE  IInv'
<1>1. Frame(h)
  BY DEF Stepped, Frame
<1>2. ASSUME Locked PROVE Locked'
  BY <1>1, <1>2, LockedKept DEF Calm, Locked
<1> QED
  BY <1>2, MoveLockStep DEF Calm

-----------------------------------------------------------------------------
LEMMA ReserveKeeps ==
  ASSUME IInv, NEW h \in Host, Wake(h) \/ SeekLock(h) \/ GiveUp(h) \/ Reuse(h) \/ FindDelivered(h)
  PROVE  IInv'
<1> USE DEF locks, service, change
<1>0. TypeOK /\ Places
  BY DEF IInv
<1>1. Calm
  BY DEF Wake, SeekLock, GiveUp, Reuse, FindDelivered, Calm, Still, WatchKept
<1>2. ASSUME pc' \in [Host -> Stages], job' \in [Host -> Job] PROVE TypeOK'
  BY <1>0, <1>2 DEF Wake, SeekLock, GiveUp, Reuse, FindDelivered, TypeOK, Job
<1>3. CASE Wake(h)
  <2>1. Stepped(h, "look", job[h].session, job[h].request, job[h].then)
    BY <1>0, <1>3, GotoSteps DEF Wake, Stages
  <2> QED
    BY <1>1, <1>2, <2>1, AsideStep DEF Stepped, Aside, Away, Holds, Holding
<1>4. CASE SeekLock(h)
  <2>1. Stepped(h, "lock", job[h].session, job[h].request, job[h].then)
    BY <1>0, <1>4, GotoSteps DEF SeekLock, Stages
  <2> QED
    BY <1>1, <1>2, <2>1, AsideStep DEF Stepped, Aside, Away, Holds, Holding
<1>5. CASE GiveUp(h)
  <2>1. Stepped(h, "idle", None, None, "idle")
    BY <1>0, <1>5, AfreshSteps DEF GiveUp, Stages
  <2> QED
    BY <1>1, <1>2, <2>1, AsideStep DEF Stepped, Aside, Away, Holds, Holding
<1>6. CASE Reuse(h)
  <2>1. claim.session \in Begun /\ claim.request \in Requests /\ Confirmed(claim)
    BY <1>0, <1>6 DEF Reuse, Confirmed, HasSession, Places, Known, TypeOK, ClaimRecord
  <2>2. Stepped(h, "attach", claim.session, claim.request, job[h].then)
    BY <1>0, <1>6, <2>1, GotoWithSteps DEF Reuse, Stages, Begun
  <2>3. /\ pc'[h] = "attach" /\ ~Launches(h)' /\ ~Opened(h)' /\ ~Holds(h)'
        /\ job'[h].session = claim.session /\ job'[h].request = claim.request
    BY <2>2 DEF Stepped, Launches, Opened, Launching, Holds, Holding
  <2>4. Place(h)' /\ Owned(h)' /\ Decided(h)'
    BY <1>1, <2>1, <2>3 DEF Place, Calm, Still, Begun, Owned, Decided
  <2> QED
    BY <1>1, <1>2, <2>1, <2>2, <2>3, <2>4, MoveStep DEF Stepped
<1>7. CASE FindDelivered(h)
  <2>1. /\ claim.session \in Begun /\ claim.request \in Requests
        /\ Free /\ claim.sent
    BY <1>0, <1>7 DEF FindDelivered, Delivered, Stale, HasSession, Places, Known, TypeOK,
                      ClaimRecord, Free
  <2>2. Stepped(h, "adopt", claim.session, claim.request, job[h].then)
    BY <1>0, <1>7, <2>1, GotoWithSteps DEF FindDelivered, Stages, Begun
  <2>3. /\ pc'[h] = "adopt" /\ ~Launches(h)' /\ ~Opened(h)' /\ ~Holds(h)'
        /\ job'[h].session = claim.session /\ job'[h].request = claim.request
    BY <2>2 DEF Stepped, Launches, Opened, Launching, Holds, Holding
  <2>4. Place(h)' /\ Owned(h)' /\ Decided(h)'
    BY <1>1, <2>1, <2>3 DEF Place, Calm, Still, Begun, Owned, Decided
  <2> QED
    BY <1>1, <1>2, <2>1, <2>2, <2>3, <2>4, MoveStep DEF Stepped
<1> QED
  BY <1>3, <1>4, <1>5, <1>6, <1>7

LEMMA NoneIsNoLock == \A g \in Host, b \in BOOLEAN : [owner |-> g, live |-> b] # None
  BY ClaimAssumption DEF LockRecord

(* A step of h that takes, frees or loses the lock.                        *)
LEMMA AsideLockStep ==
  ASSUME IInv, NEW h \in Host, NEW stage, NEW s, NEW r, NEW then,
         Stepped(h, stage, s, r, then), Still, WatchKept, TypeOK', Aside(h)',
         slips' = {} => slips = {},
         slips' = {} /\ Locked => Locked'
  PROVE  IInv'
<1>1. Frame(h)
  BY DEF Stepped, Frame
<1>2. Places' /\ (Round => Round')
  BY <1>1, AsideKept DEF IInv
<1> QED
  BY <1>2 DEF IInv

LEMMA LockHandedOn ==
  ASSUME NEW h \in Host, Frame(h), \A g \in Host : g # h => ~Holds(g),
         Holds(h)' => lock' = [owner |-> h, live |-> TRUE]
  PROVE  Locked'
<1> SUFFICES ASSUME NEW g \in Host, Holds(g)'
             PROVE  lock' = [owner |-> g, live |-> TRUE]
  BY DEF Locked
<1>1. CASE g = h
  BY <1>1
<1>2. CASE g # h
  BY <1>2 DEF Frame, Holds
<1> QED
  BY <1>1, <1>2

LEMMA LockStepKeeps ==
  ASSUME IInv, NEW h \in Host, LockStep(h)
  PROVE  IInv'
<1> USE DEF locks, service, change
<1>0. TypeOK /\ Places
  BY DEF IInv
<1>1. Still /\ WatchKept
  BY DEF LockStep, CreateLock, ObserveStale, ObserveEmpty, Grab, DiscardGrabbed,
         RestoreGrabbed, VerifyLock, Still, WatchKept
<1>2. CASE CreateLock(h)
  <2>1. Stepped(h, "verify", job[h].session, job[h].request, job[h].then)
    BY <1>0, <1>2, GotoSteps DEF CreateLock, Stages
  <2>2. TypeOK'
    BY <1>0, <1>2, <2>1 DEF CreateLock, TypeOK, Stepped, Job, LockRecord
  <2>3. ASSUME Locked PROVE Locked'
    <3>1. \A g \in Host : ~Holds(g)
      BY <1>2, <2>3, NoneIsNoLock DEF CreateLock, Locked
    <3> QED
      BY <1>2, <2>1, <3>1, LockHandedOn DEF CreateLock, Stepped, Frame
  <2> QED
    BY <1>1, <1>2, <2>1, <2>2, <2>3, AsideLockStep DEF CreateLock, Stepped, Aside, Away
<1>3. CASE ObserveStale(h)
  <2>1. Stepped(h, "grab", job[h].session, job[h].request, job[h].then)
    BY <1>0, <1>3 DEF ObserveStale, Stale, Goto, TypeOK, LockRecord, Stepped, Job, Stages
  <2>2. TypeOK'
    BY <1>0, <1>3, <2>1 DEF ObserveStale, TypeOK, Stepped, Job
  <2> QED
    BY <1>1, <1>3, <2>1, <2>2, AsideStep
       DEF ObserveStale, Stepped, Aside, Away, Calm, Holds, Holding
<1>9. CASE ObserveEmpty(h)
  <2>1. Stepped(h, "grab", job[h].session, job[h].request, job[h].then)
    BY <1>0, <1>9 DEF ObserveEmpty, Goto, TypeOK, Stepped, Job, Stages
  <2>2. TypeOK'
    BY <1>0, <1>9, <2>1 DEF ObserveEmpty, TypeOK, Stepped, Job
  <2> QED
    BY <1>1, <1>9, <2>1, <2>2, AsideStep
       DEF ObserveEmpty, Stepped, Aside, Away, Calm, Holds, Holding
<1>4. CASE Grab(h) /\ lock = None
  <2>1. Stepped(h, "lock", None, None, "idle")
    BY <1>0, <1>4, AfreshSteps DEF Grab, Stages
  <2>2. TypeOK'
    BY <1>0, <1>4, <2>1 DEF Grab, TypeOK, Stepped, Job
  <2> QED
    BY <1>1, <1>4, <2>1, <2>2, AsideStep DEF Grab, Stepped, Aside, Away, Calm, Holds, Holding
<1>5. CASE Grab(h) /\ lock # None
  <2>1. Stepped(h, "compare", job[h].session, job[h].request, job[h].then)
    BY <1>0, <1>5, GotoSteps DEF Grab, Stages
  <2>2. /\ grab' \in [Host -> LockRecord \union {None}] /\ lock' = None
        /\ slips' \subseteq Windows /\ (slips' = {} => slips = {} /\ ~lock.live)
    BY <1>0, <1>5 DEF Grab, Slip, TypeOK
  <2>3. TypeOK'
    BY <1>0, <1>5, <2>1, <2>2 DEF Grab, TypeOK, Stepped, Job
  <2>4. ASSUME slips' = {}, Locked PROVE Locked'
    <3>1. \A g \in Host : ~Holds(g)
      BY <2>2, <2>4 DEF Locked
    <3>2. ~Holds(h)'
      BY <2>1 DEF Stepped, Holds, Holding
    <3> QED
      BY <2>1, <3>1, <3>2, LockHandedOn DEF Stepped, Frame
  <2> QED
    BY <1>1, <2>1, <2>2, <2>3, <2>4, AsideLockStep DEF Stepped, Aside, Away
<1>6. CASE DiscardGrabbed(h)
  <2>1. Stepped(h, "lock", None, None, "idle")
    BY <1>0, <1>6, AfreshSteps DEF DiscardGrabbed, Stages
  <2>2. TypeOK'
    BY <1>0, <1>6, <2>1 DEF DiscardGrabbed, TypeOK, Stepped, Job
  <2> QED
    BY <1>1, <1>6, <2>1, <2>2, AsideStep
       DEF DiscardGrabbed, Stepped, Aside, Away, Calm, Holds, Holding
<1>7. CASE RestoreGrabbed(h)
  <2>1. Stepped(h, "lock", None, None, "idle")
    BY <1>0, <1>7, AfreshSteps DEF RestoreGrabbed, Stages
  <2>2. TypeOK'
    BY <1>0, <1>7, <2>1 DEF RestoreGrabbed, TypeOK, Stepped, Job
  <2>3. ~Holds(h)' /\ Frame(h)
    BY <2>1 DEF Stepped, Holds, Holding, Frame
  <2>4. ASSUME Locked PROVE Locked'
    <3>1. CASE lock = None
      <4>1. \A g \in Host : ~Holds(g)
        BY <2>4, <3>1, NoneIsNoLock DEF Locked
      <4> QED
        BY <2>3, <4>1, LockHandedOn
    <3>2. CASE lock # None
      BY <1>7, <2>3, <2>4, <3>2, LockedKept DEF RestoreGrabbed
    <3> QED
      BY <3>1, <3>2
  <2> QED
    BY <1>1, <1>7, <2>1, <2>2, <2>4, AsideLockStep DEF RestoreGrabbed, Stepped, Aside, Away
<1>8. CASE VerifyLock(h)
  <2> DEFINE mine == lock # None /\ lock.owner = h /\ lock.live
             stage == IF mine THEN "locked" ELSE "lock"
  <2>1. Stepped(h, stage, job[h].session, job[h].request, job[h].then)
    BY <1>0, <1>8, GotoSteps DEF VerifyLock, Stages, Holding
  <2>2. TypeOK'
    BY <1>0, <1>8, <2>1 DEF VerifyLock, TypeOK, Stepped, Job
  <2>3. mine => lock = [owner |-> h, live |-> TRUE]
    BY <1>0 DEF TypeOK, LockRecord
  <2> QED
    BY <1>1, <1>8, <2>1, <2>2, <2>3, AsideStep
       DEF VerifyLock, Stepped, Aside, Away, Calm, Holds, Holding
<1> QED
  BY <1>2, <1>3, <1>4, <1>5, <1>6, <1>7, <1>8, <1>9 DEF LockStep

-----------------------------------------------------------------------------
(* In the critical section: the record is read, probed, and left alone.    *)
LEMMA RevalidateKeeps ==
  ASSUME IInv, NEW h \in Host, Revalidate(h)
  PROVE  IInv'
<1> USE DEF locks, service, change
<1>0. TypeOK /\ Places /\ Holds(h) /\ ~Launches(h)
  BY DEF IInv, Revalidate, Holds, Holding, Launches, Launching
<1>1. Calm
  BY DEF Revalidate, Calm, Still, WatchKept
<1>2. ASSUME pc' \in [Host -> Stages], job' \in [Host -> Job] PROVE TypeOK'
  BY <1>0, <1>2 DEF Revalidate, TypeOK, Job
<1>3. CASE Confirmed(claim) /\ Leave(h, "attach", claim.session, claim.request)
  <2>1. claim.session \in Begun /\ claim.request \in Requests
    BY <1>0, <1>3 DEF Confirmed, HasSession, Places, Known, TypeOK, ClaimRecord
  <2>2. Stepped(h, "release", claim.session, claim.request, "attach")
    BY <1>0, <1>3, <2>1, LeaveSteps DEF Begun
  <2>3. /\ pc'[h] = "release" /\ job'[h].then = "attach"
        /\ job'[h].session = claim.session /\ job'[h].request = claim.request
        /\ ~Launches(h)' /\ ~Opened(h)'
    BY <2>2 DEF Stepped, Launches, Opened, Launching
  <2>4. Place(h)' /\ Owned(h)' /\ Decided(h)'
    BY <1>1, <2>1, <2>3 DEF Place, Calm, Still, Begun, Owned, Decided
  <2> QED
    BY <1>0, <1>1, <1>2, <1>3, <2>2, <2>3, <2>4, MoveStep DEF Stepped
<1>4. CASE ~Confirmed(claim) /\ Ambiguous(claim)
           /\ GotoWith(h, "probe", claim.session, claim.request)
  <2>1. /\ claim.session \in Session /\ claim.request \in Requests
        /\ Free /\ HasSession(claim) /\ ~claim.sent /\ claim.session \notin bound
    BY <1>0, <1>4 DEF Ambiguous, Stale, Confirmed, HasSession, Places, Known, TypeOK,
                      ClaimRecord, Free
  <2>2. Stepped(h, "probe", claim.session, claim.request, job[h].then)
    BY <1>0, <1>4, <2>1, GotoWithSteps DEF Stages, Holding
  <2>3. /\ pc'[h] = "probe" /\ ~Launches(h)' /\ ~Opened(h)' /\ ~Follows(h)' /\ Holds(h)'
        /\ job'[h].session = claim.session /\ job'[h].request = claim.request
    BY <2>2 DEF Stepped, Launches, Opened, Launching, Follows, Adopts, Leaving, Holds, Holding
  <2>4. Place(h)'
    BY <2>1, <2>3 DEF Place
  <2>5. ASSUME Round PROVE Owned(h)' /\ Decided(h)'
    <3>1. AtWork \subseteq {claim.session} /\ ~settled
      BY <1>4, <2>5 DEF Round, Recorded, Decisive
    <3> QED
      BY <1>1, <2>1, <2>3, <3>1
         DEF Owned, Decided, Calm, Still, Free, HasSession, AtWork
  <2> QED
    BY <1>0, <1>1, <1>2, <2>2, <2>3, <2>4, <2>5, MoveStep DEF Stepped
<1>5. CASE ~Confirmed(claim) /\ Delivered(claim)
           /\ GotoWith(h, "adopt_delivered", claim.session, claim.request)
  <2>1. claim.session \in Begun /\ claim.request \in Requests /\ Free
    BY <1>0, <1>5 DEF Delivered, Stale, HasSession, Places, Known, TypeOK, ClaimRecord, Free
  <2>2. Stepped(h, "adopt_delivered", claim.session, claim.request, job[h].then)
    BY <1>0, <1>5, <2>1, GotoWithSteps DEF Stages, Holding, Begun
  <2>3. /\ pc'[h] = "adopt_delivered" /\ ~Launches(h)' /\ ~Opened(h)'
        /\ job'[h].session = claim.session /\ job'[h].request = claim.request
    BY <2>2 DEF Stepped, Launches, Opened, Launching
  <2>4. Place(h)' /\ Owned(h)' /\ Decided(h)'
    BY <1>1, <2>1, <2>3 DEF Place, Calm, Still, Begun, Owned, Decided, Free
  <2> QED
    BY <1>0, <1>1, <1>2, <2>1, <2>2, <2>3, <2>4, MoveStep DEF Stepped
<1>6. CASE (claim = None \/ (Stale(claim) /\ ~HasSession(claim)))
           /\ GotoWith(h, "create", None, None)
  <2>1. Stepped(h, "create", None, None, job[h].then)
    BY <1>0, <1>6, GotoWithSteps DEF Stages, Holding
  <2>2. pc'[h] = "create" /\ ~Launches(h)' /\ ~Opened(h)' /\ ~Follows(h)'
    BY <2>1 DEF Stepped, Launches, Opened, Launching, Follows, Adopts, Leaving
  <2>3. Place(h)'
    BY <2>2 DEF Place, Follows
  <2>4. ASSUME Round PROVE Owned(h)' /\ Decided(h)'
    <3>1. Free
      BY <1>6 DEF Stale, Free
    <3>2. ~settled
      BY <1>6, <2>4 DEF Round, Decisive, Confirmed, HasSession
    <3>3. AtWork = {}
      BY <1>6, <2>4, ClaimAssumption DEF Round, Recorded, HasSession, AtWork
    <3> QED
      BY <1>1, <2>2, <3>1, <3>2, <3>3 DEF Owned, Decided, Calm, Still, Free, AtWork
  <2> QED
    BY <1>0, <1>1, <1>2, <2>1, <2>2, <2>3, <2>4, MoveStep DEF Stepped
<1>7. CASE Leave(h, "look", None, None)
  <2>1. Stepped(h, "release", None, None, "look")
    BY <1>0, <1>7, LeaveSteps
  <2> QED
    BY <1>0, <1>1, <1>2, <2>1, AsideStep DEF Stepped, Aside, Leaving
<1> QED
  BY <1>3, <1>4, <1>5, <1>6, <1>7 DEF Revalidate

LEMMA ProbeKeeps ==
  ASSUME IInv, NEW h \in Host, Probe(h)
  PROVE  IInv'
<1> USE DEF locks, service, change
<1>0. /\ TypeOK /\ Places /\ Holds(h) /\ ~Launches(h)
      /\ pc[h] = "probe" /\ job[h].session \in Session /\ job[h].request \in Requests
  BY DEF IInv, Probe, Holds, Holding, Launches, Launching, Places, Place
<1>1. Calm
  BY DEF Probe, Calm, Still, WatchKept
<1>2. ASSUME pc' \in [Host -> Stages], job' \in [Host -> Job] PROVE TypeOK'
  BY <1>0, <1>2 DEF Probe, TypeOK, Job
<1>3. CASE turn[job[h].session] \in {"live", "ended"} /\ Goto(h, "adopt_probed") /\ UNCHANGED job
  <2>1. Stepped(h, "adopt_probed", job[h].session, job[h].request, job[h].then)
    BY <1>0, <1>3, GotoSteps DEF Stages, Holding
  <2>2. /\ pc'[h] = "adopt_probed" /\ ~Launches(h)' /\ ~Opened(h)' /\ job' = job
    BY <1>3, <2>1 DEF Stepped, Launches, Opened, Launching
  <2>3. Place(h)'
    BY <1>0, <1>1, <1>3, <2>2 DEF Place, Begun, Calm, Still
  <2>4. ASSUME Round PROVE Owned(h)' /\ Decided(h)' /\ Free
    BY <1>0, <1>1, <2>2, <2>4 DEF Round, Owned, Decided, Calm, Still, Free, HasSession, AtWork
  <2> QED
    BY <1>0, <1>1, <1>2, <2>1, <2>2, <2>3, <2>4, MoveStep DEF Stepped
<1>4. CASE turn[job[h].session] \notin {"live", "ended"} /\ Goto(h, "unsent") /\ UNCHANGED job
  <2>1. Stepped(h, "unsent", job[h].session, job[h].request, job[h].then)
    BY <1>0, <1>4, GotoSteps DEF Stages, Holding
  <2>2. /\ pc'[h] = "unsent" /\ ~Launches(h)' /\ ~Opened(h)' /\ ~Follows(h)' /\ job' = job
    BY <1>4, <2>1 DEF Stepped, Launches, Opened, Launching, Follows, Adopts, Leaving
  <2>3. Place(h)'
    BY <1>0, <2>2 DEF Place
  <2>4. ASSUME Round PROVE Owned(h)' /\ Decided(h)'
    <3>1. Decided(h)
      BY <2>4 DEF Round
    <3>2. Free /\ ~settled /\ AtWork = {}
      BY <1>0, <1>4, <3>1 DEF Decided, AtWork
    <3> QED
      BY <1>1, <2>2, <3>2 DEF Owned, Decided, Calm, Still, Free, AtWork
  <2> QED
    BY <1>0, <1>1, <1>2, <2>1, <2>2, <2>3, <2>4, MoveStep DEF Stepped
<1>5. CASE Leave(h, "look", None, None)
  <2>1. Stepped(h, "release", None, None, "look")
    BY <1>0, <1>5, LeaveSteps
  <2> QED
    BY <1>0, <1>1, <1>2, <2>1, AsideStep DEF Stepped, Aside, Leaving
<1> QED
  BY <1>3, <1>4, <1>5 DEF Probe

-----------------------------------------------------------------------------
(* A host alone with the record: no other launches, no other decides.      *)
Deciding == {"probe", "unsent", "create", "adopt_delivered", "adopt_probed", "mark_adopted"}
Alone(h) == \A g \in Host : g # h => ~Launches(g) /\ pc[g] \notin Deciding

LEMMA DeciderIsAlone ==
  ASSUME Locked, Round, NEW h \in Host, pc[h] \in Deciding
  PROVE  Alone(h) /\ Free
<1>1. Free
  BY DEF Round, Decided, Deciding
<1>2. ASSUME NEW g \in Host, g # h, pc[g] \in Deciding PROVE FALSE
  BY <1>2 DEF Locked, Holds, Holding, Deciding
<1>3. \A g \in Host : ~Launches(g)
  BY <1>1 DEF Round, Owned, Free
<1> QED
  BY <1>1, <1>2, <1>3 DEF Alone

LEMMA LauncherIsAlone ==
  ASSUME Round, NEW h \in Host, Launches(h)
  PROVE  Alone(h) /\ ~Free
  BY DEF Round, Owned, Alone, Decided, Deciding, Free

(* It may rewrite the record, as long as an adoption it interrupts still   *)
(* adopts a sent request.                                                  *)
LEMMA AloneKept ==
  ASSUME NEW h \in Host, Alone(h), Frame(h), NEW g \in Host, g # h,
         pc[g] = "adopt" /\ HasSession(claim)' /\ claim'.session = job[g].session => claim'.sent
  PROVE  Owned(g)' /\ Decided(g)'
<1>1. pc'[g] = pc[g] /\ job'[g] = job[g] /\ ~Launches(g)'
  BY DEF Frame, Alone, Launches
<1> QED
  BY <1>1 DEF Owned, Decided, Alone, Deciding

LEMMA RewriteKept ==
  ASSUME NEW h \in Host, Alone(h), Frame(h),
         \A g \in Host : g # h /\ pc[g] = "adopt" /\ HasSession(claim)'
                           /\ claim'.session = job[g].session => claim'.sent,
         Owned(h)', Decided(h)', Recorded', Over', Decisive'
  PROVE  Round'
<1>1. \A g \in Host : g # h => Owned(g)' /\ Decided(g)'
  BY AloneKept
<1> QED
  BY <1>1 DEF Round

(* A step that writes the record and nothing else but the place of h.      *)
LEMMA ClaimStep ==
  ASSUME IInv, NEW h \in Host, NEW stage, NEW s, NEW r, NEW then,
         Stepped(h, stage, s, r, then), TypeOK',
         UNCHANGED <<lock, watch, turn, bound, settled, slips>>,
         Place(h)', Opened(h)' => Opened(h) /\ s = job[h].session,
         HasSession(claim)' => claim'.request # None /\ (claim'.sent => claim'.session \in Begun),
         Holds(h)' => Holds(h),
         Locked /\ Round =>
           /\ Alone(h) /\ Owned(h)' /\ Decided(h)' /\ Recorded' /\ Decisive'
           /\ \A g \in Host : g # h /\ pc[g] = "adopt" /\ HasSession(claim)'
                                /\ claim'.session = job[g].session => claim'.sent
  PROVE  IInv'
<1>1. Frame(h) /\ job'[h].session = s /\ Begun' = Begun
  BY DEF Stepped, Frame, Begun
<1>2. Places'
  <2>1. \A g \in Host : g # h /\ Opened(g) => turn'[job[g].session] = "open"
    BY DEF IInv, Places, Place
  <2>2. Opened(h)' => \A g \in Host : g # h /\ Opened(g) => job[g].session # job'[h].session
    BY <1>1 DEF IInv, Places, Apart
  <2>3. Known'
    BY <1>1 DEF IInv, Places, Known
  <2> QED
    BY <1>1, <2>1, <2>2, <2>3, PlacesKept DEF IInv
<1>3. ASSUME Locked PROVE Locked'
  BY <1>1, <1>3, LockedKept DEF Locked
<1>4. ASSUME Locked, Round PROVE Round'
  <2>1. Over'
    BY <1>4 DEF Round, Over, AtWork
  <2> QED
    BY <1>1, <1>4, <2>1, RewriteKept
<1> QED
  BY <1>2, <1>3, <1>4 DEF IInv

LEMMA NoneIsNoClaim == \A r \in ClaimRecord : r # None
  BY ClaimAssumption

LEMMA MarkAdoptedKeeps ==
  ASSUME IInv, NEW h \in Host, MarkAdopted(h)
  PROVE  IInv'
<1> USE DEF locks, service, change
<1>0. /\ TypeOK /\ Places /\ pc[h] = "mark_adopted" /\ Adopts(h) /\ Holds(h)
      /\ job[h].session \in Begun /\ job[h].request \in Requests
  BY DEF IInv, MarkAdopted, Holds, Holding, Adopts, Follows, Places, Place
<1>1. job[h].session \in Session /\ job[h].session # None /\ job[h].request # None
  BY <1>0, ClaimAssumption DEF Begun, Requests
<1>2. /\ claim' \in ClaimRecord /\ claim' # None /\ claim'.sent /\ HasSession(claim)'
      /\ claim'.session = job[h].session /\ claim'.request = job[h].request
  <2>1. claim' = Record(job[h].session, job[h].request, TRUE, TRUE)
    BY DEF MarkAdopted
  <2> QED
    BY <1>0, <1>1, <2>1, NoneIsNoClaim DEF HasSession, Record, ClaimRecord
<1>3. Stepped(h, "release", job[h].session, job[h].request, "audit_adopted")
  BY <1>0, <1>1, LeaveSteps DEF MarkAdopted
<1>4. TypeOK'
  BY <1>0, <1>2, <1>3 DEF MarkAdopted, TypeOK, Stepped, Job
<1>5. /\ pc'[h] = "release" /\ job'[h].session = job[h].session /\ ~Launches(h)' /\ ~Opened(h)'
      /\ job'[h].request = job[h].request
  BY <1>3 DEF Stepped, Launches, Opened, Launching
<1>6. Place(h)' /\ Owned(h)' /\ Decided(h)'
  BY <1>0, <1>5 DEF MarkAdopted, Place, Begun, Owned, Decided
<1>7. ASSUME Locked, Round PROVE Alone(h) /\ Recorded' /\ Decisive'
  <2>1. Alone(h)
    BY <1>0, <1>7, DeciderIsAlone DEF Deciding
  <2>2. Decided(h)
    BY <1>7 DEF Round
  <2>3. Recorded'
    BY <1>0, <1>2, <2>2 DEF MarkAdopted, Decided, Recorded, AtWork
  <2>4. Decisive'
    BY <1>0, <1>2, <1>7, <2>2 DEF MarkAdopted, Decided, Round, Decisive, Confirmed, HasSession
  <2> QED
    BY <2>1, <2>3, <2>4
<1> QED
  BY <1>0, <1>1, <1>2, <1>3, <1>4, <1>5, <1>6, <1>7, ClaimStep DEF MarkAdopted

LEMMA ExpireUnsentKeeps ==
  ASSUME IInv, NEW h \in Host, ExpireUnsent(h)
  PROVE  IInv'
<1> USE DEF locks, service, change
<1>0. TypeOK /\ Places /\ pc[h] = "unsent" /\ Holds(h) /\ job[h].request \in Requests
  BY DEF IInv, ExpireUnsent, Holds, Holding, Places, Place
<1>1. claim' \in ClaimRecord /\ ~claim'.live /\ ~HasSession(claim)'
  BY <1>0 DEF ExpireUnsent, HasSession, Record, ClaimRecord
<1>2. Stepped(h, "create", job[h].session, job[h].request, job[h].then)
  BY <1>0, GotoSteps DEF ExpireUnsent, Stages, Holding
<1>3. TypeOK'
  BY <1>0, <1>1, <1>2 DEF ExpireUnsent, TypeOK, Stepped, Job
<1>4. pc'[h] = "create" /\ ~Launches(h)' /\ ~Opened(h)' /\ ~Follows(h)'
  BY <1>2 DEF Stepped, Launches, Opened, Launching, Follows, Adopts, Leaving
<1>5. Place(h)'
  BY <1>4 DEF Place, Follows
<1>6. ASSUME Locked, Round
      PROVE  Alone(h) /\ Owned(h)' /\ Decided(h)' /\ Recorded' /\ Decisive'
  <2>1. Alone(h)
    BY <1>0, <1>6, DeciderIsAlone DEF Deciding
  <2>2. AtWork = {} /\ ~settled
    BY <1>0, <1>6 DEF Round, Decided
  <2>3. AtWork' = {} /\ ~settled'
    BY <2>2 DEF ExpireUnsent, AtWork
  <2> QED
    BY <1>1, <1>4, <2>1, <2>3 DEF Owned, Decided, Free, Recorded, Decisive
<1> QED
  BY <1>0, <1>1, <1>2, <1>3, <1>4, <1>5, <1>6, ClaimStep DEF ExpireUnsent

LEMMA CreateClaimKeeps ==
  ASSUME IInv, NEW h \in Host, CreateClaim(h)
  PROVE  IInv'
<1> USE DEF locks, service, change
<1>0. TypeOK /\ Places /\ pc[h] = "create" /\ Holds(h)
  BY DEF IInv, CreateClaim, Holds, Holding
<1>1. created + 1 \in Requests /\ created' = created + 1 /\ created' \in 0 .. MaxRequests
  BY <1>0, ClaimAssumption DEF CreateClaim, Requests, TypeOK
<1>2. /\ claim' \in ClaimRecord /\ claim' # None /\ claim'.live /\ claim'.session = None
      /\ claim'.request = created + 1 /\ ~HasSession(claim)'
  <2>1. claim' = Record(None, created + 1, FALSE, TRUE)
    BY DEF CreateClaim
  <2> QED
    BY <1>1, <2>1, NoneIsNoClaim DEF HasSession, Record, ClaimRecord
<1>3. Stepped(h, "release", None, created + 1, "launch")
  BY <1>0, <1>1, LeaveSteps DEF CreateClaim
<1>4. TypeOK'
  BY <1>0, <1>1, <1>2, <1>3 DEF CreateClaim, TypeOK, Stepped, Job
<1>5. /\ pc'[h] = "release" /\ job'[h].then = "launch" /\ job'[h].request = created + 1
      /\ Launches(h)' /\ Early(h)' /\ ~Opened(h)' /\ ~Follows(h)' /\ ~Adopts(h)'
  BY <1>3 DEF Stepped, Launches, Early, Opened, Follows, Adopts, Leaving
<1>6. Place(h)' /\ Decided(h)'
  BY <1>1, <1>5 DEF Place, Decided
<1>7. ASSUME Locked, Round PROVE Alone(h) /\ Owned(h)' /\ Recorded' /\ Decisive'
  <2>1. Alone(h)
    BY <1>0, <1>7, DeciderIsAlone DEF Deciding
  <2>2. AtWork' = {} /\ ~settled'
    BY <1>0, <1>7 DEF Round, Decided, CreateClaim, AtWork
  <2>3. \A g \in Host : Launches(g)' => g = h
    BY <1>3, <2>1 DEF Alone, Stepped, Launches
  <2>4. Fresh'
    <3>1. None \notin bound' /\ \A g \in Host, s \in Session : s # None
      BY <1>4, ClaimAssumption DEF TypeOK
    <3>2. \A g \in Host : Follows(g)' => job'[g].session # None
      <4> TAKE g \in Host
      <4>1. CASE g = h
        BY <1>5, <4>1
      <4>2. CASE g # h
        <5>1. Follows(g)' => Follows(g) /\ job'[g].session = job[g].session
          BY <1>3, <4>2 DEF Stepped, Follows, Adopts, Leaving
        <5>2. Follows(g) => job[g].session \in Session
          BY <1>0 DEF Places, Place, Begun
        <5> QED
          BY <5>1, <5>2, ClaimAssumption
      <4> QED
        BY <4>1, <4>2
    <3> QED
      BY <1>2, <3>1, <3>2 DEF Fresh
  <2>5. Owned(h)'
    BY <1>2, <1>5, <2>2, <2>3, <2>4 DEF Owned
  <2> QED
    BY <2>1, <2>2, <2>5 DEF Recorded, Decisive
<1> QED
  BY <1>0, <1>2, <1>3, <1>4, <1>5, <1>6, <1>7, ClaimStep DEF CreateClaim

-----------------------------------------------------------------------------
(* A session is bound: the one h follows, or has launched.                 *)
LEMMA BoundStep ==
  ASSUME IInv, NEW h \in Host, NEW stage, NEW s, NEW r, NEW then,
         Stepped(h, stage, s, r, then), TypeOK',
         UNCHANGED <<claim, lock, watch, turn, settled, slips>>,
         job[h].session \in Begun, bound' = bound \union {job[h].session},
         s = job[h].session, Place(h)', ~Opened(h)', Holds(h)' => Holds(h),
         Locked /\ Round => /\ Owned(h)' /\ Decided(h)' /\ BoundKept(h)
                            /\ ~Launches(h)'
                            /\ Follows(h) \/ Launches(h)
  PROVE  IInv'
<1>1. Frame(h) /\ job'[h].session = job[h].session /\ Begun' = Begun /\ WatchKept
  BY DEF Stepped, Frame, Begun, WatchKept
<1>2. Places'
  <2>1. \A g \in Host : g # h /\ Opened(g) => turn'[job[g].session] = "open"
    BY DEF IInv, Places, Place
  <2>2. Known'
    BY <1>1 DEF IInv, Places, Known, HasSession
  <2> QED
    BY <1>1, <2>1, <2>2, PlacesKept DEF IInv
<1>3. ASSUME Locked PROVE Locked'
  BY <1>1, <1>3, LockedKept DEF Locked
<1>4. ASSUME Locked, Round PROVE Round'
  <2>1. AtWork' \subseteq AtWork
    BY DEF AtWork
  <2>2. Quiet(h)
    BY <1>1, <1>4, <2>1, WatchesKept DEF IInv, Quiet
  <2> QED
    BY <1>1, <1>4, <2>1, <2>2, RoundKept, WatchesKept DEF IInv
<1> QED
  BY <1>2, <1>3, <1>4 DEF IInv

LEMMA AdoptKeeps ==
  ASSUME IInv, NEW h \in Host, Adopt(h)
  PROVE  IInv'
<1> USE DEF locks, service, change
<1>0. /\ TypeOK /\ Places /\ pc[h] = "adopt" /\ Adopts(h) /\ Follows(h)
      /\ job[h].session \in Begun /\ job[h].request \in Requests
  BY DEF IInv, Adopt, Adopts, Follows, Places, Place
<1>1. Stepped(h, "attach", job[h].session, job[h].request, job[h].then)
  BY <1>0, GotoSteps DEF Adopt, Stages
<1>2. TypeOK'
  BY <1>0, <1>1 DEF Adopt, TypeOK, Stepped, Job, Begun
<1>3. /\ pc'[h] = "attach" /\ ~Launches(h)' /\ ~Opened(h)' /\ ~Holds(h)'
      /\ job'[h].session = job[h].session /\ job'[h].request = job[h].request
  BY <1>1 DEF Stepped, Launches, Opened, Launching, Holds, Holding
<1>4. Place(h)' /\ Owned(h)' /\ Decided(h)'
  BY <1>0, <1>3 DEF Place, Adopt, Begun, Owned, Decided
<1>5. bound' = bound \union {job[h].session} /\ claim' = claim
  BY DEF Adopt
<1>6. ASSUME Round PROVE BoundKept(h)
  <2> SUFFICES ASSUME HasSession(claim), claim.session = job[h].session,
                      NEW g \in Host, Launches(g) \/ pc[g] = "probe"
               PROVE  claim.session \in bound
    BY <1>5 DEF BoundKept, Confirmed, HasSession
  <2>1. CASE Launches(g)
    BY <1>0, <1>6, <2>1 DEF Round, Owned, Fresh
  <2>2. CASE pc[g] = "probe"
    <3>1. claim.sent
      BY <1>0, <1>6 DEF Round, Decided
    <3> QED
      BY <1>6, <2>2, <3>1 DEF Round, Decided
  <2> QED
    BY <2>1, <2>2
<1> QED
  BY <1>0, <1>1, <1>2, <1>3, <1>4, <1>5, <1>6, BoundStep DEF Adopt

LEMMA AdoptLockedKeeps ==
  ASSUME IInv, NEW h \in Host, AdoptLocked(h)
  PROVE  IInv'
<1> USE DEF locks, service, change
<1>0. /\ TypeOK /\ Places /\ pc[h] \in {"adopt_delivered", "adopt_probed"} /\ Adopts(h)
      /\ Follows(h) /\ Holds(h) /\ job[h].session \in Begun /\ job[h].request \in Requests
  BY DEF IInv, AdoptLocked, Adopts, Follows, Places, Place, Holds, Holding
<1>1. /\ bound' = bound \union {job[h].session}
      /\ UNCHANGED <<claim, lock, watch, turn, settled, slips>>
  BY DEF AdoptLocked
<1>2. ASSUME pc' \in [Host -> Stages], job' \in [Host -> Job] PROVE TypeOK'
  BY <1>0, <1>2 DEF AdoptLocked, TypeOK, Job, Begun
<1>3. ASSUME Locked, Round PROVE BoundKept(h)
  <2>1. Alone(h)
    BY <1>0, <1>3, DeciderIsAlone DEF Deciding
  <2> QED
    BY <1>1, <2>1 DEF BoundKept, Alone, Deciding, Confirmed
<1>4. CASE pc[h] = "adopt_delivered"
  <2>1. Stepped(h, "release", job[h].session, job[h].request, "audit_adopted")
    BY <1>0, <1>4, LeaveSteps DEF AdoptLocked, Begun
  <2>2. /\ pc'[h] = "release" /\ job'[h].then = "audit_adopted"
        /\ ~Launches(h)' /\ ~Opened(h)'
        /\ job'[h].session = job[h].session /\ job'[h].request = job[h].request
    BY <2>1 DEF Stepped, Launches, Opened, Launching
  <2>3. Place(h)' /\ Owned(h)' /\ Decided(h)'
    BY <1>0, <1>1, <2>2 DEF Place, Begun, Owned, Decided
  <2> QED
    BY <1>0, <1>1, <1>2, <1>3, <2>1, <2>2, <2>3, BoundStep DEF Stepped
<1>5. CASE pc[h] = "adopt_probed"
  <2>1. Stepped(h, "mark_adopted", job[h].session, job[h].request, job[h].then)
    BY <1>0, <1>5, GotoSteps DEF AdoptLocked, Stages, Holding
  <2>2. /\ pc'[h] = "mark_adopted" /\ ~Launches(h)' /\ ~Opened(h)'
        /\ job'[h].session = job[h].session /\ job'[h].request = job[h].request
    BY <2>1 DEF Stepped, Launches, Opened, Launching
  <2>3. Place(h)' /\ Owned(h)'
    BY <1>0, <1>1, <2>2 DEF Place, Begun, Owned
  <2>4. ASSUME Round PROVE Decided(h)'
    BY <1>1, <1>5, <2>2, <2>4 DEF Round, Decided, Free, HasSession, AtWork
  <2> QED
    BY <1>0, <1>1, <1>2, <1>3, <2>1, <2>2, <2>3, <2>4, BoundStep DEF Stepped
<1> QED
  BY <1>0, <1>4, <1>5

-----------------------------------------------------------------------------
(* A launch that goes on under its record.                                 *)
LEMMA LaunchGoesOn ==
  ASSUME NEW h \in Host, Owned(h), Launches(h), Frame(h), ~Follows(h)',
         claim'.session = claim.session, bound' = bound, WatchKept
  PROVE  Fresh' /\ \A g \in Host : Launches(g)' => g = h
<1>1. \A g \in Host : g # h => /\ Launches(g)' => Launches(g)
                               /\ Follows(g)' => Follows(g) /\ job'[g].session = job[g].session
  BY DEF Frame, Launches, Follows, Adopts, Leaving
<1>2. \A g \in Host : Launches(g)' => g = h
  BY <1>1 DEF Owned
<1>3. Fresh
  BY DEF Owned
<1>4. \A g \in Host : Follows(g)' => job'[g].session # claim.session
  BY <1>1, <1>3 DEF Fresh
<1> QED
  BY <1>2, <1>3, <1>4 DEF Fresh, WatchKept

LEMMA ResumeKeeps ==
  ASSUME IInv, NEW h \in Host, pc[h] \in {"release", "unlink"}, Still, WatchKept,
         slips' = slips, TypeOK', Locked => Locked',
         NEW stage, NEW then, Stepped(h, stage, job[h].session, job[h].request, then),
         \/ stage = "unlink" /\ then = job[h].then
         \/ stage = job[h].then
  PROVE  IInv'
<1>0. TypeOK /\ Places /\ job[h].then \in {"idle", "look", "launch", "audit_adopted", "attach"}
  BY DEF IInv, TypeOK
<1>1. /\ Frame(h) /\ pc'[h] = stage /\ job'[h].session = job[h].session
      /\ job'[h].request = job[h].request /\ job'[h].then = then
  BY DEF Stepped, Frame
<1>2. /\ Launches(h)' => Launches(h) /\ job[h].then = "launch"
      /\ Launches(h)' => Early(h)
      /\ Adopts(h)' => Adopts(h)
      /\ Follows(h)' => Follows(h)
      /\ Launches(h)' => ~Follows(h)'
      /\ ~Opened(h)'
      /\ pc'[h] \notin {"audit", "probe", "unsent", "cancel", "mark", "bind", "prompt", "adopt",
                        "create", "adopt_delivered", "adopt_probed", "mark_adopted"}
  BY <1>0, <1>1 DEF Launches, Launching, Early, Adopts, Follows, Leaving, Opened
<1>3. Place(h)'
  BY <1>0, <1>1, <1>2 DEF Places, Place, Still, Begun
<1>4. ASSUME Round PROVE Owned(h)' /\ Decided(h)'
  <2>1. Decided(h)'
    BY <1>2 DEF Decided
  <2>2. ASSUME Launches(h)' PROVE Owned(h)'
    <3>1. Launches(h) /\ Early(h) /\ ~Follows(h)' /\ Owned(h)
      BY <1>2, <1>4, <2>2 DEF Round
    <3>2. Fresh' /\ \A g \in Host : Launches(g)' => g = h
      BY <1>1, <3>1, LaunchGoesOn DEF Still
    <3>3. AtWork' = AtWork
      BY DEF Still, AtWork
    <3>4. AtWork = {}
      BY <3>1 DEF Owned, Early, Leaving
    <3> QED
      BY <1>1, <1>2, <3>1, <3>2, <3>3, <3>4 DEF Owned, Still
  <2> QED
    BY <2>1, <2>2 DEF Owned
<1> QED
  BY <1>2, <1>3, <1>4, MoveLockStep

LEMMA LeaveLockKeeps ==
  ASSUME IInv, NEW h \in Host, Release(h) \/ Unlink(h)
  PROVE  IInv'
<1> USE DEF locks, service, change
<1>0. TypeOK /\ Places /\ Holds(h) /\ pc[h] \in {"release", "unlink"}
  BY DEF IInv, Release, Unlink, Holds, Holding
<1>1. Still /\ WatchKept /\ slips' = slips
  BY DEF Release, Unlink, Still, WatchKept
<1>2. ASSUME pc' \in [Host -> Stages], job' \in [Host -> Job] PROVE TypeOK'
  BY <1>0, <1>2 DEF Release, Unlink, TypeOK, Job
<1>3. CASE Release(h) /\ Goto(h, "unlink") /\ UNCHANGED job
  <2>1. Stepped(h, "unlink", job[h].session, job[h].request, job[h].then)
    BY <1>0, <1>3, GotoSteps DEF Stages, Holding
  <2>2. ASSUME Locked PROVE Locked'
    BY <1>0, <1>3, <2>1, <2>2, LockedKept DEF Release, Stepped, Frame, Locked
  <2> QED
    BY <1>0, <1>1, <1>2, <2>1, <2>2, ResumeKeeps DEF Stepped
<1>4. CASE Release(h) /\ Resume(h)
  <2>1. Stepped(h, job[h].then, job[h].session, job[h].request, "idle")
    BY <1>0, <1>4, ResumeSteps
  <2>2. ASSUME Locked PROVE Locked'
    BY <1>0, <1>4, <2>1, <2>2, LockedKept DEF Release, Stepped, Frame, Locked
  <2> QED
    BY <1>0, <1>1, <1>2, <2>1, <2>2, ResumeKeeps DEF Stepped
<1>5. CASE Unlink(h)
  <2>1. Stepped(h, job[h].then, job[h].session, job[h].request, "idle")
    BY <1>0, <1>5, ResumeSteps DEF Unlink
  <2>2. ASSUME Locked PROVE Locked'
    <3>1. \A g \in Host : g # h => ~Holds(g)
      BY <1>0, <2>2 DEF Locked
    <3>2. ~Holds(h)'
      BY <1>0, <2>1 DEF Stepped, Holds, Holding, TypeOK
    <3> QED
      BY <2>1, <3>1, <3>2, LockHandedOn DEF Stepped, Frame
  <2> QED
    BY <1>0, <1>1, <1>2, <2>1, <2>2, ResumeKeeps DEF Stepped
<1> QED
  BY <1>3, <1>4, <1>5 DEF Release

LEMMA AuditAdoptedKeeps ==
  ASSUME IInv, NEW h \in Host, AuditAdopted(h)
  PROVE  IInv'
<1> USE DEF locks, service, change
<1>0. /\ TypeOK /\ Places /\ pc[h] = "audit_adopted" /\ Adopts(h) /\ Follows(h)
      /\ job[h].session \in Begun /\ job[h].request \in Requests
  BY DEF IInv, AuditAdopted, Adopts, Follows, Places, Place
<1>1. Stepped(h, "attach", job[h].session, job[h].request, job[h].then)
  BY <1>0, GotoSteps DEF AuditAdopted, Stages
<1>2. TypeOK' /\ Calm
  BY <1>0, <1>1 DEF AuditAdopted, TypeOK, Stepped, Job, Calm, Still, WatchKept
<1>3. /\ pc'[h] = "attach" /\ ~Launches(h)' /\ ~Opened(h)' /\ ~Holds(h)'
      /\ job'[h].session = job[h].session /\ job'[h].request = job[h].request
  BY <1>1 DEF Stepped, Launches, Opened, Launching, Holds, Holding
<1>4. Place(h)' /\ Owned(h)' /\ Decided(h)'
  BY <1>0, <1>3 DEF Place, AuditAdopted, Begun, Owned, Decided
<1> QED
  BY <1>0, <1>1, <1>2, <1>3, <1>4, MoveStep

-----------------------------------------------------------------------------
(* The launch.                                                             *)
LEMMA CreateSessionKeeps ==
  ASSUME IInv, NEW h \in Host, CreateSession(h)
  PROVE  IInv'
<1> USE DEF locks, service, change
<1>0. TypeOK /\ Places /\ pc[h] = "launch" /\ Launches(h) /\ Early(h) /\ job[h].request \in Requests
  BY DEF IInv, CreateSession, Launches, Launching, Early, Places, Place
<1>1. CASE Goto(h, "discard") /\ UNCHANGED <<turn, job>>
  <2>1. Stepped(h, "discard", job[h].session, job[h].request, job[h].then)
    BY <1>0, <1>1, GotoSteps DEF Stages
  <2>2. TypeOK' /\ Calm
    BY <1>0, <1>1, <2>1 DEF CreateSession, TypeOK, Stepped, Job, Calm, Still, WatchKept
  <2>3. /\ pc'[h] = "discard" /\ Launches(h)' /\ ~Early(h)' /\ ~Opened(h)' /\ ~Holds(h)'
        /\ ~Follows(h)' /\ ~Adopts(h)' /\ Frame(h) /\ job' = job
    BY <1>1, <2>1 DEF Stepped, Frame, Launches, Early, Leaving, Opened, Holds, Holding,
                      Follows, Adopts
  <2>4. Place(h)'
    BY <1>0, <2>3 DEF Place
  <2>5. ASSUME Round PROVE Owned(h)' /\ Decided(h)'
    <3>1. Fresh' /\ \A g \in Host : Launches(g)' => g = h
      BY <1>0, <2>2, <2>3, <2>5, LaunchGoesOn DEF Round, Calm, Still
    <3>2. AtWork = {} /\ AtWork' = AtWork
      BY <1>0, <2>2, <2>5 DEF Round, Owned, Calm, Still, AtWork
    <3>3. Owned(h)'
      BY <1>0, <2>2, <2>3, <2>5, <3>1, <3>2 DEF Round, Owned, Calm, Still
    <3> QED
      BY <2>3, <3>3 DEF Decided
  <2> QED
    BY <1>0, <2>1, <2>2, <2>3, <2>4, <2>5, MoveStep
<1>2. ASSUME NEW s \in Session, turn[s] = "unused", turn' = [turn EXCEPT ![s] = "open"],
             GotoWith(h, "record", s, job[h].request)
      PROVE  IInv'
  <2>1. Stepped(h, "record", s, job[h].request, job[h].then)
    BY <1>0, <1>2, GotoWithSteps DEF Stages, Launching
  <2>2. /\ TypeOK' /\ WatchKept
        /\ UNCHANGED <<claim, lock, settled, bound, slips>>
    BY <1>0, <1>2, <2>1 DEF CreateSession, TypeOK, Stepped, Job, WatchKept
  <2>3. /\ pc'[h] = "record" /\ Launches(h)' /\ Early(h)' /\ Opened(h)' /\ ~Holds(h)'
        /\ ~Follows(h)' /\ ~Adopts(h)' /\ Frame(h)
        /\ job'[h].session = s /\ job'[h].request = job[h].request
    BY <2>1 DEF Stepped, Frame, Launches, Launching, Early, Leaving, Opened, Holds, Holding,
                Follows, Adopts
  <2>4. AtWork' = AtWork /\ Begun' = Begun /\ turn'[s] = "open"
    BY <1>0, <1>2 DEF TypeOK, AtWork, Begun
  <2>5. Place(h)'
    BY <1>0, <2>3, <2>4 DEF Place
  <2>6. Places'
    <3>1. \A g \in Host : g # h /\ Opened(g) =>
            turn'[job[g].session] = "open" /\ job[g].session # s
      BY <1>0, <1>2 DEF Places, Place, TypeOK
    <3>2. Known'
      BY <1>0, <2>2, <2>4 DEF Places, Known, HasSession, WatchKept
    <3> QED
      BY <1>0, <2>3, <2>4, <2>5, <3>1, <3>2, PlacesKept
  <2>7. ASSUME Locked PROVE Locked'
    BY <2>2, <2>3, <2>7, LockedKept
  <2>8. ASSUME Round PROVE Round'
    <3>1. Fresh' /\ \A g \in Host : Launches(g)' => g = h
      BY <1>0, <2>2, <2>3, <2>8, LaunchGoesOn DEF Round
    <3>2. Owned(h)' /\ Decided(h)'
      BY <1>0, <2>2, <2>3, <2>4, <2>8, <3>1 DEF Round, Owned, Decided
    <3>3. Quiet(h)
      BY <1>0, <2>2, <2>3, <2>4, <2>8, WatchesKept, BoundStays DEF Quiet
    <3> QED
      BY <1>0, <2>2, <2>4, <2>8, <3>2, <3>3, RoundKept, WatchesKept
  <2> QED
    BY <2>2, <2>6, <2>7, <2>8 DEF IInv
<1> QED
  BY <1>1, <1>2 DEF CreateSession

LEMMA RecordCreatedKeeps ==
  ASSUME IInv, NEW h \in Host, RecordCreated(h)
  PROVE  IInv'
<1> USE DEF locks, service, change
<1>0. /\ TypeOK /\ Places /\ pc[h] = "record" /\ Launches(h) /\ Early(h) /\ Opened(h)
      /\ job[h].request \in Requests /\ job[h].request # None
      /\ job[h].session \in Session /\ turn[job[h].session] = "open"
  BY ClaimAssumption DEF IInv, RecordCreated, Launches, Launching, Early, Opened, Places, Place,
                         Requests
<1>1. /\ claim' \in ClaimRecord /\ claim' # None /\ claim'.live /\ ~claim'.sent
      /\ claim'.session = job[h].session /\ claim'.request = job[h].request
  <2>1. claim' = Record(job[h].session, job[h].request, FALSE, TRUE)
    BY DEF RecordCreated
  <2> QED
    BY <1>0, <2>1, NoneIsNoClaim DEF Record, ClaimRecord
<1>2. Stepped(h, "prompt", job[h].session, job[h].request, job[h].then)
  BY <1>0, GotoSteps DEF RecordCreated, Stages, Launching
<1>3. /\ TypeOK'
      /\ UNCHANGED <<lock, watch, turn, bound, settled, slips>>
  BY <1>0, <1>1, <1>2 DEF RecordCreated, TypeOK, Stepped, Job
<1>4. /\ pc'[h] = "prompt" /\ Launches(h)' /\ ~Early(h)' /\ ~Holds(h)'
      /\ ~Follows(h)' /\ ~Adopts(h)' /\ Frame(h)
      /\ job'[h].session = job[h].session /\ job'[h].request = job[h].request
  BY <1>2 DEF Stepped, Frame, Launches, Launching, Early, Leaving, Holds, Holding,
              Follows, Adopts
<1>5. Place(h)' /\ Decided(h)'
  BY <1>0, <1>3, <1>4 DEF Place, Opened, Decided
<1>6. job[h].session \notin Begun
  BY <1>0 DEF Begun
<1>7. ASSUME Locked, Round
      PROVE  /\ Alone(h) /\ Owned(h)' /\ Recorded' /\ Decisive'
             /\ \A g \in Host : g # h /\ pc[g] = "adopt" => job[g].session # claim'.session
  <2>1. Alone(h) /\ Owned(h)
    BY <1>0, <1>7, LauncherIsAlone DEF Round
  <2>2. AtWork' = {} /\ ~settled'
    BY <1>0, <1>3, <2>1 DEF Owned, AtWork
  <2>3. \A g \in Host : Launches(g)' => g = h
    BY <1>4, <2>1 DEF Alone, Frame, Launches
  <2>4. \A g \in Host : Follows(g) => job[g].session # claim'.session
    BY <1>0, <1>1, <1>6 DEF Places, Place
  <2>5. Fresh'
    <3>1. \A g \in Host : Follows(g)' => job'[g].session # claim'.session
      BY <1>4, <2>4 DEF Frame, Follows, Adopts, Leaving
    <3> QED
      BY <1>0, <1>1, <1>3, <1>6, <3>1 DEF Fresh, Places, Known
  <2>6. Owned(h)'
    BY <1>1, <1>4, <2>2, <2>3, <2>5 DEF Owned
  <2> QED
    BY <2>1, <2>2, <2>4, <2>6 DEF Recorded, Decisive, Follows, Adopts
<1> QED
  BY <1>0, <1>1, <1>2, <1>3, <1>4, <1>5, <1>7, ClaimStep

LEMMA RecordSentKeeps ==
  ASSUME IInv, NEW h \in Host, RecordSent(h)
  PROVE  IInv'
<1> USE DEF locks, service, change
<1>0. /\ TypeOK /\ Places /\ pc[h] = "mark" /\ Launches(h)
      /\ job[h].request \in Requests /\ job[h].request # None
      /\ job[h].session \in Begun /\ job[h].session \in Session
  BY ClaimAssumption DEF IInv, RecordSent, Launches, Launching, Places, Place, Requests, Begun
<1>1. /\ claim' \in ClaimRecord /\ claim' # None /\ claim'.live /\ claim'.sent
      /\ claim'.session = job[h].session /\ claim'.request = job[h].request
  <2>1. claim' = Record(job[h].session, job[h].request, TRUE, TRUE)
    BY DEF RecordSent
  <2> QED
    BY <1>0, <2>1, NoneIsNoClaim DEF Record, ClaimRecord
<1>2. Stepped(h, "bind", job[h].session, job[h].request, job[h].then)
  BY <1>0, GotoSteps DEF RecordSent, Stages, Launching
<1>3. /\ TypeOK'
      /\ UNCHANGED <<lock, watch, turn, bound, settled, slips>>
  BY <1>0, <1>1, <1>2 DEF RecordSent, TypeOK, Stepped, Job
<1>4. /\ pc'[h] = "bind" /\ Launches(h)' /\ ~Early(h)' /\ ~Holds(h)' /\ ~Opened(h)'
      /\ ~Follows(h)' /\ ~Adopts(h)' /\ Frame(h) /\ Begun' = Begun /\ WatchKept
      /\ job'[h].session = job[h].session /\ job'[h].request = job[h].request
  BY <1>2, <1>3 DEF Stepped, Frame, Launches, Launching, Early, Leaving, Holds, Holding,
                    Opened, Follows, Adopts, Begun, WatchKept
<1>5. Place(h)' /\ Decided(h)'
  BY <1>0, <1>4 DEF Place, Decided
<1>6. ASSUME Locked, Round PROVE Alone(h) /\ Owned(h)' /\ Recorded' /\ Decisive'
  <2>1. Alone(h) /\ Owned(h)
    BY <1>0, <1>6, LauncherIsAlone DEF Round
  <2>2. claim.session = job[h].session /\ ~settled
    BY <1>0, <2>1 DEF Owned
  <2>3. Fresh' /\ \A g \in Host : Launches(g)' => g = h
    BY <1>0, <1>1, <1>3, <1>4, <2>1, <2>2, LaunchGoesOn
  <2>4. Owned(h)'
    BY <1>1, <1>3, <1>4, <2>2, <2>3 DEF Owned
  <2>5. Recorded'
    BY <1>1, <1>3, <1>6, <2>2 DEF Round, Recorded, AtWork
  <2> QED
    BY <1>3, <2>1, <2>2, <2>4, <2>5 DEF Decisive
<1> QED
  BY <1>0, <1>1, <1>2, <1>3, <1>4, <1>5, <1>6, ClaimStep

LEMMA DiscardSessionKeeps ==
  ASSUME IInv, NEW h \in Host, DiscardSession(h)
  PROVE  IInv'
<1> USE DEF locks, service, change
<1>0. TypeOK /\ Places /\ pc[h] = "discard" /\ Launches(h)
  BY DEF IInv, DiscardSession, Launches
<1>1. claim' \in ClaimRecord /\ ~HasSession(claim)'
  BY DEF DiscardSession, HasSession, Record, ClaimRecord
<1>2. Stepped(h, "idle", None, None, "idle")
  BY <1>0, AfreshSteps DEF DiscardSession, Stages
<1>3. /\ TypeOK'
      /\ UNCHANGED <<lock, watch, turn, bound, settled, slips>>
  BY <1>0, <1>1, <1>2 DEF DiscardSession, TypeOK, Stepped, Job
<1>4. /\ pc'[h] = "idle" /\ ~Launches(h)' /\ ~Holds(h)' /\ ~Opened(h)' /\ ~Follows(h)'
      /\ ~Adopts(h)'
  BY <1>2 DEF Stepped, Launches, Launching, Holds, Holding, Opened, Follows, Adopts, Leaving
<1>5. Place(h)' /\ Owned(h)' /\ Decided(h)'
  BY <1>4 DEF Place, Owned, Decided
<1>6. ASSUME Round PROVE Alone(h) /\ Recorded' /\ Decisive'
  <2>1. Alone(h) /\ Owned(h)
    BY <1>0, <1>6, LauncherIsAlone DEF Round
  <2>2. AtWork' = {} /\ ~settled'
    BY <1>0, <1>3, <2>1 DEF Owned, AtWork
  <2> QED
    BY <2>1, <2>2 DEF Recorded, Decisive
<1> QED
  BY <1>0, <1>1, <1>2, <1>3, <1>4, <1>5, <1>6, ClaimStep

LEMMA PromptKeeps ==
  ASSUME IInv, NEW h \in Host, Prompt(h)
  PROVE  IInv'
<1> USE DEF locks, service, change
<1>0. /\ TypeOK /\ Places /\ pc[h] = "prompt" /\ Launches(h) /\ Opened(h)
      /\ job[h].request \in Requests
      /\ job[h].session \in Session /\ turn[job[h].session] = "open"
  BY DEF IInv, Prompt, Launches, Launching, Opened, Places, Place
<1>1. PICK stage \in {"mark", "cancel"} :
        /\ Goto(h, stage)
        /\ \/ turn' = [turn EXCEPT ![job[h].session] = "live"]
           \/ turn' = turn /\ stage = "cancel"
  BY DEF Prompt
<1> DEFINE TurnState == {"unused", "open", "live", "ended", "gone"}
<1>9. /\ turn' \in [Session -> TurnState]
      /\ \A s \in Session : turn'[s] = turn[s] \/ (s = job[h].session /\ turn'[s] = "live")
      /\ stage = "mark" => turn'[job[h].session] = "live"
  <2>1. turn \in [Session -> TurnState]
    BY <1>0 DEF TypeOK
  <2>2. CASE turn' = [turn EXCEPT ![job[h].session] = "live"]
    BY <1>0, <2>1, <2>2
  <2>3. CASE turn' = turn /\ stage = "cancel"
    BY <2>1, <2>3
  <2> QED
    BY <1>1, <2>2, <2>3
<1>2. Stepped(h, stage, job[h].session, job[h].request, job[h].then) /\ job' = job
  <2>1. job' = job
    BY DEF Prompt
  <2> QED
    BY <1>0, <1>1, <2>1, GotoSteps DEF Stages, Launching
<1>3. /\ TypeOK' /\ WatchKept
      /\ UNCHANGED <<claim, lock, watch, bound, settled, slips>>
  <2>1. UNCHANGED <<claim, locks, watch, settled, change, created, slips>>
    BY DEF Prompt
  <2> QED
    BY <1>0, <1>9, <1>2, <2>1 DEF TypeOK, Stepped, Job, WatchKept
<1>4. /\ pc'[h] = stage /\ Launches(h)' /\ ~Early(h)' /\ ~Holds(h)' /\ ~Opened(h)'
      /\ ~Follows(h)' /\ ~Adopts(h)' /\ Frame(h)
  BY <1>1, <1>2 DEF Stepped, Frame, Launches, Launching, Early, Leaving, Holds, Holding,
                    Opened, Follows, Adopts
<1>5. /\ Begun \subseteq Begun' /\ (stage = "mark" => job[h].session \in Begun')
      /\ AtWork' \subseteq AtWork \union {job[h].session}
  BY <1>0, <1>9 DEF Begun, AtWork
<1>6. Places'
  <2>1. Place(h)'
    BY <1>0, <1>1, <1>2, <1>4, <1>5 DEF Place
  <2>2. \A g \in Host : g # h /\ Opened(g) => turn'[job[g].session] = "open"
    <3> TAKE g \in Host
    <3> HAVE g # h /\ Opened(g)
    <3>1. turn[job[g].session] = "open" /\ job[g].session # job[h].session
      BY <1>0 DEF Places, Place, Apart
    <3> QED
      BY <1>0, <1>9, <3>1 DEF Places, Place
  <2>3. Known'
    BY <1>0, <1>3, <1>5 DEF Places, Known, HasSession
  <2> QED
    BY <1>0, <1>4, <1>5, <2>1, <2>2, <2>3, PlacesKept
<1>7. ASSUME Locked PROVE Locked'
  BY <1>3, <1>4, <1>7, LockedKept
<1>8. ASSUME Round PROVE Round'
  <2>1. Alone(h) /\ Owned(h)
    BY <1>0, <1>8, LauncherIsAlone DEF Round
  <2>2. /\ claim # None /\ claim.session = job[h].session /\ ~settled /\ AtWork = {}
        /\ claim.live /\ claim.request = job[h].request
    BY <1>0, <2>1 DEF Owned
  <2>3. Fresh' /\ \A g \in Host : Launches(g)' => g = h
    BY <1>0, <1>3, <1>4, <2>1, LaunchGoesOn
  <2>4. Owned(h)' /\ Decided(h)'
    BY <1>1, <1>2, <1>3, <1>4, <2>2, <2>3 DEF Owned, Decided
  <2>5. Recorded' /\ Decisive'
    BY <1>3, <1>5, <2>2 DEF Recorded, Decisive
  <2>6. Over'
    BY <1>0, <1>3, <1>5, <2>2 DEF Over, Places, Known, Begun
  <2>7. \A g \in Host : g # h /\ pc[g] = "adopt" /\ HasSession(claim)'
                          /\ claim'.session = job[g].session => claim'.sent
    BY <1>3, <1>8 DEF Round, Decided, HasSession
  <2> QED
    BY <1>4, <2>1, <2>4, <2>5, <2>6, <2>7, RewriteKept
<1> QED
  BY <1>3, <1>6, <1>7, <1>8 DEF IInv

LEMMA BindRoleKeeps ==
  ASSUME IInv, NEW h \in Host, BindRole(h)
  PROVE  IInv'
<1> USE DEF locks, service, change
<1>0. /\ TypeOK /\ Places /\ pc[h] = "bind" /\ Launches(h)
      /\ job[h].request \in Requests /\ job[h].session \in Begun /\ job[h].session \in Session
  BY DEF IInv, BindRole, Launches, Launching, Places, Place, Begun
<1>1. CASE bound' = bound \union {job[h].session} /\ Goto(h, "audit")
  <2>1. Stepped(h, "audit", job[h].session, job[h].request, job[h].then)
    BY <1>0, <1>1, GotoSteps DEF BindRole, Stages
  <2>2. TypeOK' /\ UNCHANGED <<claim, lock, watch, turn, settled, slips>>
    BY <1>0, <1>1, <2>1 DEF BindRole, TypeOK, Stepped, Job
  <2>3. /\ pc'[h] = "audit" /\ ~Launches(h)' /\ ~Opened(h)' /\ ~Holds(h)' /\ ~Adopts(h)'
        /\ job'[h].session = job[h].session /\ job'[h].request = job[h].request
    BY <2>1 DEF Stepped, Launches, Launching, Opened, Holds, Holding, Adopts, Leaving
  <2>4. Place(h)' /\ Owned(h)' /\ Decided(h)'
    BY <1>0, <2>2, <2>3 DEF Place, Begun, Owned, Decided
  <2>5. ASSUME Round PROVE BoundKept(h)
    <3>1. Alone(h)
      BY <1>0, <2>5, LauncherIsAlone
    <3> QED
      BY <1>1, <2>2, <3>1 DEF Alone, Deciding, BoundKept, Confirmed
  <2> QED
    BY <1>0, <1>1, <2>1, <2>2, <2>3, <2>4, <2>5, BoundStep
<1>2. CASE Goto(h, "cancel") /\ UNCHANGED bound
  <2>1. Stepped(h, "cancel", job[h].session, job[h].request, job[h].then)
    BY <1>0, <1>2, GotoSteps DEF BindRole, Stages
  <2>2. TypeOK' /\ Calm /\ job' = job
    BY <1>0, <1>2, <2>1 DEF BindRole, TypeOK, Stepped, Job, Calm, Still, WatchKept
  <2>3. /\ pc'[h] = "cancel" /\ Launches(h)' /\ ~Early(h)' /\ ~Opened(h)' /\ ~Holds(h)'
        /\ ~Follows(h)' /\ ~Adopts(h)' /\ Frame(h)
    BY <2>1 DEF Stepped, Frame, Launches, Early, Leaving, Opened, Holds, Holding, Follows, Adopts
  <2>4. Place(h)'
    BY <1>0, <2>2, <2>3 DEF Place
  <2>5. ASSUME Round PROVE Owned(h)' /\ Decided(h)'
    <3>1. Fresh' /\ \A g \in Host : Launches(g)' => g = h
      BY <1>0, <2>2, <2>3, <2>5, LaunchGoesOn DEF Round, Calm, Still
    <3>2. Owned(h)'
      BY <1>0, <2>2, <2>3, <2>5, <3>1 DEF Round, Owned, Calm, Still
    <3> QED
      BY <2>3, <3>2 DEF Decided
  <2> QED
    BY <1>0, <2>1, <2>2, <2>3, <2>4, <2>5, MoveStep
<1> QED
  BY <1>1, <1>2 DEF BindRole

LEMMA CancelKeeps ==
  ASSUME IInv, NEW h \in Host, Cancel(h)
  PROVE  IInv'
<1> USE DEF locks, service, change
<1>0. /\ TypeOK /\ Places /\ pc[h] = "cancel" /\ Launches(h)
      /\ job[h].request \in Requests /\ job[h].session \in Session
  BY DEF IInv, Cancel, Launches, Places, Place
<1>1. Stepped(h, "discard", job[h].session, job[h].request, job[h].then) /\ job' = job
  BY <1>0, GotoSteps DEF Cancel, Stages
<1>2. /\ slips' \subseteq Windows /\ slips \subseteq slips'
      /\ \A s \in Session : turn'[s] = turn[s] \/ (turn[s] = "live" /\ turn'[s] = "ended")
      /\ turn' \in [Session -> {"unused", "open", "live", "ended", "gone"}]
      /\ slips' = {} => turn'[job[h].session] # "live"
  <2> DEFINE s == job[h].session
  <2>1. CASE turn' = [turn EXCEPT ![s] = IF @ = "live" THEN "ended" ELSE @] /\ slips' = slips
    BY <1>0, <2>1 DEF TypeOK
  <2>2. CASE turn' = turn /\ turn[s] = "live" /\ Slip("reviewer_stranded")
             /\ "reviewer_stranded" \in Windows
    BY <1>0, <2>2 DEF Slip, TypeOK
  <2>3. CASE turn' = turn /\ turn[s] # "live" /\ slips' = slips
    BY <1>0, <2>3 DEF TypeOK
  <2> QED
    BY <2>1, <2>2, <2>3 DEF Cancel
<1>3. TypeOK' /\ WatchKept /\ UNCHANGED <<claim, lock, watch, bound, settled>>
  BY <1>0, <1>1, <1>2 DEF Cancel, TypeOK, Stepped, Job, WatchKept
<1>4. /\ pc'[h] = "discard" /\ Launches(h)' /\ ~Early(h)' /\ ~Opened(h)' /\ ~Holds(h)'
      /\ ~Follows(h)' /\ ~Adopts(h)' /\ Frame(h)
  BY <1>1 DEF Stepped, Frame, Launches, Early, Leaving, Opened, Holds, Holding, Follows, Adopts
<1>5. Begun' = Begun /\ AtWork' \subseteq AtWork
  BY <1>2 DEF Begun, AtWork
<1>6. Places'
  <2>1. Place(h)'
    BY <1>0, <1>1, <1>4 DEF Place
  <2>2. \A g \in Host : g # h /\ Opened(g) => turn'[job[g].session] = "open"
    BY <1>0, <1>2 DEF Places, Place
  <2>3. Known'
    BY <1>0, <1>3, <1>5 DEF Places, Known, HasSession
  <2> QED
    BY <1>0, <1>4, <1>5, <2>1, <2>2, <2>3, PlacesKept
<1>7. ASSUME Locked PROVE Locked'
  BY <1>3, <1>4, <1>7, LockedKept
<1>8. ASSUME Round, slips' = {} PROVE Round'
  <2>1. Fresh' /\ \A g \in Host : Launches(g)' => g = h
    BY <1>0, <1>3, <1>4, <1>8, LaunchGoesOn DEF Round
  <2>2. AtWork' = {}
    <3>1. AtWork \subseteq {job[h].session}
      BY <1>0, <1>8 DEF Round, Recorded, Owned
    <3> QED
      BY <1>2, <1>5, <1>8, <3>1 DEF AtWork
  <2>3. Owned(h)' /\ Decided(h)'
    BY <1>0, <1>1, <1>3, <1>4, <1>8, <2>1, <2>2 DEF Round, Owned, Decided
  <2>4. Quiet(h)
    BY <1>0, <1>3, <1>4, <1>5, <1>8, WatchesKept, BoundStays DEF Quiet
  <2> QED
    BY <1>0, <1>3, <1>5, <1>8, <2>3, <2>4, RoundKept, WatchesKept
<1>9. slips' = {} => slips = {}
  BY <1>2
<1> QED
  BY <1>3, <1>6, <1>7, <1>8, <1>9 DEF IInv

LEMMA ObservedKeeps ==
  ASSUME IInv, NEW h \in Host, AuditRequested(h) \/ Reattach(h)
  PROVE  IInv'
<1> USE DEF locks, service, change
<1>0. /\ TypeOK /\ Places /\ Follows(h) /\ job[h].session \in Begun /\ job[h].session \in Session
      /\ (pc[h] = "audit" => job[h].request \in Requests)
  BY DEF IInv, AuditRequested, Reattach, Follows, Adopts, Places, Place, Begun
<1>1. Stepped(h, "idle", None, None, "idle")
  BY <1>0, AfreshSteps DEF AuditRequested, Reattach, Stages
<1>2. /\ watch' \in [Host -> [Session -> Watch]]
      /\ \A g \in Host, s \in Session :
           \/ watch'[g][s] = watch[g][s]
           \/ g = h /\ s = job[h].session /\ watch'[g][s].stage = "on"
  <2> DEFINE s == job[h].session
             w == [watch[h][s] EXCEPT !.stage = "on"]
             on == [watch EXCEPT ![h] = [watch[h] EXCEPT ![s] = w]]
  <2>1. watch \in [Host -> [Session -> Watch]] /\ watch[h] \in [Session -> Watch]
    BY <1>0 DEF TypeOK, Watch
  <2>2. w \in Watch /\ w.stage = "on"
    BY <1>0, <2>1 DEF Watch
  <2>3. [watch[h] EXCEPT ![s] = w] \in [Session -> Watch]
    BY <2>1, <2>2
  <2>4. on \in [Host -> [Session -> Watch]]
    BY <2>1, <2>3
  <2>5. \A g \in Host, t \in Session :
           on[g][t] = watch[g][t] \/ (g = h /\ t = s /\ on[g][t].stage = "on")
    BY <1>0, <2>1, <2>2
  <2>6. watch' = on \/ watch' = watch
    BY DEF AuditRequested, Reattach
  <2>7. CASE watch' = on
    BY <2>4, <2>5, <2>7
  <2>8. CASE watch' = watch
    BY <2>1, <2>8
  <2> QED
    BY <2>6, <2>7, <2>8
<1>3. TypeOK' /\ UNCHANGED <<claim, lock, turn, bound, settled, slips>>
  <2>1. UNCHANGED <<claim, locks, turn, bound, settled, created, slips>>
    BY DEF AuditRequested, Reattach
  <2>2. audited' \subseteq Requests
    BY <1>0 DEF AuditRequested, Reattach, TypeOK
  <2> QED
    BY <1>0, <1>1, <1>2, <2>1, <2>2 DEF TypeOK, Stepped, Job, Watch
<1>4. /\ pc'[h] = "idle" /\ ~Launches(h)' /\ ~Opened(h)' /\ ~Holds(h)' /\ ~Follows(h)'
      /\ ~Adopts(h)' /\ Frame(h) /\ Begun' = Begun /\ AtWork' = AtWork
  BY <1>1, <1>3 DEF Stepped, Frame, Launches, Launching, Leaving, Opened, Holds, Holding,
                    Follows, Adopts, Begun, AtWork
<1>5. Place(h)' /\ Owned(h)' /\ Decided(h)'
  BY <1>4 DEF Place, Owned, Decided
<1>6. Places'
  <2>1. \A g \in Host : g # h /\ Opened(g) => turn'[job[g].session] = "open"
    BY <1>0, <1>3 DEF Places, Place
  <2>2. Known'
    BY <1>0, <1>2, <1>3, <1>4 DEF Places, Known, HasSession
  <2> QED
    BY <1>0, <1>4, <1>5, <2>1, <2>2, PlacesKept
<1>7. ASSUME Locked PROVE Locked'
  BY <1>3, <1>4, <1>7, LockedKept
<1>8. ASSUME Round PROVE Round'
  <2>1. WatchesFollow(h)
    BY <1>0, <1>2 DEF WatchesFollow
  <2>2. Over'
    BY <1>2, <1>4, <1>8 DEF Round, Over
  <2>3. WatchesEnd
    <3>1. settled => claim.session \in Session
      BY <1>0, <1>8 DEF Round, Decisive, Confirmed, TypeOK
    <3> QED
      BY <1>2, <3>1 DEF WatchesEnd
  <2>4. Quiet(h)
    BY <1>3, <1>4, <2>1, BoundStays DEF Quiet
  <2> QED
    BY <1>0, <1>3, <1>5, <1>8, <2>2, <2>3, <2>4, RoundKept
<1> QED
  BY <1>3, <1>6, <1>7, <1>8 DEF IInv

-----------------------------------------------------------------------------
(* The observers of a turn, a disposal and a crash.                        *)
LEMMA LeaveAllKeeps ==
  ASSUME IInv, NEW h \in Host, Dispose(h) \/ Crash(h)
  PROVE  IInv'
<1> USE DEF locks, service, change
<1>0. TypeOK /\ Places
  BY DEF IInv
<1>1. watch' \in [Host -> [Session -> Watch]] /\ WatchKept
  <2>1. watch' = [watch EXCEPT ![h] = [s \in Session |-> NoWatch]]
    BY DEF Dispose, Crash
  <2>2. NoWatch \in Watch /\ NoWatch.stage = "off"
    BY DEF NoWatch, Watch
  <2>3. watch \in [Host -> [Session -> Watch]]
    BY <1>0 DEF TypeOK, Watch
  <2>4. [s \in Session |-> NoWatch] \in [Session -> Watch]
    BY <2>2
  <2> QED
    BY <2>1, <2>2, <2>3, <2>4 DEF WatchKept
<1>2. UNCHANGED <<claim, locks, service, change, created, slips>>
  BY DEF Dispose, Crash
<1>3. Calm
  BY <1>1, <1>2 DEF Calm, Still
<1>4. ASSUME pc' \in [Host -> Stages], job' \in [Host -> Job] PROVE TypeOK'
  BY <1>0, <1>1, <1>2, <1>4 DEF TypeOK, Job, Watch
<1>5. CASE Leave(h, "idle", None, None) /\ pc[h] \in Holding
  <2>1. Stepped(h, "release", None, None, "idle")
    BY <1>0, <1>5, LeaveSteps
  <2>2. Holds(h)
    BY <1>5 DEF Holds
  <2> QED
    BY <1>3, <1>4, <2>1, <2>2, AsideStep DEF Stepped, Aside, Leaving
<1>6. ASSUME NEW stage \in {"idle", "dead"}, GotoAfresh(h, stage) PROVE IInv'
  <2>1. Stepped(h, stage, None, None, "idle")
    BY <1>0, <1>6, AfreshSteps DEF Stages
  <2> QED
    BY <1>3, <1>4, <2>1, AsideStep DEF Stepped, Aside, Away, Holds, Holding
<1> QED
  BY <1>5, <1>6 DEF Dispose, Crash, Holding

(* What a step that moves no reservation leaves alone.                     *)
LEMMA ObserverPlaces ==
  ASSUME TypeOK, Places, UNCHANGED <<pc, job, turn>>, Known'
  PROVE  Places'
<1>1. \A h \in Host : Place(h)'
  BY DEF Places, Place, Follows, Adopts, Leaving, Launches, Opened, Begun
<1>2. Apart'
  BY DEF Places, Apart, Opened
<1> QED
  BY <1>1, <1>2 DEF Places

LEMMA ObserverKept ==
  ASSUME TypeOK, TypeOK', Places, Round, NEW h \in Host,
         UNCHANGED <<pc, job, claim, settled, turn>>, bound' \subseteq bound, BoundKept(h),
         \A g \in Host, t \in Session : watch'[g][t].stage # "off" => watch[g][t].stage # "off",
         Over', WatchesEnd
  PROVE  Round'
<1>1. Quiet(h)
  BY DEF Quiet, WatchesFollow, Frame, AtWork, Launches, Follows, Adopts, Leaving
<1>2. Decided(h)'
  BY DEF Round, Decided, Free, HasSession, AtWork
<1>3. ASSUME Launches(h)' PROVE Owned(h)'
  <2>1. Launches(h) /\ Owned(h)
    BY <1>3 DEF Round, Launches
  <2>2. Fresh'
    BY <2>1 DEF Owned, Fresh, Follows, Adopts, Leaving
  <2> QED
    BY <2>1, <2>2 DEF Owned, Launches, Early, Leaving, AtWork
<1> QED
  BY <1>1, <1>2, <1>3, RoundKept DEF Owned

LEMMA WatchSet ==
  ASSUME TypeOK, NEW h \in Host, NEW s \in Session, NEW w \in Watch,
         watch' = [watch EXCEPT ![h][s] = w]
  PROVE  /\ watch' \in [Host -> [Session -> Watch]] /\ watch'[h][s] = w
         /\ \A g \in Host, t \in Session : g # h \/ t # s => watch'[g][t] = watch[g][t]
<1>1. watch \in [Host -> [Session -> Watch]] /\ watch[h] \in [Session -> Watch]
  BY DEF TypeOK, Watch
<1>2. [watch[h] EXCEPT ![s] = w] \in [Session -> Watch]
  BY <1>1
<1>3. watch' = [watch EXCEPT ![h] = [watch[h] EXCEPT ![s] = w]]
  OBVIOUS
<1> QED
  BY <1>1, <1>2, <1>3

LEMMA TurnObservedKeeps ==
  ASSUME IInv, NEW h \in Host, NEW s \in Session, TurnObserved(h, s)
  PROVE  IInv'
<1> USE DEF locks, service, change
<1>0. TypeOK /\ Places /\ s \in Begun /\ watch[h][s].stage = "on"
  BY DEF IInv, TurnObserved, Places, Known
<1>1. UNCHANGED <<claim, locks, pc, job, service, change, created>>
  BY DEF TurnObserved
<1>2. PICK w \in Watch :
        /\ watch' = [watch EXCEPT ![h][s] = w]
        /\ slips' \subseteq Windows /\ slips \subseteq slips'
        /\ \/ w.stage = "off"
           \/ w.stage = "expire" /\ ~settled /\ (slips' = {} => turn[s] # "live")
  <2>1. CASE settled \/ ~HasSession(claim) \/ claim.session # s
    <3>1. NoWatch \in Watch /\ NoWatch.stage = "off"
      BY DEF NoWatch, Watch
    <3> QED
      BY <1>0, <2>1, <3>1 DEF TurnObserved, TypeOK
  <2>2. CASE ~(settled \/ ~HasSession(claim) \/ claim.session # s)
    <3> DEFINE w == [stage |-> "expire", request |-> claim.request]
    <3>1. w \in Watch /\ w.stage = "expire"
      BY <1>0, <2>2 DEF Watch, HasSession, TypeOK, ClaimRecord
    <3>2. slips' \subseteq Windows /\ slips \subseteq slips' /\ (slips' = {} => turn[s] # "live")
      <4>1. CASE turn[s] = "live"
        BY <1>0, <2>2, <4>1 DEF TurnObserved, Slip, TypeOK
      <4>2. CASE turn[s] # "live"
        BY <1>0, <2>2, <4>2 DEF TurnObserved, TypeOK
      <4> QED
        BY <4>1, <4>2
    <3>3. watch' = [watch EXCEPT ![h][s] = w]
      BY <2>2 DEF TurnObserved
    <3> QED
      BY <2>2, <3>1, <3>2, <3>3
  <2> QED
    BY <2>1, <2>2
<1>3. /\ watch' \in [Host -> [Session -> Watch]] /\ watch'[h][s] = w
      /\ \A g \in Host, t \in Session : g # h \/ t # s => watch'[g][t] = watch[g][t]
  BY <1>0, <1>2, WatchSet
<1>4. TypeOK'
  BY <1>0, <1>1, <1>2, <1>3 DEF TypeOK, Watch
<1>5. Places'
  <2>1. Known'
    BY <1>0, <1>1, <1>3 DEF Places, Known, HasSession, Begun
  <2> QED
    BY <1>0, <1>1, <2>1, ObserverPlaces
<1>6. Locked => Locked'
  BY <1>1 DEF Locked, Holds
<1>7. ASSUME Round, slips' = {} PROVE Round'
  <2>1. Over'
    BY <1>1, <1>2, <1>3, <1>7 DEF Round, Over, AtWork
  <2>2. WatchesEnd
    <3>1. settled => claim.session \in Session
      BY <1>0, <1>7 DEF Round, Decisive, Confirmed, TypeOK
    <3> QED
      BY <1>2, <1>3, <3>1 DEF WatchesEnd
  <2>3. \A g \in Host, t \in Session : watch'[g][t].stage # "off" => watch[g][t].stage # "off"
    BY <1>0, <1>3
  <2>4. BoundKept(h)
    BY <1>1, BoundStays
  <2> QED
    BY <1>0, <1>1, <1>4, <1>7, <2>1, <2>2, <2>3, <2>4, ObserverKept
<1> QED
  BY <1>2, <1>4, <1>5, <1>6, <1>7 DEF IInv

LEMMA UnbindKeeps ==
  ASSUME IInv, NEW h \in Host, NEW s \in Session, Unbind(h, s)
  PROVE  IInv'
<1> USE DEF locks, service, change
<1>0. TypeOK /\ Places /\ watch[h][s].stage = "unbind" /\ watch[h][s] \in Watch
  BY DEF IInv, Unbind, TypeOK, Watch
<1>1. UNCHANGED <<claim, locks, pc, job, service, audited, created, slips>> /\ bound' = bound \ {s}
  BY DEF Unbind
<1> DEFINE w == [watch[h][s] EXCEPT !.stage = "rebuild"]
<1>2. w \in Watch /\ w.stage = "rebuild"
  BY <1>0 DEF Watch
<1>3. watch' = [watch EXCEPT ![h][s] = w]
  BY DEF Unbind
<1> HIDE DEF w
<1>4. /\ watch' \in [Host -> [Session -> Watch]] /\ watch'[h][s] = w
      /\ \A g \in Host, t \in Session : g # h \/ t # s => watch'[g][t] = watch[g][t]
  BY <1>0, <1>2, <1>3, WatchSet
<1>5. TypeOK'
  BY <1>0, <1>1, <1>4 DEF TypeOK, Watch
<1>6. \A g \in Host, t \in Session : watch'[g][t].stage # "off" => watch[g][t].stage # "off"
  BY <1>0, <1>4
<1>7. Places'
  <2>1. Known'
    BY <1>0, <1>1, <1>6 DEF Places, Known, HasSession, Begun
  <2> QED
    BY <1>0, <1>1, <2>1, ObserverPlaces
<1>8. Locked => Locked'
  BY <1>1 DEF Locked, Holds
<1>9. ASSUME Round PROVE Round'
  <2>1. Over'
    BY <1>0, <1>1, <1>2, <1>4, <1>9 DEF Round, Over, AtWork
  <2>2. settled => claim.session \in Session /\ claim.session # s
    BY <1>0, <1>9 DEF Round, Decisive, Confirmed, TypeOK
  <2>3. WatchesEnd
    BY <1>2, <1>4, <2>2 DEF WatchesEnd
  <2>4. BoundKept(h)
    BY <1>1, <2>2 DEF BoundKept, Confirmed, HasSession
  <2> QED
    BY <1>0, <1>1, <1>5, <1>6, <1>9, <2>1, <2>3, <2>4, ObserverKept
<1> QED
  BY <1>1, <1>5, <1>7, <1>8, <1>9 DEF IInv

LEMMA RebuildKeeps ==
  ASSUME IInv, NEW h \in Host, NEW s \in Session, Rebuild(h, s)
  PROVE  IInv'
<1> USE DEF locks, service, change
<1>0. TypeOK
  BY DEF IInv
<1>1. NoWatch \in Watch /\ NoWatch.stage = "off"
  BY DEF NoWatch, Watch
<1>2. /\ watch' \in [Host -> [Session -> Watch]] /\ watch'[h][s] = NoWatch
      /\ \A g \in Host, t \in Session : g # h \/ t # s => watch'[g][t] = watch[g][t]
  BY <1>0, <1>1, WatchSet DEF Rebuild
<1> DEFINE stage == IF settled THEN "idle" ELSE "look"
<1>3. Stepped(h, stage, job[h].session, job[h].request, job[h].then)
  BY <1>0, GotoSteps DEF Rebuild, Stages
<1>4. UNCHANGED <<claim, locks, job, service, change, created, slips>>
  BY DEF Rebuild
<1>5. TypeOK' /\ Calm
  BY <1>0, <1>1, <1>2, <1>3, <1>4 DEF TypeOK, Stepped, Watch, Calm, Still, WatchKept
<1> QED
  BY <1>3, <1>5, AsideStep DEF Stepped, Aside, Away, Holds, Holding

LEMMA ExpireRoundKeeps ==
  ASSUME IInv, NEW h \in Host, NEW s \in Session, ExpireRound(h, s)
  PROVE  IInv'
<1> USE DEF locks, service, change
<1>0. /\ TypeOK /\ Places /\ watch[h][s].stage = "expire" /\ watch[h][s] \in Watch
      /\ watch[h][s].request \in Requests \union {None}
  BY DEF IInv, ExpireRound, TypeOK, Watch
<1>1. UNCHANGED <<locks, pc, job, service, change, created>>
  BY DEF ExpireRound
<1> DEFINE w == [watch[h][s] EXCEPT !.stage = "unbind"]
<1>2. w \in Watch /\ w.stage = "unbind"
  BY <1>0 DEF Watch
<1>3. watch' = [watch EXCEPT ![h][s] = w]
  BY DEF ExpireRound
<1> HIDE DEF w
<1>4. /\ watch' \in [Host -> [Session -> Watch]] /\ watch'[h][s] = w
      /\ \A g \in Host, t \in Session : g # h \/ t # s => watch'[g][t] = watch[g][t]
  BY <1>0, <1>2, <1>3, WatchSet
<1>5. claim' \in ClaimRecord /\ ~claim'.live /\ ~HasSession(claim)'
  BY <1>0 DEF ExpireRound, HasSession, Record, ClaimRecord
<1>6. /\ slips' \subseteq Windows /\ slips \subseteq slips'
      /\ slips' = {} => claim # None /\ claim.session = s
  <2>1. CASE claim = None \/ claim.session # s
    BY <1>0, <2>1 DEF ExpireRound, Slip, TypeOK
  <2>2. CASE ~(claim = None \/ claim.session # s)
    BY <1>0, <2>2 DEF ExpireRound, TypeOK
  <2> QED
    BY <2>1, <2>2
<1>7. TypeOK'
  BY <1>0, <1>1, <1>4, <1>5, <1>6 DEF TypeOK, Watch
<1>8. Places'
  <2>1. Known'
    BY <1>0, <1>1, <1>4, <1>5 DEF Places, Known, Begun
  <2> QED
    BY <1>0, <1>1, <2>1, ObserverPlaces
<1>9. Locked => Locked'
  BY <1>1 DEF Locked, Holds
<1>10. ASSUME Round, slips' = {} PROVE Round'
  <2>1. AtWork' = {}
    BY <1>0, <1>1, <1>6, <1>10 DEF Round, Recorded, Over, AtWork
  <2>2. ~settled'
    BY <1>0, <1>1, <1>6, <1>10 DEF Round, Decisive
  <2>3. \A g \in Host : ~Launches(g)
    BY <1>0, <1>6, <1>10 DEF Round, Owned, Fresh
  <2>4. \A g \in Host : ~Launches(g)' /\ Owned(g)'
    BY <1>1, <2>3 DEF Owned, Launches
  <2>5. \A g \in Host : Decided(g)'
    BY <1>5, <2>1, <2>2 DEF Decided, Free
  <2> QED
    BY <2>1, <2>2, <2>4, <2>5 DEF Round, Recorded, Over, Decisive
<1> QED
  BY <1>6, <1>7, <1>8, <1>9, <1>10 DEF IInv

-----------------------------------------------------------------------------
(* The session service and the clock.                                      *)
LEMMA TurnEndsKeeps ==
  ASSUME IInv, NEW s \in Session, TurnEnds(s)
  PROVE  IInv'
<1> USE DEF locks, service, change
<1>0. TypeOK /\ Places
  BY DEF IInv
<1>1. UNCHANGED <<claim, locks, pc, job, watch, settled, change, created, slips>>
  BY DEF TurnEnds
<1>2. /\ turn' \in [Session -> {"unused", "open", "live", "ended", "gone"}]
      /\ \A t \in Session : \/ turn'[t] = turn[t]
                            \/ turn[t] \in {"live", "ended"} /\ turn'[t] \in {"ended", "gone"}
  BY <1>0 DEF TurnEnds, TypeOK
<1>3. TypeOK'
  BY <1>0, <1>1, <1>2 DEF TypeOK
<1>4. Begun' = Begun /\ AtWork' \subseteq AtWork
  BY <1>2 DEF Begun, AtWork
<1>5. Places'
  <2>1. \A h \in Host : Place(h)'
    BY <1>0, <1>1, <1>2, <1>4 DEF Places, Place, Follows, Adopts, Leaving, Launches, Opened
  <2>2. Apart'
    BY <1>0, <1>1 DEF Places, Apart, Opened
  <2>3. Known'
    BY <1>0, <1>1, <1>4 DEF Places, Known, HasSession
  <2> QED
    BY <2>1, <2>2, <2>3 DEF Places
<1>6. Locked => Locked'
  BY <1>1 DEF Locked, Holds
<1>7. ASSUME Round PROVE Round'
  <2>1. Recorded' /\ Over' /\ Decisive'
    BY <1>1, <1>4, <1>7 DEF Round, Recorded, Over, Decisive, Confirmed, HasSession
  <2>2. \A h \in Host : Decided(h)'
    BY <1>1, <1>4, <1>7 DEF Round, Decided, Free, HasSession
  <2>3. Fresh' <=> Fresh
    BY <1>1 DEF Fresh, Follows, Adopts, Leaving
  <2>4. \A h \in Host : Owned(h)'
    BY <1>1, <1>4, <1>7, <2>3 DEF Round, Owned, Launches, Early, Leaving
  <2> QED
    BY <2>1, <2>2, <2>4 DEF Round
<1> QED
  BY <1>1, <1>3, <1>5, <1>6, <1>7 DEF IInv

LEMMA VerdictKeeps ==
  ASSUME IInv, NEW s \in Session, Verdict(s)
  PROVE  IInv'
<1> USE DEF locks, service, change
<1>0. TypeOK /\ Places /\ s \in AtWork /\ s \in bound /\ HasSession(claim) /\ claim.session = s
  BY DEF IInv, Verdict, AtWork
<1>1. UNCHANGED <<claim, locks, pc, job, watch, turn, change, created, slips>> /\ settled'
  BY DEF Verdict
<1>2. TypeOK'
  BY <1>0, <1>1 DEF Verdict, TypeOK
<1>3. Places'
  <2>1. Known'
    BY <1>0, <1>1 DEF Places, Known, HasSession, Begun
  <2> QED
    BY <1>0, <1>1, <2>1, ObserverPlaces
<1>4. Locked => Locked'
  BY <1>1 DEF Locked, Holds
<1>5. ASSUME Round PROVE Round'
  <2>1. \A h \in Host : ~Launches(h)
    BY <1>0, <1>5 DEF Round, Owned, Fresh
  <2>2. \A h \in Host : Owned(h)'
    BY <1>1, <2>1 DEF Owned, Launches
  <2>3. \A h \in Host : Decided(h)'
    BY <1>0, <1>1, <1>5 DEF Round, Decided, Free, HasSession, AtWork
  <2>4. Recorded' /\ Over' /\ Decisive'
    BY <1>0, <1>1, <1>5 DEF Round, Recorded, Over, Decisive, Confirmed, HasSession, AtWork
  <2> QED
    BY <2>2, <2>3, <2>4 DEF Round
<1> QED
  BY <1>1, <1>2, <1>3, <1>4, <1>5 DEF IInv

LEMMA ClaimLeaseEndsKeeps ==
  ASSUME IInv, ClaimLeaseEnds
  PROVE  IInv'
<1> USE DEF locks, service, change
<1>0. TypeOK /\ Places /\ claim \in ClaimRecord /\ claim # None
  BY DEF IInv, ClaimLeaseEnds, TypeOK
<1>1. UNCHANGED <<locks, pc, job, watch, service, change, created>>
  BY DEF ClaimLeaseEnds
<1>2. /\ claim' \in ClaimRecord /\ claim' # None /\ ~claim'.live /\ claim'.session = claim.session
      /\ claim'.request = claim.request /\ claim'.sent = claim.sent
      /\ HasSession(claim)' <=> HasSession(claim)
  BY <1>0, NoneIsNoClaim DEF ClaimLeaseEnds, ClaimRecord, HasSession
<1>3. /\ slips' \subseteq Windows /\ slips \subseteq slips'
      /\ slips' = {} => \A h \in Host : ~(Launches(h) /\ job[h].request = claim.request)
  <2> DEFINE late == \E h \in Host : Launches(h) /\ job[h].request = claim.request
  <2>1. CASE late
    BY <1>0, <2>1 DEF ClaimLeaseEnds, Outlives, Slip, TypeOK
  <2>2. CASE ~late
    BY <1>0, <2>2 DEF ClaimLeaseEnds, Outlives, TypeOK
  <2> QED
    BY <2>1, <2>2
<1>4. TypeOK'
  BY <1>0, <1>1, <1>2, <1>3 DEF TypeOK
<1>5. Places'
  <2>1. Known'
    BY <1>0, <1>1, <1>2 DEF Places, Known, Begun
  <2> QED
    BY <1>0, <1>1, <2>1, ObserverPlaces
<1>6. Locked => Locked'
  BY <1>1 DEF Locked, Holds
<1>7. ASSUME Round, slips' = {} PROVE Round'
  <2>1. \A h \in Host : ~Launches(h)
    BY <1>3, <1>7 DEF Round, Owned
  <2>2. \A h \in Host : Owned(h)'
    BY <1>1, <2>1 DEF Owned, Launches
  <2>3. \A h \in Host : Decided(h)'
    BY <1>0, <1>1, <1>2, <1>7 DEF Round, Decided, Free, AtWork
  <2>4. Recorded' /\ Over' /\ Decisive'
    BY <1>0, <1>1, <1>2, <1>7 DEF Round, Recorded, Over, Decisive, Confirmed, AtWork
  <2> QED
    BY <2>2, <2>3, <2>4 DEF Round
<1> QED
  BY <1>3, <1>4, <1>5, <1>6, <1>7 DEF IInv

LEMMA LockLeaseEndsKeeps ==
  ASSUME IInv, LockLeaseEnds
  PROVE  IInv'
<1> USE DEF locks, service, change
<1>0. TypeOK /\ Places /\ lock \in LockRecord /\ lock # None
  BY DEF IInv, LockLeaseEnds, TypeOK
<1>1. UNCHANGED <<claim, grab, pc, job, watch, service, change, created>>
  BY DEF LockLeaseEnds
<1>2. /\ slips' \subseteq Windows /\ slips \subseteq slips'
      /\ slips' = {} => ~Holds(lock.owner)
  <2>1. CASE Holds(lock.owner)
    BY <1>0, <2>1 DEF LockLeaseEnds, Outlives, Slip, TypeOK, Holds
  <2>2. CASE ~Holds(lock.owner)
    BY <1>0, <2>2 DEF LockLeaseEnds, Outlives, TypeOK, Holds
  <2> QED
    BY <2>1, <2>2
<1>3. TypeOK'
  BY <1>0, <1>1, <1>2 DEF LockLeaseEnds, TypeOK, LockRecord
<1>4. Places'
  <2>1. Known'
    BY <1>0, <1>1 DEF Places, Known, HasSession, Begun
  <2> QED
    BY <1>0, <1>1, <2>1, ObserverPlaces
<1>5. ASSUME Locked, slips' = {} PROVE Locked'
  <2>1. \A h \in Host : ~Holds(h)
    BY <1>2, <1>5 DEF Locked
  <2> QED
    BY <1>1, <2>1 DEF Locked, Holds
<1>6. Round => Round'
  BY <1>1 DEF Round, Recorded, Over, Decisive, Owned, Decided, Fresh, Free, Launches, Follows,
              Adopts, Early, Leaving, Confirmed, HasSession, AtWork
<1> QED
  BY <1>2, <1>3, <1>4, <1>5, <1>6 DEF IInv

-----------------------------------------------------------------------------
LEMMA InitHolds == Init => IInv
<1> SUFFICES ASSUME Init PROVE IInv
  OBVIOUS
<1>1. TypeOK
  <2>1. created \in 0 .. MaxRequests
    BY ClaimAssumption DEF Init
  <2>2. pc \in [Host -> Stages] /\ job \in [Host -> Job] /\ watch \in [Host -> [Session -> Watch]]
    BY DEF Init, Stages, NoJob, Job, NoWatch, Watch
  <2> QED
    BY <2>1, <2>2 DEF Init, TypeOK, Job, Watch
<1>2. /\ claim = None /\ AtWork = {} /\ ~settled /\ bound = {}
      /\ \A h \in Host : pc[h] = "idle" /\ \A s \in Session : watch[h][s].stage = "off"
  BY DEF Init, AtWork, NoWatch
<1>3. Places
  BY <1>2 DEF Places, Place, Apart, Known, Follows, Adopts, Leaving, Launches, Launching, Opened,
              HasSession
<1>4. Locked /\ Round
  BY <1>2 DEF Locked, Holds, Holding, Round, Recorded, Over, Decisive, Owned, Decided, Launches,
              Launching
<1> QED
  BY <1>1, <1>3, <1>4 DEF IInv

LEMMA NextKeeps == IInv /\ [Next]_vars => IInv'
<1> SUFFICES ASSUME IInv, [Next]_vars PROVE IInv'
  OBVIOUS
<1>1. ASSUME NEW h \in Host, Reserve(h) PROVE IInv'
  BY <1>1, ReserveKeeps, AdoptKeeps DEF Reserve
<1>2. ASSUME NEW h \in Host, LockStep(h) PROVE IInv'
  BY <1>2, LockStepKeeps
<1>3. ASSUME NEW h \in Host, Critical(h) PROVE IInv'
  BY <1>3, RevalidateKeeps, ProbeKeeps, AdoptLockedKeeps, MarkAdoptedKeeps, ExpireUnsentKeeps,
     CreateClaimKeeps, LeaveLockKeeps, AuditAdoptedKeeps DEF Critical
<1>4. ASSUME NEW h \in Host, Launch(h) PROVE IInv'
  BY <1>4, CreateSessionKeeps, RecordCreatedKeeps, PromptKeeps, RecordSentKeeps, BindRoleKeeps,
     CancelKeeps, DiscardSessionKeeps, ObservedKeeps DEF Launch
<1>5. ASSUME NEW h \in Host, Reattach(h) \/ Dispose(h) \/ Crash(h) PROVE IInv'
  BY <1>5, ObservedKeeps, LeaveAllKeeps
<1>6. ASSUME NEW h \in Host, NEW s \in Session, Observe(h, s) PROVE IInv'
  BY <1>6, TurnObservedKeeps, ExpireRoundKeeps, UnbindKeeps, RebuildKeeps DEF Observe
<1>7. CASE Outside
  BY <1>5, <1>7, TurnEndsKeeps, VerdictKeeps, ClaimLeaseEndsKeeps, LockLeaseEndsKeeps DEF Outside
<1>8. CASE UNCHANGED vars
  <2>1. UNCHANGED <<claim, lock, grab, pc, job, watch, turn, settled, bound, audited,
                    created, slips>>
    BY <1>8 DEF vars, locks, service, change
  <2>2. TypeOK'
    BY <2>1 DEF IInv, TypeOK
  <2>3. Places'
    <3>1. Known'
      BY <2>1 DEF IInv, Places, Known, HasSession, Begun
    <3> QED
      BY <2>1, <3>1, ObserverPlaces DEF IInv
  <2>4. Locked => Locked'
    BY <2>1 DEF Locked, Holds
  <2>5. Round => Round'
    BY <2>1 DEF Round, Recorded, Over, Decisive, Owned, Decided, Fresh, Free, Launches, Follows,
                Adopts, Early, Leaving, Confirmed, HasSession, AtWork
  <2> QED
    BY <2>1, <2>2, <2>3, <2>4, <2>5 DEF IInv
<1> QED
  BY <1>1, <1>2, <1>3, <1>4, <1>5, <1>6, <1>7, <1>8 DEF Next

(* The inductive invariant holds, for any hosts, sessions, requests and     *)
(* windows.                                                                 *)
THEOREM ClaimInvariant == Spec => []IInv
  BY InitHolds, NextKeeps, PTL DEF Spec

(* Every variable keeps its type: among others, a reservation never goes   *)
(* on with a session or a request that is not one.                         *)
THEOREM ClaimTypes == Spec => []TypeOK
<1>1. IInv => TypeOK
  BY DEF IInv
<1> QED
  BY <1>1, ClaimInvariant, PTL

(* While no slip happened, the durable record names every reviewer at      *)
(* work, whichever processes crashed, were disposed or adopted its turn.   *)
THEOREM ReviewerAlwaysRecorded == Spec => []ReviewerIsRecorded
<1>1. IInv => ReviewerIsRecorded
  BY DEF IInv, Round, Recorded, ReviewerIsRecorded
<1> QED
  BY <1>1, ClaimInvariant, PTL

-----------------------------------------------------------------------------
(* The refinement: what each step does to the slot of the round.           *)
SlotStep == [Slot!SlotNext]_(Slot!slotVars)

LEMMA SlotIdle ==
  ASSUME AtWork' = AtWork, settled' = settled, slips \subseteq slips'
  PROVE  SlotStep
<1>1. CASE slips' # {} /\ slips = {}
  BY <1>1 DEF SlotStep, Slot!SlotNext, Slot!Expose
<1>2. CASE (slips' # {}) = (slips # {})
  BY <1>2 DEF SlotStep, Slot!slotVars
<1> QED
  BY <1>1, <1>2

LEMMA SlotMoves ==
  ASSUME IInv, Next
  PROVE  SlotStep
<1> USE DEF locks, service, change
<1>0. TypeOK /\ Places
  BY DEF IInv
<1>1. ASSUME NEW h \in Host,
             \/ Reserve(h) \/ LockStep(h) \/ Critical(h) \/ Reattach(h) \/ Dispose(h) \/ Crash(h)
             \/ \E s \in Session : Observe(h, s)
             \/ RecordCreated(h) \/ RecordSent(h) \/ BindRole(h) \/ DiscardSession(h)
             \/ AuditRequested(h)
      PROVE  SlotStep
  <2>1. UNCHANGED <<turn, settled>>
    BY <1>1 DEF Reserve, LockStep, Critical, Observe, Wake, Reuse, FindDelivered, Adopt, SeekLock,
       GiveUp, CreateLock, ObserveStale, ObserveEmpty, Grab, DiscardGrabbed,
       RestoreGrabbed, VerifyLock,
       Revalidate, Probe, AdoptLocked, MarkAdopted, ExpireUnsent, CreateClaim, Release, Unlink,
       AuditAdopted, Reattach, Dispose, Crash, TurnObserved, ExpireRound, Unbind, Rebuild,
       RecordCreated, RecordSent, BindRole, DiscardSession, AuditRequested
  <2>2. slips \subseteq slips'
    <3>1. CASE Reserve(h) \/ Critical(h) \/ Reattach(h) \/ Dispose(h) \/ Crash(h)
      BY <3>1 DEF Reserve, Critical, Wake, Reuse, FindDelivered, Adopt, SeekLock, GiveUp,
         Revalidate, Probe, AdoptLocked, MarkAdopted, ExpireUnsent, CreateClaim, Release, Unlink,
         AuditAdopted, Reattach, Dispose, Crash
    <3>2. CASE RecordCreated(h) \/ RecordSent(h) \/ BindRole(h) \/ DiscardSession(h)
               \/ AuditRequested(h)
      BY <3>2 DEF RecordCreated, RecordSent, BindRole, DiscardSession, AuditRequested
    <3>3. CASE LockStep(h)
      BY <3>3 DEF LockStep, CreateLock, ObserveStale, ObserveEmpty, Grab, DiscardGrabbed,
                    RestoreGrabbed,
         VerifyLock, Slip
    <3>4. CASE \E s \in Session : Observe(h, s)
      BY <3>4 DEF Observe, TurnObserved, ExpireRound, Unbind, Rebuild, Slip
    <3> QED
      BY <1>1, <3>1, <3>2, <3>3, <3>4
  <2> QED
    BY <2>1, <2>2, SlotIdle DEF AtWork
<1>2. ASSUME NEW h \in Host, CreateSession(h) PROVE SlotStep
  <2>1. AtWork' = AtWork
    BY <1>0, <1>2 DEF CreateSession, TypeOK, AtWork
  <2> QED
    BY <1>2, <2>1, SlotIdle DEF CreateSession
<1>3. ASSUME NEW h \in Host, Prompt(h) PROVE SlotStep
  <2> DEFINE s == job[h].session
  <2>1. settled' = settled /\ slips' = slips
    BY <1>3 DEF Prompt
  <2>2. CASE turn' = turn
    BY <2>1, <2>2, SlotIdle DEF AtWork
  <2>3. CASE turn' = [turn EXCEPT ![s] = "live"]
    <3>1. pc[h] = "prompt" /\ s \in Session /\ turn[s] = "open"
      BY <1>0, <1>3 DEF Prompt, Places, Place, Opened
    <3>2. s \notin AtWork /\ AtWork' = AtWork \union {s}
      BY <1>0, <2>3, <3>1 DEF TypeOK, AtWork
    <3>3. slips = {} => AtWork = {} /\ ~settled
      BY <3>1 DEF IInv, Round, Owned, Launches, Launching
    <3>4. Slot!Request(s)
      BY <2>1, <3>2, <3>3 DEF Slot!Request
    <3> QED
      BY <3>1, <3>4 DEF SlotStep, Slot!SlotNext
  <2> QED
    BY <1>3, <2>2, <2>3 DEF Prompt
<1>4. ASSUME NEW h \in Host, Cancel(h) PROVE SlotStep
  <2> DEFINE s == job[h].session
  <2>1. pc[h] = "cancel" /\ s \in Session
    BY <1>0, <1>4 DEF Cancel, Places, Place
  <2>2. CASE turn' = turn
    <3>1. slips \subseteq slips' /\ settled' = settled
      BY <1>4 DEF Cancel, Slip
    <3> QED
      BY <2>2, <3>1, SlotIdle DEF AtWork
  <2>3. CASE turn' # turn
    <3>1. slips' = slips /\ settled' = settled
          /\ turn' = [turn EXCEPT ![s] = IF @ = "live" THEN "ended" ELSE @]
      BY <1>4, <2>3 DEF Cancel
    <3>2. turn[s] = "live"
      BY <1>0, <2>1, <2>3, <3>1 DEF TypeOK
    <3>3. s \in AtWork /\ AtWork' = AtWork \ {s}
      BY <1>0, <2>1, <3>1, <3>2 DEF TypeOK, AtWork
    <3>4. Slot!Finish(s)
      BY <3>1, <3>3 DEF Slot!Finish
    <3> QED
      BY <2>1, <3>4 DEF SlotStep, Slot!SlotNext
  <2> QED
    BY <2>2, <2>3
<1>5. ASSUME NEW s \in Session, TurnEnds(s) PROVE SlotStep
  <2>1. slips' = slips /\ settled' = settled
    BY <1>5 DEF TurnEnds
  <2>2. CASE turn[s] = "live" /\ turn' = [turn EXCEPT ![s] = "ended"]
    <3>1. s \in AtWork /\ AtWork' = AtWork \ {s}
      BY <1>0, <2>2 DEF TypeOK, AtWork
    <3>2. Slot!Finish(s)
      BY <2>1, <3>1 DEF Slot!Finish
    <3> QED
      BY <3>2 DEF SlotStep, Slot!SlotNext
  <2>3. CASE turn[s] = "ended" /\ turn' = [turn EXCEPT ![s] = "gone"]
    <3>1. AtWork' = AtWork
      BY <1>0, <2>3 DEF TypeOK, AtWork
    <3> QED
      BY <2>1, <3>1, SlotIdle
  <2> QED
    BY <1>5, <2>2, <2>3 DEF TurnEnds
<1>6. ASSUME NEW s \in Session, Verdict(s) PROVE SlotStep
  <2>1. AtWork # {} /\ AtWork' = AtWork /\ slips' = slips
    BY <1>6 DEF Verdict, AtWork
  <2>2. Slot!Settle
    BY <1>6, <2>1 DEF Verdict, Slot!Settle
  <2> QED
    BY <2>2 DEF SlotStep, Slot!SlotNext
<1>7. CASE ClaimLeaseEnds \/ LockLeaseEnds
  <2>1. UNCHANGED <<turn, settled>> /\ slips \subseteq slips'
    BY <1>7 DEF ClaimLeaseEnds, LockLeaseEnds, Outlives, Slip
  <2> QED
    BY <2>1, SlotIdle DEF AtWork
<1> QED
  BY <1>1, <1>2, <1>3, <1>4, <1>5, <1>6, <1>7 DEF Next, Launch, Outside

(* The claim implements the slot of the round: while no slip happened, a   *)
(* request reaches a session only when no reviewer is at work and no       *)
(* verdict was given, and only a reviewer at work settles the round.       *)
THEOREM ClaimImplementsSlot == Spec => ImplementsSlot
<1>1. Init => Slot!SlotInit
  BY DEF Init, Slot!SlotInit, AtWork
<1>2. IInv /\ [Next]_vars => SlotStep
  <2> SUFFICES ASSUME IInv, UNCHANGED vars PROVE SlotStep
    BY SlotMoves
  <2> QED
    BY SlotIdle DEF vars, service, AtWork
<1> QED
  BY <1>1, <1>2, ClaimInvariant, PTL DEF Spec, ImplementsSlot, Slot!SlotSpec, SlotStep
=============================================================================
