--------------------------- MODULE DispatcherProofs ---------------------------
(***************************************************************************)
(* What TaskStore guarantees for any tasks, workers, lease lengths and     *)
(* lock waits: RowInv is inductive by itself, and the action properties    *)
(* follow from it one operation at a time.  The dispatcher uses the ledger *)
(* only through its operations, so that what is proved of the ledger holds *)
(* of the composition; and what a run says of its claim is true, for any   *)
(* number of runs and tasks, and so is what their attempts are counted     *)
(* for.                                                                    *)
(***************************************************************************)
EXTENDS Dispatcher, DependencyGraphProofs, FiniteSetTheorems

\* What an operation needs to know of a row to keep the invariant.
RowInv == LedgerTypeOK /\ ClaimShape /\ AuditReplays

\* The types of the derived sets.
LEMMA Ranges ==
    /\ LeaseLeft \subseteq Int
    /\ Attempt \subseteq Int
    /\ 0 \in Attempt
    /\ \A n \in 1 .. LeaseTicks, d \in Age : n - d \in LeaseLeft
    BY StoreAssumption DEF LeaseLeft, Attempt, Age

LEMMA InitInv == Init => RowInv
  BY StoreAssumption, Ranges
  DEF Init, RowInv, LedgerTypeOK, ClaimShape, AuditReplays, BlankRow, Row, Status,
      KnownStatus

\* No row is written: the invariant does not mention the other variables.
LEMMA OtherSteps ==
    ASSUME RowInv, UNCHANGED <<live, row, audit>>,
           deps' \subseteq Task \X Task, guards' \subseteq Guarded
    PROVE  RowInv'
  BY DEF RowInv, LedgerTypeOK, ClaimShape, AuditReplays

\* Every operation on one row: it is enough that the new row is well formed
\* and that the logged status is its status.
LEMMA RowWritten ==
    ASSUME RowInv, NEW t \in live, NEW r \in Row,
           row' = [row EXCEPT ![t] = r],
           LogStatus(t, row[t].status, r.status),
           r.claimed_by = NoWorker <=> r.lease = NoLease,
           r.claimed_by # NoWorker => r.status \in Held,
           UNCHANGED <<live, deps, guards>>
    PROVE  RowInv'
  <1>1. LedgerTypeOK'
    BY DEF RowInv, LedgerTypeOK, LogStatus, Row
  <1>2. ClaimShape'
    BY DEF RowInv, LedgerTypeOK, ClaimShape
  <1>3. AuditReplays'
    BY DEF RowInv, LedgerTypeOK, AuditReplays, LogStatus
  <1> QED
    BY <1>1, <1>2, <1>3 DEF RowInv

\* One step per operation that writes a row.
LEMMA ManagerInv ==
    ASSUME RowInv, NEW t \in Task, ManagerStep(t)
    PROVE  RowInv'
  <1> USE DEF RowInv
  <1>1. ASSUME NEW s \in ManagerStatus, NEW max \in Attempt,
               NEW B \in SUBSET live, Create(t, s, max, B)
        PROVE  RowInv'
    <2>1. [BlankRow EXCEPT !.status = s, !.max_attempts = max] \in Row
      BY StoreAssumption, Ranges DEF BlankRow, Row
    <2>2. LedgerTypeOK'
      BY <1>1, <2>1, StoreAssumption DEF Create, LedgerTypeOK
    <2>3. ClaimShape' /\ AuditReplays'
      BY <1>1 DEF Create, LedgerTypeOK, ClaimShape, AuditReplays, BlankRow
    <2> QED
      BY <2>2, <2>3
  <1>2. ASSUME NEW s \in ManagerStatus \cup {Keep}, NEW a \in Attempt \cup {Keep},
               NEW m \in Attempt \cup {Keep}, Update(t, s, a, m)
        PROVE  RowInv'
    <2> DEFINE r == row'[t]
    <2>1. row[t] \in Row /\ t \in live
      BY <1>2 DEF LedgerTypeOK, Update
    <2>2. r \in Row
      BY <1>2, <2>1, StoreAssumption DEF Update, Row, LedgerTypeOK
    <2>3. /\ r.claimed_by = NoWorker <=> r.lease = NoLease
          /\ r.claimed_by # NoWorker => r.status \in Held
      BY <1>2, <2>1 DEF Update, LedgerTypeOK, ClaimShape
    <2>4. row' = [row EXCEPT ![t] = r] /\ LogStatus(t, row[t].status, r.status)
      BY <1>2, <2>1 DEF Update, LedgerTypeOK
    <2> QED
      BY <1>2, <2>1, <2>2, <2>3, <2>4, RowWritten DEF Update
  <1>3. CASE Delete(t)
    <2>1. BlankRow \in Row
      BY StoreAssumption, Ranges DEF BlankRow, Row, Status, KnownStatus
    <2>2. LedgerTypeOK'
      BY <1>3, <2>1 DEF Delete, LedgerTypeOK, Status, KnownStatus
    <2>3. ClaimShape' /\ AuditReplays'
      BY <1>3 DEF Delete, LedgerTypeOK, ClaimShape, AuditReplays, BlankRow
    <2> QED
      BY <2>2, <2>3
  <1>4. CASE Unblock(t)
    <2> DEFINE r == [row[t] EXCEPT !.status = "ready", !.started = FALSE,
                                   !.completed = FALSE]
    <2>1. r \in Row /\ t \in live
      BY <1>4 DEF Unblock, LedgerTypeOK, Row, Status, KnownStatus
    <2>2. row' = [row EXCEPT ![t] = r] /\ LogStatus(t, row[t].status, r.status)
      BY <1>4 DEF Unblock, LedgerTypeOK, Row
    <2>3. r.claimed_by = NoWorker /\ r.lease = NoLease
      BY <1>4 DEF Unblock, LedgerTypeOK, ClaimShape, Held, Row
    <2> QED
      BY <1>4, <2>1, <2>2, <2>3, RowWritten DEF Unblock
  <1>5. CASE RequestChanges(t)
    <2> DEFINE r == [row[t] EXCEPT !.status = "changes_requested"]
    <2>1. r \in Row /\ t \in live
      BY <1>5 DEF RequestChanges, LedgerTypeOK, Row, Status, KnownStatus
    <2>2. row' = [row EXCEPT ![t] = r] /\ LogStatus(t, row[t].status, r.status)
      BY <1>5 DEF RequestChanges, LedgerTypeOK, Row
    <2>3. r.claimed_by = NoWorker /\ r.lease = NoLease
      BY <1>5 DEF RequestChanges, LedgerTypeOK, ClaimShape, Held, Row
    <2> QED
      BY <1>5, <2>1, <2>2, <2>3, RowWritten DEF RequestChanges
  <1>6. ASSUME NEW p \in RepairPatch, NEW w \in Worker \cup {NoWorker, Keep},
               UpdateIf(t, p[1], w, p[2])
        PROVE  RowInv'
    <2> DEFINE drops == row[t].status \in Held /\ p[2] \notin Held
               r == [row[t] EXCEPT !.status = p[2],
                        !.claimed_by = IF drops THEN NoWorker ELSE @,
                        !.lease = IF drops THEN NoLease ELSE @]
    <2>1. p[2] \in Status /\ row[t] \in Row /\ t \in live
      BY <1>6 DEF RepairPatch, Status, KnownStatus, LedgerTypeOK, UpdateIf
    <2>2. r \in Row
      BY <2>1 DEF Row
    <2>3. row' = [row EXCEPT ![t] = r]
      BY <1>6, <2>1 DEF UpdateIf, LedgerTypeOK, Row
    <2>4. LogStatus(t, row[t].status, r.status)
      BY <1>6, <2>1 DEF UpdateIf, Row
    <2>5. /\ r.claimed_by = NoWorker <=> r.lease = NoLease
          /\ r.claimed_by # NoWorker => r.status \in Held
      BY <2>1 DEF ClaimShape, LedgerTypeOK, Row
    <2> QED
      BY <1>6, <2>1, <2>2, <2>3, <2>4, <2>5, RowWritten DEF UpdateIf
  <1>7. ASSUME NEW u \in Task, AddDependency(t, u) \/ RemoveDependency(t, u)
        PROVE  RowInv'
    BY <1>7, OtherSteps DEF AddDependency, RemoveDependency, LedgerTypeOK
  <1> QED
    BY <1>1, <1>2, <1>3, <1>4, <1>5, <1>6, <1>7 DEF ManagerStep

LEMMA WorkerInv ==
    ASSUME RowInv, NEW t \in Task, NEW w \in Worker, WorkerStep(t, w)
    PROVE  RowInv'
  <1> USE DEF RowInv
  <1> PICK d \in Age :
        \/ \E n \in 1 .. LeaseTicks : Claim(t, w, n, d) \/ RenewLease(t, w, n, d)
        \/ Release(t, w, d)
        \/ ReleaseExpiredClaim(t, w, d)
        \/ Start(t, w, d)
        \/ \E target \in {"in_review", "failed"} : Finish(t, w, target, d)
        \/ Block(t, w, d)
    BY DEF WorkerStep
  <1>0. row[t] \in Row /\ w # NoWorker /\ NoLease \notin Int
    BY StoreAssumption DEF LedgerTypeOK
  <1>1. ASSUME NEW n \in 1 .. LeaseTicks, Claim(t, w, n, d)
        PROVE  RowInv'
    <2> DEFINE r == [row[t] EXCEPT !.status = "claimed", !.claimed_by = w,
                                   !.lease = n - d]
    <2>1. n - d \in LeaseLeft /\ n - d # NoLease
      BY Ranges, <1>0
    <2>2. r \in Row /\ t \in live
      BY <1>0, <1>1, <2>1 DEF Claim, Row, Status, KnownStatus
    <2>3. row' = [row EXCEPT ![t] = r] /\ LogStatus(t, row[t].status, r.status)
      BY <1>0, <1>1 DEF Claim, LedgerTypeOK, Row
    <2>4. r.claimed_by = w /\ r.lease = n - d /\ r.status \in Held
      BY <1>0 DEF Row, Held
    <2> HIDE DEF r
    <2> QED
      BY <1>0, <1>1, <2>1, <2>2, <2>3, <2>4, RowWritten DEF Claim
  <1>2. ASSUME NEW n \in 1 .. LeaseTicks, RenewLease(t, w, n, d)
        PROVE  RowInv'
    <2>1. n - d \in LeaseLeft /\ n - d # NoLease
      BY Ranges, <1>0
    <2>2. LedgerTypeOK'
      BY <1>0, <1>2, <2>1 DEF RenewLease, LedgerTypeOK, Row
    <2>3. ClaimShape' /\ AuditReplays'
      BY <1>0, <1>2, <2>1
      DEF RenewLease, ActiveLease, LedgerTypeOK, ClaimShape, AuditReplays, Row
    <2> QED
      BY <2>2, <2>3
  <1>3. CASE Release(t, w, d)
    <2>1. Released(row[t]) \in Row
      BY <1>0 DEF Released, Row, Status, KnownStatus
    <2>2. /\ Released(row[t]).claimed_by = NoWorker
          /\ Released(row[t]).lease = NoLease
          /\ Released(row[t]).status = "ready"
      BY <1>0 DEF Released, Row
    <2> QED
      BY <1>3, <2>1, <2>2, RowWritten DEF Release
  <1>4. CASE ReleaseExpiredClaim(t, w, d)
    <2>1. Released(row[t]) \in Row
      BY <1>0 DEF Released, Row, Status, KnownStatus
    <2>2. /\ Released(row[t]).claimed_by = NoWorker
          /\ Released(row[t]).lease = NoLease
          /\ Released(row[t]).status = "ready"
      BY <1>0 DEF Released, Row
    <2>3. row[t].status \in Held
      BY <1>0, <1>4 DEF ReleaseExpiredClaim, ClaimShape
    <2> QED
      BY <1>4, <2>1, <2>2, <2>3, RowWritten DEF ReleaseExpiredClaim
  <1>5. CASE Start(t, w, d)
    <2> DEFINE r == [row[t] EXCEPT !.status = "running", !.attempts = @ + 1,
                                   !.started = TRUE]
    <2>1. row[t].attempts + 1 \in Attempt
      BY <1>0, <1>5, StoreAssumption DEF Start, Row, Attempt
    <2>2. r \in Row /\ t \in live
      BY <1>0, <1>5, <2>1 DEF Start, Row, Status, KnownStatus
    <2>3. row' = [row EXCEPT ![t] = r] /\ LogStatus(t, row[t].status, r.status)
      BY <1>0, <1>5 DEF Start, LedgerTypeOK, Row
    <2>4. r.claimed_by = w /\ r.lease # NoLease /\ r.status \in Held
      BY <1>0, <1>5 DEF Start, ActiveLease, Row, Held
    <2> HIDE DEF r
    <2> QED
      BY <1>0, <1>5, <2>2, <2>3, <2>4, RowWritten DEF Start
  <1>6. ASSUME NEW target \in {"in_review", "failed"}, Finish(t, w, target, d)
        PROVE  RowInv'
    <2> DEFINE r == [row[t] EXCEPT !.status = target, !.claimed_by = NoWorker,
                        !.lease = NoLease, !.completed = (target # "in_review")]
    <2>1. r \in Row /\ t \in live
      BY <1>0, <1>6 DEF Finish, Row, Status, KnownStatus
    <2>2. row' = [row EXCEPT ![t] = r] /\ LogStatus(t, row[t].status, r.status)
      BY <1>0, <1>6 DEF Finish, LedgerTypeOK, Row
    <2>3. r.claimed_by = NoWorker /\ r.lease = NoLease
      BY <1>0 DEF Row
    <2> HIDE DEF r
    <2> QED
      BY <1>6, <2>1, <2>2, <2>3, RowWritten DEF Finish
  <1>7. CASE Block(t, w, d)
    <2> DEFINE r == [row[t] EXCEPT !.status = "blocked", !.claimed_by = NoWorker,
                                   !.lease = NoLease]
    <2>1. r \in Row /\ t \in live
      BY <1>0, <1>7 DEF Block, Row, Status, KnownStatus
    <2>2. row' = [row EXCEPT ![t] = r] /\ LogStatus(t, row[t].status, r.status)
      BY <1>0, <1>7 DEF Block, LedgerTypeOK, Row
    <2>3. r.claimed_by = NoWorker /\ r.lease = NoLease
      BY <1>0 DEF Row
    <2> HIDE DEF r
    <2> QED
      BY <1>7, <2>1, <2>2, <2>3, RowWritten DEF Block
  <1> QED
    BY <1>1, <1>2, <1>3, <1>4, <1>5, <1>6, <1>7

LEMMA TickInv == ASSUME RowInv, Tick PROVE RowInv'
  <1>1. \A t \in Task : /\ row'[t] \in Row
                        /\ row'[t].status = row[t].status
                        /\ row'[t].claimed_by = row[t].claimed_by
                        /\ row'[t].lease = NoLease <=> row[t].lease = NoLease
    BY StoreAssumption DEF Tick, RowInv, LedgerTypeOK, Row, LeaseLeft
  <1>2. LedgerTypeOK'
    BY <1>1 DEF Tick, RowInv, LedgerTypeOK
  <1> QED
    BY <1>1, <1>2 DEF Tick, RowInv, LedgerTypeOK, ClaimShape, AuditReplays

LEMMA StepInv == RowInv /\ [Next]_vars => RowInv'
  <1> SUFFICES ASSUME RowInv, [Next]_vars PROVE RowInv'
    OBVIOUS
  <1>1. CASE GuardStep
    BY <1>1, OtherSteps
    DEF RowInv, LedgerTypeOK, GuardStep, RegisterLifecycleGuard, DisposeLifecycleGuard, Close
  <1>2. CASE UNCHANGED vars
    BY <1>2, OtherSteps DEF vars, RowInv, LedgerTypeOK
  <1> QED
    BY <1>1, <1>2, ManagerInv, WorkerInv, TickInv DEF Next

\* Columns keep their types, a claim is recorded whole and only on a held row,
\* and the status trail replays to the row: always, for any constants.
THEOREM LedgerInvariant == Spec => [](LedgerTypeOK /\ ClaimShape /\ AuditReplays)
  <1>1. Spec => []RowInv
    BY InitInv, StepInv, PTL DEF Spec
  <1> QED
    BY <1>1, PTL DEF RowInv

\* The columns of the ledger keep their types, whichever operation writes them.
THEOREM LedgerKeepsTypes == Spec => []LedgerTypeOK
  BY LedgerInvariant, PTL

-----------------------------------------------------------------------------
\* A manager, the guards and the clock never hand a claimed task to a worker.
LEMMA NoHandover ==
    ASSUME RowInv, NEW t \in Task, NEW u \in Task,
           ManagerStep(u) \/ GuardStep \/ Tick
    PROVE  row'[t].claimed_by \in {NoWorker, row[t].claimed_by}
  <1> USE DEF RowInv, LedgerTypeOK
  <1>1. CASE GuardStep
    BY <1>1 DEF GuardStep, RegisterLifecycleGuard, DisposeLifecycleGuard, Close
  <1>2. CASE Tick
    BY <1>2 DEF Tick, Row
  <1>3. CASE ManagerStep(u)
    <2>1. ASSUME NEW s, NEW max, NEW B, Create(u, s, max, B)
          PROVE  row'[t].claimed_by \in {NoWorker, row[t].claimed_by}
      BY <2>1 DEF Create, BlankRow
    <2>2. ASSUME NEW s, NEW a, NEW m, Update(u, s, a, m)
          PROVE  row'[t].claimed_by \in {NoWorker, row[t].claimed_by}
      BY <2>2 DEF Update
    <2>3. CASE Delete(u) \/ Unblock(u) \/ RequestChanges(u)
      BY <2>3 DEF Delete, Unblock, RequestChanges, BlankRow, Row
    <2>4. ASSUME NEW from, NEW w, NEW s, UpdateIf(u, from, w, s)
          PROVE  row'[t].claimed_by \in {NoWorker, row[t].claimed_by}
      BY <2>4 DEF UpdateIf, Row
    <2>5. ASSUME NEW v, AddDependency(u, v) \/ RemoveDependency(u, v)
          PROVE  row'[t].claimed_by \in {NoWorker, row[t].claimed_by}
      BY <2>5 DEF AddDependency, RemoveDependency
    <2> QED
      BY <1>3, <2>1, <2>2, <2>3, <2>4, <2>5 DEF ManagerStep
  <1> QED
    BY <1>1, <1>2, <1>3

\* A worker's call takes over a task only from a holder whose lease is out.
LEMMA TakeoverNeedsExpiry ==
    ASSUME RowInv, NEW t \in Task, NEW u \in Task, NEW w \in Worker,
           WorkerStep(u, w),
           row[t].claimed_by # NoWorker,
           row'[t].claimed_by \notin {NoWorker, row[t].claimed_by}
    PROVE  row[t].lease <= 0
  <1> USE DEF RowInv, LedgerTypeOK
  <1> PICK d \in Age :
        \/ \E n \in 1 .. LeaseTicks : Claim(u, w, n, d) \/ RenewLease(u, w, n, d)
        \/ Release(u, w, d)
        \/ ReleaseExpiredClaim(u, w, d)
        \/ Start(u, w, d)
        \/ \E target \in {"in_review", "failed"} : Finish(u, w, target, d)
        \/ Block(u, w, d)
    BY DEF WorkerStep
  <1>0. d \in Int /\ d >= 0 /\ row[t] \in Row
    BY StoreAssumption DEF Age
  <1>1. ASSUME NEW n \in 1 .. LeaseTicks, Claim(u, w, n, d)
        PROVE  row[t].lease <= 0
    <2>1. u = t
      BY <1>1 DEF Claim
    <2>2. row[t].status \in Held
      BY <1>1 DEF ClaimShape
    <2>3. LeaseExpired(t, d)
      BY <1>1, <2>1, <2>2 DEF Claim, Claimable, Held
    <2>4. row[t].lease \in Int
      BY <1>0, <2>3, Ranges DEF LeaseExpired, Row
    <2> QED
      BY <1>0, <2>3, <2>4 DEF LeaseExpired
  <1>2. ASSUME NEW n \in 1 .. LeaseTicks, RenewLease(u, w, n, d) PROVE FALSE
    BY <1>2 DEF RenewLease, Row
  <1>3. CASE Release(u, w, d)
    BY <1>3 DEF Release, Released, Row
  <1>4. CASE ReleaseExpiredClaim(u, w, d)
    BY <1>4 DEF ReleaseExpiredClaim, Released, Row
  <1>5. CASE Start(u, w, d)
    BY <1>5 DEF Start, Row
  <1>6. ASSUME NEW target, Finish(u, w, target, d) PROVE FALSE
    BY <1>6 DEF Finish, Row
  <1>7. CASE Block(u, w, d)
    BY <1>7 DEF Block, Row
  <1> QED
    BY <1>1, <1>2, <1>3, <1>4, <1>5, <1>6, <1>7

\* A worker whose lease runs is never displaced by another one, whatever
\* timestamps the competing calls read before they got the write lock.
THEOREM LeasesAreHonoured == Spec => LeaseHonoured
  <1>1. RowInv /\ [Next]_vars =>
          [\A t \in Task :
              /\ row[t].claimed_by # NoWorker
              /\ row'[t].claimed_by \notin {NoWorker, row[t].claimed_by}
              => row[t].lease <= 0]_vars
    <2> SUFFICES ASSUME RowInv, Next, NEW t \in Task,
                        row[t].claimed_by # NoWorker,
                        row'[t].claimed_by \notin {NoWorker, row[t].claimed_by}
                 PROVE  row[t].lease <= 0
      OBVIOUS
    <2> QED
      BY NoHandover, TakeoverNeedsExpiry DEF Next
  <1>2. Spec => []RowInv
    BY InitInv, StepInv, PTL DEF Spec
  <1> QED
    BY <1>1, <1>2, PTL DEF Spec, LeaseHonoured

-----------------------------------------------------------------------------
\* The rule every change of an existing task's status obeys.
StatusRule(t) ==
    row'[t].status # row[t].status =>
        /\ row'[t].status \notin guards
        /\ row[t].status \in Terminal => row'[t].status \notin KnownStatus

LEMMA ManagerKeepsRule ==
    ASSUME RowInv, NEW t \in live, t \in live', NEW u \in Task, ManagerStep(u)
    PROVE  StatusRule(t)
  <1> USE DEF RowInv, LedgerTypeOK
  <1>0. row[t] \in Row /\ row[u] \in Row
    OBVIOUS
  <1>1. ASSUME NEW s \in ManagerStatus, NEW max, NEW B, Create(u, s, max, B)
        PROVE  StatusRule(t)
    BY <1>1 DEF Create, StatusRule
  <1>2. ASSUME NEW s \in ManagerStatus \cup {Keep}, NEW a, NEW m, Update(u, s, a, m)
        PROVE  StatusRule(t)
    <2>1. CASE u # t
      BY <1>2, <2>1 DEF Update, StatusRule
    <2>2. CASE u = t
      <3>1. row'[t].status = IF s = Keep THEN row[t].status ELSE s
        BY <1>2, <2>2 DEF Update
      <3>2. s # Keep => ValidTransition(row[t].status, s) /\ s \notin guards
        BY <1>2, <2>2 DEF Update, GuardsAllow
      <3>3. s # Keep /\ row[t].status \in Terminal /\ s # row[t].status
            => s \notin KnownStatus
        BY <3>2 DEF ValidTransition, Terminal, KnownStatus, KnownTransition
      <3> QED
        BY <3>1, <3>2, <3>3 DEF StatusRule
    <2> QED
      BY <2>1, <2>2
  <1>3. CASE Delete(u)
    BY <1>3 DEF Delete, StatusRule
  <1>4. CASE Unblock(u)
    BY <1>0, <1>4 DEF Unblock, GuardsAllow, StatusRule, Terminal, Row
  <1>5. CASE RequestChanges(u)
    BY <1>0, <1>5 DEF RequestChanges, GuardsAllow, StatusRule, Terminal, Row
  <1>6. ASSUME NEW p \in RepairPatch, NEW w, UpdateIf(u, p[1], w, p[2])
        PROVE  StatusRule(t)
    <2>1. p[1] \notin Terminal
      BY DEF RepairPatch, Terminal, Held
    <2>2. row[u].status = p[1] /\ (p[2] # p[1] => p[2] \notin guards)
      BY <1>6 DEF UpdateIf, GuardsAllow
    <2>3. row'[t].status = IF u = t THEN p[2] ELSE row[t].status
      BY <1>0, <1>6 DEF UpdateIf, Row
    <2> QED
      BY <2>1, <2>2, <2>3 DEF StatusRule
  <1>7. ASSUME NEW v, AddDependency(u, v) \/ RemoveDependency(u, v)
        PROVE  StatusRule(t)
    BY <1>7 DEF AddDependency, RemoveDependency, StatusRule
  <1> QED
    BY <1>1, <1>2, <1>3, <1>4, <1>5, <1>6, <1>7 DEF ManagerStep

LEMMA WorkerKeepsRule ==
    ASSUME RowInv, NEW t \in live, NEW u \in Task, NEW w \in Worker,
           WorkerStep(u, w)
    PROVE  StatusRule(t)
  <1> USE DEF RowInv, LedgerTypeOK
  <1> PICK d \in Age :
        \/ \E n \in 1 .. LeaseTicks : Claim(u, w, n, d) \/ RenewLease(u, w, n, d)
        \/ Release(u, w, d)
        \/ ReleaseExpiredClaim(u, w, d)
        \/ Start(u, w, d)
        \/ \E target \in {"in_review", "failed"} : Finish(u, w, target, d)
        \/ Block(u, w, d)
    BY DEF WorkerStep
  <1>0. row[t] \in Row /\ row[u] \in Row
    OBVIOUS
  <1>1. ASSUME NEW n, Claim(u, w, n, d) PROVE StatusRule(t)
    BY <1>0, <1>1
    DEF Claim, Claimable, GuardsAllow, StatusRule, Terminal, Held, Row
  <1>2. ASSUME NEW n, RenewLease(u, w, n, d) PROVE StatusRule(t)
    BY <1>0, <1>2 DEF RenewLease, StatusRule, Row
  <1>3. CASE Release(u, w, d)
    BY <1>0, <1>3
    DEF Release, Released, GuardsAllow, StatusRule, Terminal, Held, Row
  <1>4. CASE ReleaseExpiredClaim(u, w, d)
    BY <1>0, <1>4
    DEF ReleaseExpiredClaim, Released, GuardsAllow, StatusRule, Terminal, Held, Row
  <1>5. CASE Start(u, w, d)
    BY <1>0, <1>5 DEF Start, GuardsAllow, StatusRule, Terminal, Row
  <1>6. ASSUME NEW target, Finish(u, w, target, d) PROVE StatusRule(t)
    BY <1>0, <1>6 DEF Finish, GuardsAllow, StatusRule, Terminal, Held, Row
  <1>7. CASE Block(u, w, d)
    BY <1>0, <1>7 DEF Block, GuardsAllow, StatusRule, Row
  <1> QED
    BY <1>1, <1>2, <1>3, <1>4, <1>5, <1>6, <1>7

LEMMA EveryStepKeepsRule ==
    ASSUME RowInv, Next, NEW t \in live, t \in live'
    PROVE  StatusRule(t)
  <1>1. CASE GuardStep
    BY <1>1 DEF GuardStep, RegisterLifecycleGuard, DisposeLifecycleGuard, Close,
                StatusRule
  <1>2. CASE Tick
    BY <1>2 DEF Tick, RowInv, LedgerTypeOK, Row, StatusRule
  <1> QED
    BY <1>1, <1>2, ManagerKeepsRule, WorkerKeepsRule DEF Next

\* No operation, of a worker or of a manager, takes a done or cancelled task
\* to another of the statuses the store knows.
THEOREM TerminalStaysTerminal == Spec => TerminalIsFinal
  <1>1. RowInv /\ RowInv' /\ [Next]_vars =>
          [\A t \in live \cap live' :
              row[t].status \in Terminal
              => row'[t].status \in {row[t].status} \cup (Status \ KnownStatus)]_vars
    <2> SUFFICES ASSUME RowInv, RowInv', Next, NEW t \in live \cap live',
                        row[t].status \in Terminal
                 PROVE  row'[t].status \in {row[t].status} \cup (Status \ KnownStatus)
      OBVIOUS
    <2>1. row'[t].status \in Status
      BY DEF RowInv, LedgerTypeOK, Row
    <2> QED
      BY <2>1, EveryStepKeepsRule DEF StatusRule
  <1>2. Spec => []RowInv
    BY InitInv, StepInv, PTL DEF Spec
  <1> QED
    BY <1>1, <1>2, PTL DEF Spec, TerminalIsFinal

\* Every path that changes the status of an existing task asks the guards.
THEOREM GuardsAreNotBypassed == Spec => NoVetoedTransition
  <1>1. RowInv /\ [Next]_vars =>
          [\A t \in live \cap live' :
              row'[t].status # row[t].status => row'[t].status \notin guards]_vars
    <2> SUFFICES ASSUME RowInv, Next, NEW t \in live \cap live',
                        row'[t].status # row[t].status
                 PROVE  row'[t].status \notin guards
      OBVIOUS
    <2> QED
      BY EveryStepKeepsRule DEF StatusRule
  <1>2. Spec => []RowInv
    BY InitInv, StepInv, PTL DEF Spec
  <1> QED
    BY <1>1, <1>2, PTL DEF Spec, NoVetoedTransition

-----------------------------------------------------------------------------
\* The edges stay among the existing tasks and free of cycles.
LEMMA StepKeepsDependencies ==
    ASSUME RowInv, DependenciesSound, [Next]_vars
    PROVE  DependenciesSound'
  <1> USE DEF RowInv, LedgerTypeOK, DependenciesSound
  <1>1. CASE UNCHANGED <<live, deps>>
    BY <1>1
  <1>2. ASSUME NEW t \in Task, ManagerStep(t) PROVE DependenciesSound'
    <2>1. ASSUME NEW s, NEW max, NEW B \in SUBSET live, Create(t, s, max, B)
          PROVE  DependenciesSound'
      <3>1. /\ live \in SUBSET Task /\ deps \in SUBSET (live \X live)
            /\ t \notin live /\ Acyclic(deps, Task)
            /\ deps' = deps \cup {<<t, u>> : u \in B}
        BY <2>1 DEF Create
      <3>2. deps' \in SUBSET (deps \cup ({t} \X live))
        BY <3>1
      <3>3. Acyclic(deps', Task)
        BY <3>1, <3>2, NewNode
      <3> QED
        BY <2>1, <3>3 DEF Create
    <2>2. CASE Delete(t)
      <3>1. deps' \subseteq deps /\ deps' \subseteq live' \X live'
        BY <2>2 DEF Delete
      <3> QED
        BY <3>1, FewerEdges
    <2>3. ASSUME NEW u \in Task, AddDependency(t, u)
          PROVE  DependenciesSound'
      <3>1. Acyclic(deps', Task)
        BY <2>3, CycleQueryIsComplete DEF AddDependency
      <3> QED
        BY <2>3, <3>1 DEF AddDependency
    <2>4. ASSUME NEW u \in Task, RemoveDependency(t, u)
          PROVE  DependenciesSound'
      <3>1. deps' \subseteq deps /\ live' = live
        BY <2>4 DEF RemoveDependency
      <3> QED
        BY <3>1, FewerEdges
    <2>5. CASE \/ \E s \in ManagerStatus \cup {Keep}, a, m \in Attempt \cup {Keep} :
                     Update(t, s, a, m)
               \/ Unblock(t) \/ RequestChanges(t)
               \/ \E p \in RepairPatch, w \in Worker \cup {NoWorker, Keep} :
                     UpdateIf(t, p[1], w, p[2])
      BY <1>1, <2>5 DEF Update, Unblock, RequestChanges, UpdateIf
    <2> QED
      BY <1>2, <2>1, <2>2, <2>3, <2>4, <2>5 DEF ManagerStep
  <1>3. ASSUME NEW t \in Task, NEW w \in Worker, WorkerStep(t, w)
        PROVE  UNCHANGED <<live, deps>>
    BY <1>3 DEF WorkerStep, Claim, RenewLease, Release, ReleaseExpiredClaim, Start,
                Finish, Block
  <1>4. CASE GuardStep \/ Tick
    BY <1>1, <1>4
    DEF GuardStep, RegisterLifecycleGuard, DisposeLifecycleGuard, Close, Tick
  <1>5. CASE UNCHANGED vars
    BY <1>1, <1>5 DEF vars
  <1> QED
    BY <1>1, <1>2, <1>3, <1>4, <1>5 DEF Next

\* Over any series of creations, deletions, additions and removals the
\* prerequisites join existing tasks and form no cycle.
THEOREM DependenciesStaySound == Spec => []DependenciesSound
  <1>1. Init => DependenciesSound
    BY DEF Init, DependenciesSound, Acyclic
  <1>2. Spec => []RowInv
    BY InitInv, StepInv, PTL DEF Spec
  <1> QED
    BY <1>1, <1>2, StepKeepsDependencies, PTL DEF Spec

-----------------------------------------------------------------------------
(* The dispatcher.                                                         *)
\* A step of a run is a call of its worker on the ledger, or leaves it alone.
LEMMA RunUsesLedger ==
    ASSUME LedgerTypeOK, NEW r \in Worker, RunStep(r)
    PROVE  (\E t \in Task : WorkerStep(t, r)) \/ UNCHANGED vars
  <1> USE DEF ledger, vars
  <1>0. LeaseTicks \in 1 .. LeaseTicks /\ live \subseteq Task
    BY StoreAssumption DEF LedgerTypeOK
  <1>1. ASSUME NEW t, NEW d \in Age,
               \/ Claim(t, r, LeaseTicks, d) \/ RenewLease(t, r, LeaseTicks, d)
               \/ Release(t, r, d) \/ ReleaseExpiredClaim(t, r, d)
               \/ Start(t, r, d)
               \/ \E target \in {"in_review", "failed"} : Finish(t, r, target, d)
        PROVE  \E u \in Task : WorkerStep(u, r)
    <2>1. t \in Task
      BY <1>0, <1>1
      DEF Claim, RenewLease, Release, ReleaseExpiredClaim, Start, Finish
    <2>2. WorkerStep(t, r)
      BY <1>0, <1>1 DEF WorkerStep
    <2> QED
      BY <2>1, <2>2
  <1>2. CASE \/ List(r) \/ PreflightFails(r) \/ GuardDecides(r) \/ LaunchRejects(r)
             \/ TimeoutFires(r) \/ HookReturns(r) \/ WorkerBegins(r)
             \/ SpawnFails(r) \/ WorkerEnds(r) \/ Crash(r)
    BY <1>2 DEF List, PreflightFails, GuardDecides, LaunchRejects, TimeoutFires,
                HookReturns, WorkerBegins, SpawnFails, WorkerEnds, Crash
  <1>3. CASE ClaimCandidate(r)
    BY <1>1, <1>3 DEF ClaimCandidate
  <1>4. CASE CleanupRelease(r) \/ CleanupRerelease(r) \/ AbortLaunch(r)
    BY <1>1, <1>4 DEF CleanupRelease, CleanupRerelease, AbortLaunch
  <1>5. CASE CleanupReclaim(r)
    BY <1>1, <1>5 DEF CleanupReclaim
  <1>6. CASE CleanupExpire(r)
    BY <1>1, <1>6 DEF CleanupExpire
  <1>7. CASE LaunchResolves(r) \/ Renew(r)
    BY <1>1, <1>7 DEF LaunchResolves, Renew
  <1>8. CASE Settle(r)
    BY <1>1, <1>8 DEF Settle, Report
  <1>9. CASE HookCompletes(r) \/ HookThrows(r)
    BY <1>1, <1>9 DEF HookCompletes, HookThrows
  <1> QED
    BY <1>2, <1>3, <1>4, <1>5, <1>6, <1>7, <1>8, <1>9 DEF RunStep, Progress

\* The manager beside the dispatcher is a manager of the ledger.
LEMMA ManageUsesLedger ==
    ASSUME NEW t \in Task, Manage(t)
    PROVE  ManagerStep(t)
  BY DEF Manage, ManagerStep

\* Every step of the composition is a step of the ledger or a stutter.
LEMMA DispatchStepUsesLedger == LedgerTypeOK /\ [DispatchNext]_dispatch => [Next]_vars
  <1> SUFFICES ASSUME LedgerTypeOK, [DispatchNext]_dispatch PROVE [Next]_vars
    OBVIOUS
  <1>1. CASE \E r \in Worker : RunStep(r)
    BY <1>1, RunUsesLedger DEF Next
  <1>2. CASE \E t \in Task : Manage(t)
    BY <1>2, ManageUsesLedger DEF Next
  <1>3. CASE GuardStep \/ Tick
    BY <1>3 DEF Next
  <1>4. CASE UNCHANGED dispatch
    BY <1>4 DEF dispatch, ledger, vars
  <1> QED
    BY <1>1, <1>2, <1>3, <1>4 DEF DispatchNext

\* The ledger's invariant, in the composition.
LEMMA DispatchLedgerInv == DispatchSpec => []RowInv
  <1>1. DispatchInit => RowInv
    BY InitInv DEF DispatchInit
  <1>2. RowInv /\ [DispatchNext]_dispatch => RowInv'
    BY StepInv, DispatchStepUsesLedger DEF RowInv
  <1> QED
    BY <1>1, <1>2, PTL DEF DispatchSpec

\* The dispatcher together with a manager implements the task ledger: every
\* theorem about Spec holds whatever the dispatchers do.
THEOREM DispatcherImplementsLedger == DispatchSpec => Spec
  <1>1. DispatchInit => Init
    BY DEF DispatchInit
  <1>2. RowInv /\ [DispatchNext]_dispatch => [Next]_vars
    BY DispatchStepUsesLedger DEF RowInv
  <1> QED
    BY <1>1, <1>2, DispatchLedgerInv, PTL DEF DispatchSpec, Spec

-----------------------------------------------------------------------------
\* Only the run that takes a step is written, and it stays well formed.
LEMMA RunWritten ==
    ASSUME DispatchTypeOK, NEW r \in Worker, NEW x \in Run,
           run' = [run EXCEPT ![r] = x],
           x.task = NoTask => x.pc \in {"idle", "preflight", "no_ready_task",
                                        "preflight_failed", "rejected", "crashed"},
           x.todo # {} <=> x.pc = "preflight"
    PROVE  DispatchTypeOK'
  BY DEF DispatchTypeOK

\* Moving on to a state that is not "idle" or "preflight", with a task at hand.
LEMMA Moved ==
    ASSUME DispatchTypeOK, NEW r \in Worker, NEW pc, Goto(r, pc),
           pc \in {"guard", "release", "reclaim", "rerelease", "expire", "launch",
                   "abort", "monitor", "hook", "hooked"} \cup Ended,
           run[r].pc \notin {"idle", "preflight"} \cup Ended
    PROVE  DispatchTypeOK'
  <1> DEFINE x == [run[r] EXCEPT !.pc = pc]
  <1>1. run[r] \in Run /\ run[r].todo = {} /\ run[r].task # NoTask
    BY DEF DispatchTypeOK, Ended, Result
  <1>2. x \in Run
    BY <1>1 DEF Run
  <1>3. x.pc = pc /\ x.todo = {} /\ x.task # NoTask /\ pc # "preflight"
    BY <1>1 DEF Run, Ended, Result
  <1>4. run' = [run EXCEPT ![r] = x]
    BY DEF Goto, DispatchTypeOK
  <1> HIDE DEF x
  <1> QED
    BY <1>2, <1>3, <1>4, RunWritten

LEMMA RunStepType ==
    ASSUME LedgerTypeOK, DispatchTypeOK, NEW r \in Worker, RunStep(r)
    PROVE  DispatchTypeOK'
  <1>0. run[r] \in Run /\ live \subseteq Task
    BY DEF DispatchTypeOK, LedgerTypeOK
  <1>1. CASE List(r)
    <2>1. PICK S \in SUBSET ReadyToRun :
            run' = [run EXCEPT ![r].todo = S,
                      ![r].pc = IF S = {} THEN "no_ready_task" ELSE "preflight"]
      BY <1>1 DEF List
    <2> DEFINE x == [run[r] EXCEPT !.todo = S,
                       !.pc = IF S = {} THEN "no_ready_task" ELSE "preflight"]
    <2>2. S \subseteq Task
      BY <1>0 DEF ReadyToRun
    <2>3. x \in Run
      BY <1>0, <2>2 DEF Run, Ended, Result
    <2>4. x.pc = (IF S = {} THEN "no_ready_task" ELSE "preflight") /\ x.todo = S
      BY <1>0 DEF Run
    <2>5. run' = [run EXCEPT ![r] = x]
      BY <2>1 DEF DispatchTypeOK
    <2> HIDE DEF x
    <2> QED
      BY <2>3, <2>4, <2>5, RunWritten
  <1>2. CASE PreflightFails(r)
    <2> DEFINE x == [run[r] EXCEPT !.pc = "preflight_failed", !.todo = {}]
    <2>1. x \in Run /\ x.pc = "preflight_failed" /\ x.todo = {}
      BY <1>0 DEF Run, Ended, Result
    <2>2. run' = [run EXCEPT ![r] = x]
      BY <1>2 DEF PreflightFails, DispatchTypeOK
    <2> HIDE DEF x
    <2> QED
      BY <2>1, <2>2, RunWritten
  <1>3. CASE ClaimCandidate(r)
    <2>1. PICK t \in run[r].todo, d \in Age :
            \/ /\ Claim(t, r, LeaseTicks, d)
               /\ run' = [run EXCEPT ![r].task = t, ![r].todo = {},
                             ![r].pc = IF r \in Governed THEN "guard" ELSE "launch"]
            \/ run' = [run EXCEPT ![r].todo = @ \ {t},
                          ![r].pc = IF run[r].todo = {t} THEN "no_ready_task" ELSE @]
            \/ run' = [run EXCEPT ![r].pc = "rejected", ![r].todo = {}]
      BY <1>3 DEF ClaimCandidate
    <2>2. t \in Task /\ t # NoTask /\ run[r].pc = "preflight"
      BY <1>0, <1>3, DispatchAssumption DEF Run, ClaimCandidate
    <2>3. CASE run' = [run EXCEPT ![r].task = t, ![r].todo = {},
                             ![r].pc = IF r \in Governed THEN "guard" ELSE "launch"]
      <3> DEFINE x == [run[r] EXCEPT !.task = t, !.todo = {},
                         !.pc = IF r \in Governed THEN "guard" ELSE "launch"]
      <3>1. x \in Run /\ x.pc \in {"guard", "launch"} /\ x.todo = {} /\ x.task = t
        BY <1>0, <2>2 DEF Run
      <3>2. run' = [run EXCEPT ![r] = x]
        BY <2>3 DEF DispatchTypeOK
      <3> HIDE DEF x
      <3> QED
        BY <2>2, <3>1, <3>2, RunWritten
    <2>4. CASE run' = [run EXCEPT ![r].todo = @ \ {t},
                          ![r].pc = IF run[r].todo = {t} THEN "no_ready_task" ELSE @]
      <3> DEFINE x == [run[r] EXCEPT !.todo = @ \ {t},
                         !.pc = IF run[r].todo = {t} THEN "no_ready_task" ELSE @]
      <3>1. /\ x \in Run /\ x.todo = run[r].todo \ {t}
            /\ x.pc = IF run[r].todo = {t} THEN "no_ready_task" ELSE "preflight"
        BY <1>0, <2>2 DEF Run, Ended, Result
      <3>2. run' = [run EXCEPT ![r] = x]
        BY <2>4 DEF DispatchTypeOK
      <3>3. x.todo = {} <=> run[r].todo = {t}
        BY <2>1, <3>1
      <3> HIDE DEF x
      <3> QED
        BY <3>1, <3>2, <3>3, RunWritten
    <2>5. CASE run' = [run EXCEPT ![r].pc = "rejected", ![r].todo = {}]
      <3> DEFINE x == [run[r] EXCEPT !.pc = "rejected", !.todo = {}]
      <3>1. x \in Run /\ x.pc = "rejected" /\ x.todo = {}
        BY <1>0 DEF Run, Ended, Result
      <3>2. run' = [run EXCEPT ![r] = x]
        BY <2>5 DEF DispatchTypeOK
      <3> HIDE DEF x
      <3> QED
        BY <3>1, <3>2, RunWritten
    <2> QED
      BY <2>1, <2>3, <2>4, <2>5
  <1>4. CASE Crash(r)
    <2> DEFINE x == [run[r] EXCEPT !.pc = "crashed", !.todo = {}]
    <2>1. x \in Run /\ x.pc = "crashed" /\ x.todo = {}
      BY <1>0 DEF Run, Ended
    <2>2. run' = [run EXCEPT ![r] = x]
      BY <1>4 DEF Crash, DispatchTypeOK
    <2> HIDE DEF x
    <2> QED
      BY <2>1, <2>2, RunWritten
  <1>5. ASSUME NEW f \in {"ok", "bad", "running", "stillborn"},
               run' = [run EXCEPT ![r].worker = f]
        PROVE  DispatchTypeOK'
    <2> DEFINE x == [run[r] EXCEPT !.worker = f]
    <2>1. /\ x \in Run /\ x.pc = run[r].pc /\ x.todo = run[r].todo
          /\ x.task = run[r].task
      BY <1>0, <1>5 DEF Run
    <2>2. run' = [run EXCEPT ![r] = x]
      BY <1>5 DEF DispatchTypeOK
    <2> HIDE DEF x
    <2> QED
      BY <2>1, <2>2, RunWritten DEF DispatchTypeOK
  <1>6. CASE TimeoutFires(r)
    <2> DEFINE x == [run[r] EXCEPT !.timedOut = TRUE]
    <2>1. /\ x \in Run /\ x.pc = run[r].pc /\ x.todo = run[r].todo
          /\ x.task = run[r].task
      BY <1>0 DEF Run
    <2>2. run' = [run EXCEPT ![r] = x]
      BY <1>6 DEF TimeoutFires, DispatchTypeOK
    <2> HIDE DEF x
    <2> QED
      BY <2>1, <2>2, RunWritten DEF DispatchTypeOK
  <1>7. CASE Renew(r)
    <2> DEFINE x == [run[r] EXCEPT !.lost = TRUE]
    <2>1. /\ x \in Run /\ x.pc = run[r].pc /\ x.todo = run[r].todo
          /\ x.task = run[r].task
      BY <1>0 DEF Run
    <2>2. run' = run \/ run' = [run EXCEPT ![r] = x]
      BY <1>7 DEF Renew, DispatchTypeOK
    <2> HIDE DEF x
    <2> QED
      BY <2>1, <2>2, RunWritten DEF DispatchTypeOK
  <1>8. ASSUME NEW pc \in {"release", "reclaim", "rerelease", "expire", "launch",
                           "abort", "monitor", "hook", "hooked"} \cup Result,
               Goto(r, pc), run[r].pc \notin {"idle", "preflight"} \cup Ended
        PROVE  DispatchTypeOK'
    BY <1>8, Moved DEF Ended
  <1>9. CASE GuardDecides(r) \/ LaunchRejects(r) \/ HookReturns(r)
    BY <1>8, <1>9 DEF GuardDecides, LaunchRejects, HookReturns, Ended, Result
  <1>10. CASE CleanupRelease(r) \/ CleanupRerelease(r) \/ AbortLaunch(r)
    BY <1>8, <1>10 DEF CleanupRelease, CleanupRerelease, AbortLaunch, Ended, Result
  <1>11. CASE CleanupReclaim(r)
    BY <1>8, <1>11 DEF CleanupReclaim, Ended, Result
  <1>12. CASE CleanupExpire(r)
    BY <1>8, <1>12 DEF CleanupExpire, Ended, Result
  <1>13. CASE LaunchResolves(r) \/ HookCompletes(r) \/ HookThrows(r)
    BY <1>8, <1>13 DEF LaunchResolves, HookCompletes, HookThrows, Ended, Result
  <1>14. CASE Settle(r)
    BY <1>8, <1>14 DEF Settle, Report, Ended, Result
  <1> QED
    BY <1>1, <1>2, <1>3, <1>4, <1>5, <1>6, <1>7, <1>9, <1>10, <1>11, <1>12,
       <1>13, <1>14 DEF RunStep, Progress, WorkerBegins, SpawnFails, WorkerEnds

\* What the composition keeps: the ledger's invariant and the runs' shape.
DispatchInv == RowInv /\ DispatchTypeOK

LEMMA DispatchInvariant == DispatchSpec => []DispatchInv
  <1>1. DispatchInit => DispatchInv
    BY InitInv DEF DispatchInit, DispatchInv, DispatchTypeOK, Run
  <1>2. DispatchInv /\ [DispatchNext]_dispatch => DispatchInv'
    <2> SUFFICES ASSUME DispatchInv, [DispatchNext]_dispatch PROVE DispatchTypeOK'
      BY StepInv, DispatchStepUsesLedger DEF DispatchInv, RowInv
    <2> QED
      BY RunStepType DEF DispatchInv, RowInv, DispatchNext, dispatch, DispatchTypeOK
  <1> QED
    BY <1>1, <1>2, PTL DEF DispatchSpec

\* A step that is not a step of r leaves run[r] as it is.
LEMMA RunsAreApart ==
    ASSUME DispatchTypeOK, NEW q \in Worker, NEW r \in Worker, RunStep(q), q # r
    PROVE  run'[r] = run[r]
  BY DEF DispatchTypeOK, RunStep, Progress, List, PreflightFails, ClaimCandidate,
     GuardDecides, CleanupRelease, CleanupReclaim, CleanupRerelease, CleanupExpire,
     LaunchResolves, LaunchRejects, AbortLaunch, TimeoutFires, Settle, Report,
     HookCompletes, HookReturns, HookThrows, Renew, WorkerBegins, SpawnFails, WorkerEnds,
     Crash, Goto

-----------------------------------------------------------------------------
\* A call by worker w leaves alone a row that another worker holds on a lease
\* that still runs, and never makes that other worker an owner.
LEMMA OthersAreLeftAlone ==
    ASSUME RowInv, NEW t \in Task, NEW u \in Task, NEW w \in Worker,
           WorkerStep(u, w)
    PROVE  /\ row'[t].claimed_by \in {NoWorker, w, row[t].claimed_by}
           /\ /\ row[t].claimed_by \notin {NoWorker, w}
              /\ row[t].lease > 0
              => row'[t] = row[t]
  <1> USE DEF RowInv, LedgerTypeOK
  <1> PICK d \in Age :
        \/ \E n \in 1 .. LeaseTicks : Claim(u, w, n, d) \/ RenewLease(u, w, n, d)
        \/ Release(u, w, d)
        \/ ReleaseExpiredClaim(u, w, d)
        \/ Start(u, w, d)
        \/ \E target \in {"in_review", "failed"} : Finish(u, w, target, d)
        \/ Block(u, w, d)
    BY DEF WorkerStep
  <1>0. d \in Int /\ d >= 0 /\ row[t] \in Row /\ row[u] \in Row
    BY StoreAssumption DEF Age
  <1>1. ASSUME NEW n \in 1 .. LeaseTicks, Claim(u, w, n, d)
        PROVE  /\ row'[t].claimed_by \in {NoWorker, w, row[t].claimed_by}
               /\ /\ row[t].claimed_by \notin {NoWorker, w}
                  /\ row[t].lease > 0
                  => row'[t] = row[t]
    <2>1. row'[t].claimed_by \in {NoWorker, w, row[t].claimed_by}
      BY <1>0, <1>1 DEF Claim, Row
    <2>2. ASSUME row[t].claimed_by \notin {NoWorker, w}, row[t].lease > 0, u = t
          PROVE  FALSE
      <3>1. row[t].status \in Held
        BY <2>2 DEF ClaimShape
      <3>2. row[t].lease \in Int
        BY <1>0, <2>2, Ranges DEF Row, ClaimShape
      <3>3. LeaseExpired(t, d)
        BY <1>1, <2>2, <3>1 DEF Claim, Claimable, Held
      <3> QED
        BY <1>0, <2>2, <3>2, <3>3 DEF LeaseExpired
    <2>3. u # t => row'[t] = row[t]
      BY <1>1 DEF Claim
    <2> QED
      BY <2>1, <2>2, <2>3
  <1>2. ASSUME NEW n \in 1 .. LeaseTicks, RenewLease(u, w, n, d)
        PROVE  /\ row'[t].claimed_by \in {NoWorker, w, row[t].claimed_by}
               /\ row[t].claimed_by # w => row'[t] = row[t]
    BY <1>0, <1>2 DEF RenewLease, ActiveLease, Row
  <1>3. ASSUME Release(u, w, d)
        PROVE  /\ row'[t].claimed_by \in {NoWorker, w, row[t].claimed_by}
               /\ row[t].claimed_by # w => row'[t] = row[t]
    BY <1>0, <1>3 DEF Release, Released, ActiveLease, Row
  <1>4. ASSUME ReleaseExpiredClaim(u, w, d)
        PROVE  /\ row'[t].claimed_by \in {NoWorker, w, row[t].claimed_by}
               /\ row[t].claimed_by # w => row'[t] = row[t]
    BY <1>0, <1>4 DEF ReleaseExpiredClaim, Released, Row
  <1>5. ASSUME Start(u, w, d)
        PROVE  /\ row'[t].claimed_by \in {NoWorker, w, row[t].claimed_by}
               /\ row[t].claimed_by # w => row'[t] = row[t]
    BY <1>0, <1>5 DEF Start, ActiveLease, Row
  <1>6. ASSUME NEW target \in {"in_review", "failed"}, Finish(u, w, target, d)
        PROVE  /\ row'[t].claimed_by \in {NoWorker, w, row[t].claimed_by}
               /\ row[t].claimed_by # w => row'[t] = row[t]
    BY <1>0, <1>6 DEF Finish, ActiveLease, Row
  <1>7. ASSUME Block(u, w, d)
        PROVE  /\ row'[t].claimed_by \in {NoWorker, w, row[t].claimed_by}
               /\ row[t].claimed_by \notin {NoWorker, w} => row'[t] = row[t]
    BY <1>0, <1>7 DEF Block, ActiveLease, ClaimShape, Row
  <1> QED
    BY <1>1, <1>2, <1>3, <1>4, <1>5, <1>6, <1>7

\* releaseOrRevert and every other step of a run never clobber the claim that
\* another worker holds on a running lease.
THEOREM DispatchersNeverClobber == DispatchSpec => NoClobber
  <1>1. DispatchInv /\ [DispatchNext]_dispatch =>
          [\A r \in Worker, t \in Task :
              /\ run'[r] # run[r]
              /\ row[t].claimed_by \notin {NoWorker, r} /\ row[t].lease > 0
              => row'[t] = row[t]]_dispatch
    <2> SUFFICES ASSUME DispatchInv, DispatchNext, NEW r \in Worker, NEW t \in Task,
                        run'[r] # run[r],
                        row[t].claimed_by \notin {NoWorker, r}, row[t].lease > 0
                 PROVE  row'[t] = row[t]
      OBVIOUS
    <2>1. PICK q \in Worker : RunStep(q)
      BY DEF DispatchNext
    <2>2. q = r
      BY <2>1, RunsAreApart DEF DispatchInv
    <2>3. (\E u \in Task : WorkerStep(u, r)) \/ UNCHANGED vars
      BY <2>1, <2>2, RunUsesLedger DEF DispatchInv, RowInv
    <2> QED
      BY <2>3, OthersAreLeftAlone DEF vars, DispatchInv
  <1> QED
    BY <1>1, DispatchInvariant, PTL DEF DispatchSpec, NoClobber

-----------------------------------------------------------------------------
\* ClaimGivenUp as it is kept: a governed run has let go when its hook moved
\* the task, before the hook returns.
GaveUp == {"released", "reverted", "failed", "in_review", "hooked"}

LetGo ==
    \A r \in Worker :
        run[r].pc \in GaveUp => row[run[r].task].claimed_by # r

\* The calls that give a claim up clear the owner.
LEMMA ClaimCleared ==
    ASSUME LedgerTypeOK, NEW t \in Task, NEW w, NEW d,
           \/ Release(t, w, d)
           \/ ReleaseExpiredClaim(t, w, d) /\ row[t].status \in Held
           \/ \E target : Finish(t, w, target, d)
    PROVE  row'[t].claimed_by = NoWorker
  <1>0. row \in [Task -> Row]
    BY DEF LedgerTypeOK
  <1>1. CASE Release(t, w, d)
    BY <1>0, <1>1 DEF Release, Released, Row
  <1>2. CASE ReleaseExpiredClaim(t, w, d) /\ row[t].status \in Held
    BY <1>0, <1>2 DEF ReleaseExpiredClaim, Released, Row
  <1>3. ASSUME NEW target, Finish(t, w, target, d)
        PROVE  row'[t].claimed_by = NoWorker
    BY <1>0, <1>3 DEF Finish, Row
  <1> QED
    BY <1>1, <1>2, <1>3

\* A run's own step keeps LetGo for that run.
LEMMA OwnStepLetsGo ==
    ASSUME DispatchInv, LetGo, NEW r \in Worker, RunStep(r),
           run'[r].pc \in GaveUp
    PROVE  row'[run'[r].task].claimed_by # r
  <1> USE DEF DispatchInv, RowInv
  <1>0. /\ NoWorker # r
        /\ run[r] \in Run
        /\ run \in [Worker -> Run]
        /\ live \subseteq Task
    BY StoreAssumption DEF DispatchTypeOK, LedgerTypeOK
  <1>1. ASSUME NEW pc, Goto(r, pc)
        PROVE  run'[r].task = run[r].task /\ run'[r].pc = pc
    BY <1>0, <1>1 DEF Goto, Run
  <1>2. ASSUME run[r].pc \in GaveUp, UNCHANGED ledger, run'[r].task = run[r].task
        PROVE  row'[run'[r].task].claimed_by # r
    BY <1>2 DEF LetGo, ledger
  <1>3. ASSUME NEW d, NEW t, t = run[r].task, run'[r].task = t,
               \/ Release(t, r, d) \/ ReleaseExpiredClaim(t, r, d)
               \/ \E target : Finish(t, r, target, d)
        PROVE  row'[run'[r].task].claimed_by # r
    <2>1. t \in Task
      BY <1>0, <1>3 DEF Release, ReleaseExpiredClaim, Finish
    <2>2. ReleaseExpiredClaim(t, r, d) => row[t].status \in Held
      BY <1>0, <2>1 DEF ReleaseExpiredClaim, ClaimShape
    <2> QED
      BY <1>0, <1>3, <2>1, <2>2, ClaimCleared
  <1>4. CASE List(r) \/ PreflightFails(r) \/ Crash(r)
    <2>1. ASSUME List(r) PROVE run'[r].pc \in {"no_ready_task", "preflight"}
      BY <1>0, <2>1 DEF List, Run
    <2>2. CASE PreflightFails(r) \/ Crash(r)
      BY <1>0, <2>2 DEF PreflightFails, Crash, Run, GaveUp
    <2> QED
      BY <1>4, <2>1, <2>2 DEF GaveUp
  <1>5. CASE ClaimCandidate(r)
    BY <1>0, <1>5 DEF ClaimCandidate, Run, GaveUp
  <1>6. CASE GuardDecides(r) \/ LaunchRejects(r)
    BY <1>1, <1>6 DEF GuardDecides, LaunchRejects, GaveUp
  <1>7. CASE CleanupRelease(r) \/ CleanupRerelease(r) \/ AbortLaunch(r)
    <2>1. ASSUME ReleasesNothing(run[r].task), UNCHANGED ledger,
                 run'[r].task = run[r].task
          PROVE  row'[run'[r].task].claimed_by # r
      BY <1>0, <2>1 DEF ReleasesNothing, ClaimShape, ledger
    <2> QED
      BY <1>1, <1>3, <1>7, <2>1
      DEF CleanupRelease, CleanupRerelease, AbortLaunch, GaveUp
  <1>8. CASE CleanupReclaim(r)
    BY <1>1, <1>8 DEF CleanupReclaim, GaveUp
  <1>9. CASE CleanupExpire(r)
    BY <1>1, <1>3, <1>9 DEF CleanupExpire, GaveUp
  <1>10. CASE LaunchResolves(r)
    BY <1>1, <1>10 DEF LaunchResolves, GaveUp
  <1>11. CASE Renew(r) \/ TimeoutFires(r)
    BY <1>0, <1>11 DEF Renew, TimeoutFires, Run, GaveUp
  <1>12. CASE Settle(r)
    BY <1>1, <1>3, <1>12 DEF Settle, Report, GaveUp
  <1>13. CASE HookCompletes(r) \/ HookThrows(r)
    BY <1>1, <1>3, <1>13 DEF HookCompletes, HookThrows, GaveUp
  <1>14. CASE HookReturns(r)
    BY <1>1, <1>2, <1>14 DEF HookReturns, GaveUp
  <1>15. CASE WorkerBegins(r) \/ SpawnFails(r)
    BY <1>0, <1>15 DEF WorkerBegins, SpawnFails, Run, GaveUp
  <1>16. CASE WorkerEnds(r)
    <2>1. run'[r].pc = run[r].pc /\ run'[r].task = run[r].task
      BY <1>0, <1>16 DEF WorkerEnds, Run
    <2> QED
      BY <1>2, <1>16, <2>1 DEF WorkerEnds
  <1> QED
    BY <1>4, <1>5, <1>6, <1>7, <1>8, <1>9, <1>10, <1>11, <1>12, <1>13, <1>14,
       <1>15, <1>16 DEF RunStep, Progress

\* A run that reports "released", "reverted", "failed" or "in_review" keeps no
\* claim: other runs do not act in its name and it never claims again.
THEOREM RunsGiveUpClaims == DispatchSpec => []ClaimGivenUp
  <1>1. DispatchInit => LetGo
    BY DEF DispatchInit, LetGo, GaveUp
  <1>2. DispatchInv /\ DispatchInv' /\ LetGo /\ [DispatchNext]_dispatch => LetGo'
    <2> SUFFICES ASSUME DispatchInv, DispatchInv', LetGo, [DispatchNext]_dispatch,
                        NEW r \in Worker, run'[r].pc \in GaveUp
                 PROVE  row'[run'[r].task].claimed_by # r
      BY DEF LetGo
    <2>0. RowInv /\ LedgerTypeOK /\ DispatchTypeOK /\ NoWorker # r
      BY StoreAssumption DEF DispatchInv, RowInv
    <2>1. run'[r].task \in Task
      BY DEF DispatchInv, DispatchTypeOK, Run, GaveUp
    <2>2. ASSUME NEW q \in Worker, RunStep(q), q # r
          PROVE  row'[run'[r].task].claimed_by # r
      <3>1. run'[r] = run[r]
        BY <2>0, <2>2, RunsAreApart
      <3>2. row[run[r].task].claimed_by # r
        BY <3>1 DEF LetGo
      <3>3. CASE UNCHANGED vars
        BY <3>1, <3>2, <3>3 DEF vars
      <3>4. CASE \E u \in Task : WorkerStep(u, q)
        BY <2>0, <2>1, <2>2, <3>1, <3>2, <3>4, OthersAreLeftAlone
      <3> QED
        BY <2>0, <2>2, <3>3, <3>4, RunUsesLedger
    <2>3. CASE RunStep(r)
      BY <2>3, OwnStepLetsGo
    <2>4. CASE ((\E t \in Task : Manage(t)) \/ GuardStep \/ Tick) /\ UNCHANGED run
      <3>1. \E u \in Task : ManagerStep(u) \/ GuardStep \/ Tick
        BY <2>1, <2>4, ManageUsesLedger
      <3>2. row[run[r].task].claimed_by # r
        BY <2>4 DEF LetGo
      <3> QED
        BY <2>0, <2>1, <2>4, <3>1, <3>2, NoHandover
    <2>5. CASE UNCHANGED dispatch
      BY <2>5 DEF dispatch, ledger, LetGo
    <2> QED
      BY <2>2, <2>3, <2>4, <2>5 DEF DispatchNext
  <1>3. LetGo => ClaimGivenUp
    BY DEF LetGo, ClaimGivenUp, GaveUp
  <1> QED
    BY <1>1, <1>2, <1>3, DispatchInvariant, PTL DEF DispatchSpec
\* A run's control state is always one that its code can be in.
THEOREM DispatchTypes == DispatchSpec => []DispatchTypeOK
  BY DispatchInvariant, PTL DEF DispatchInv

-----------------------------------------------------------------------------
\* OneAttemptPerLaunch as it is kept: no attempt is counted while the launch is
\* still pending, and no worker was called for before it.
WithWorker(t) == {r \in Worker : run[r].task = t /\ run[r].worker # "none"}
Launched(t)   == {r \in WithWorker(t) : run[r].pc # "launch"}

NoEarlyWorker ==
    \A r \in Worker :
        run[r].pc \in {"idle", "preflight", "guard"} => run[r].worker = "none"

AttemptsCounted ==
    /\ NoEarlyWorker
    /\ \A t \in Task : /\ IsFiniteSet(WithWorker(t))
                       /\ row[t].attempts <= Cardinality(Launched(t))

\* Only start counts an attempt, and only on the row it starts.
LEMMA OnlyStartCounts ==
    ASSUME LedgerTypeOK, NEW t \in Task, NEW u, NEW w, NEW d,
           \/ \E n : Claim(u, w, n, d) \/ RenewLease(u, w, n, d)
           \/ Release(u, w, d)
           \/ ReleaseExpiredClaim(u, w, d)
           \/ \E target : Finish(u, w, target, d)
           \/ Start(u, w, d) /\ u # t
    PROVE  row'[t].attempts = row[t].attempts
  <1>0. row \in [Task -> Row] /\ u \in Task /\ row[t] \in Row
    BY DEF LedgerTypeOK, Claim, RenewLease, Release, ReleaseExpiredClaim, Finish, Start
  <1>1. ASSUME NEW n, Claim(u, w, n, d) PROVE row'[t].attempts = row[t].attempts
    BY <1>0, <1>1 DEF Claim, Row
  <1>2. ASSUME NEW n, RenewLease(u, w, n, d)
        PROVE  row'[t].attempts = row[t].attempts
    BY <1>0, <1>2 DEF RenewLease, Row
  <1>3. CASE Release(u, w, d)
    BY <1>0, <1>3 DEF Release, Released, Row
  <1>4. CASE ReleaseExpiredClaim(u, w, d)
    BY <1>0, <1>4 DEF ReleaseExpiredClaim, Released, Row
  <1>5. ASSUME NEW target, Finish(u, w, target, d)
        PROVE  row'[t].attempts = row[t].attempts
    BY <1>0, <1>5 DEF Finish, Row
  <1>6. CASE Start(u, w, d) /\ u # t
    BY <1>0, <1>6 DEF Start, Row
  <1> QED
    BY <1>1, <1>2, <1>3, <1>4, <1>5, <1>6

\* start counts one.
LEMMA StartCountsOne ==
    ASSUME LedgerTypeOK, NEW t \in Task, NEW w, NEW d, Start(t, w, d)
    PROVE  row'[t].attempts = row[t].attempts + 1
  BY DEF LedgerTypeOK, Start, Row

\* The manager beside the dispatcher, the guards and the clock give no attempt
\* to a task: a new or deleted row starts again at zero.
LEMMA ManageCountsNone ==
    ASSUME LedgerTypeOK, NEW t \in Task,
           (\E u \in Task : Manage(u)) \/ GuardStep \/ Tick
    PROVE  row'[t].attempts \in {0, row[t].attempts}
  <1> USE DEF LedgerTypeOK
  <1>1. CASE GuardStep
    BY <1>1 DEF GuardStep, RegisterLifecycleGuard, DisposeLifecycleGuard, Close
  <1>2. CASE Tick
    BY <1>2 DEF Tick, Row
  <1>3. ASSUME NEW u \in Task, Manage(u)
        PROVE  row'[t].attempts \in {0, row[t].attempts}
    <2>1. ASSUME NEW s, NEW m, NEW B, Create(u, s, m, B)
          PROVE  row'[t].attempts \in {0, row[t].attempts}
      BY <2>1 DEF Create, BlankRow
    <2>2. ASSUME NEW s, Update(u, s, Keep, Keep)
          PROVE  row'[t].attempts \in {0, row[t].attempts}
      BY <2>2 DEF Update
    <2>3. CASE Delete(u)
      BY <2>3 DEF Delete, BlankRow
    <2> QED
      BY <1>3, <2>1, <2>2, <2>3 DEF Manage
  <1> QED
    BY <1>1, <1>2, <1>3

\* A step of a run counts an attempt only when the launch of its own task
\* resolves, with a handle at hand.
LEMMA RunCounts ==
    ASSUME LedgerTypeOK, DispatchTypeOK, NEW r \in Worker, NEW t \in Task, RunStep(r)
    PROVE  \/ row'[t].attempts = row[t].attempts
           \/ /\ row'[t].attempts = row[t].attempts + 1
              /\ run[r].task = t
              /\ run[r].worker # "none"
              /\ run[r].pc = "launch"
              /\ run'[r].pc # "launch"
  <1>1. CASE UNCHANGED ledger
    BY <1>1 DEF ledger
  <1>2. CASE ClaimCandidate(r)
    BY <1>1, <1>2, OnlyStartCounts DEF ClaimCandidate
  <1>3. CASE CleanupRelease(r) \/ CleanupRerelease(r) \/ AbortLaunch(r)
    BY <1>1, <1>3, OnlyStartCounts DEF CleanupRelease, CleanupRerelease, AbortLaunch
  <1>4. CASE CleanupReclaim(r)
    BY <1>1, <1>4, OnlyStartCounts DEF CleanupReclaim
  <1>5. CASE CleanupExpire(r)
    BY <1>1, <1>5, OnlyStartCounts DEF CleanupExpire
  <1>6. CASE Renew(r)
    BY <1>1, <1>6, OnlyStartCounts DEF Renew
  <1>7. CASE Settle(r)
    BY <1>1, <1>7, OnlyStartCounts DEF Settle, Report
  <1>8. CASE HookCompletes(r) \/ HookThrows(r)
    BY <1>1, <1>8, OnlyStartCounts DEF HookCompletes, HookThrows
  <1>9. CASE LaunchResolves(r)
    <2>1. PICK d : \/ Start(run[r].task, r, d) /\ Goto(r, "monitor")
                   \/ UNCHANGED ledger
      BY <1>9 DEF LaunchResolves
    <2>2. CASE Start(run[r].task, r, d) /\ Goto(r, "monitor") /\ run[r].task = t
      <3>1. run'[r].pc = "monitor"
        BY <2>2 DEF Goto, DispatchTypeOK, Run
      <3> QED
        BY <1>9, <2>2, <3>1, StartCountsOne DEF LaunchResolves
    <2>3. CASE Start(run[r].task, r, d) /\ run[r].task # t
      BY <2>3, OnlyStartCounts
    <2> QED
      BY <1>1, <2>1, <2>2, <2>3
  <1> QED
    BY <1>1, <1>2, <1>3, <1>4, <1>5, <1>6, <1>7, <1>8, <1>9
    DEF RunStep, Progress, List, PreflightFails, GuardDecides, LaunchRejects,
        TimeoutFires, HookReturns, WorkerBegins, SpawnFails, WorkerEnds, Crash

\* A worker is called for at the launch; from then on the run keeps its
\* task, and it never launches again.
LEMMA RunLaunchesOnce ==
    ASSUME DispatchTypeOK, NoEarlyWorker, NEW r \in Worker, RunStep(r)
    PROVE  /\ run'[r].pc \in {"idle", "preflight", "guard"}
              => run'[r].worker = "none"
           /\ run[r].worker # "none"
              => run'[r].worker # "none" /\ run'[r].task = run[r].task
           /\ run[r].worker # "none" /\ run[r].pc # "launch"
              => run'[r].pc # "launch"
  <1> DEFINE Goal ==
        /\ run'[r].pc \in {"idle", "preflight", "guard"} => run'[r].worker = "none"
        /\ run[r].worker # "none"
           => run'[r].worker # "none" /\ run'[r].task = run[r].task
        /\ run[r].worker # "none" /\ run[r].pc # "launch"
           => run'[r].pc # "launch"
  <1>0. run[r] \in Run /\ run \in [Worker -> Run]
    BY DEF DispatchTypeOK
  <1>1. ASSUME NEW pc, Goto(r, pc), pc \notin {"idle", "preflight", "guard"},
               pc = "launch" => run[r].worker = "none"
        PROVE  Goal
    BY <1>0, <1>1 DEF Goto, Run
  <1>2. CASE List(r)
    BY <1>0, <1>2 DEF List, Run, NoEarlyWorker
  <1>3. CASE PreflightFails(r) \/ Crash(r)
    BY <1>0, <1>3 DEF PreflightFails, Crash, Run
  <1>4. CASE ClaimCandidate(r)
    BY <1>0, <1>4 DEF ClaimCandidate, Run, NoEarlyWorker
  <1>5. CASE GuardDecides(r)
    BY <1>1, <1>5 DEF GuardDecides, NoEarlyWorker
  <1>6. CASE CleanupRelease(r) \/ CleanupRerelease(r) \/ AbortLaunch(r)
    BY <1>1, <1>6 DEF CleanupRelease, CleanupRerelease, AbortLaunch
  <1>7. CASE CleanupReclaim(r) \/ CleanupExpire(r)
    BY <1>1, <1>7 DEF CleanupReclaim, CleanupExpire
  <1>8. CASE LaunchResolves(r) \/ LaunchRejects(r)
    BY <1>1, <1>8 DEF LaunchResolves, LaunchRejects
  <1>9. CASE Settle(r)
    BY <1>1, <1>9 DEF Settle, Report
  <1>10. CASE HookCompletes(r) \/ HookReturns(r) \/ HookThrows(r)
    BY <1>1, <1>10 DEF HookCompletes, HookReturns, HookThrows
  <1>11. CASE Renew(r) \/ TimeoutFires(r)
    BY <1>0, <1>11 DEF Renew, TimeoutFires, Run, NoEarlyWorker
  <1>12. CASE WorkerBegins(r) \/ SpawnFails(r)
    BY <1>0, <1>12 DEF WorkerBegins, SpawnFails, Run
  <1>13. CASE WorkerEnds(r)
    BY <1>0, <1>13 DEF WorkerEnds, Run, NoEarlyWorker
  <1> QED
    BY <1>2, <1>3, <1>4, <1>5, <1>6, <1>7, <1>8, <1>9, <1>10, <1>11, <1>12,
       <1>13 DEF RunStep, Progress

\* A step of a run adds at most that run to the runs of a task that called for a
\* worker, and to those of them that have launched.
LEMMA LaunchedGrows ==
    ASSUME DispatchTypeOK, NoEarlyWorker, NEW r \in Worker, NEW t \in Task,
           RunStep(r)
    PROVE  /\ WithWorker(t)' \in {WithWorker(t), WithWorker(t) \cup {r}}
           /\ Launched(t)' \in {Launched(t), Launched(t) \cup {r}}
  <1>1. \A q \in Worker : q # r => run'[q] = run[q]
    BY RunsAreApart
  <1>2. /\ r \in WithWorker(t) => r \in WithWorker(t)'
        /\ r \in Launched(t) => r \in Launched(t)'
    BY RunLaunchesOnce DEF WithWorker, Launched
  <1>3. \A q : q # r => /\ q \in WithWorker(t)' <=> q \in WithWorker(t)
                        /\ q \in Launched(t)' <=> q \in Launched(t)
    BY <1>1 DEF WithWorker, Launched
  <1>4. WithWorker(t)' \in {WithWorker(t), WithWorker(t) \cup {r}}
    BY <1>2, <1>3
  <1>5. Launched(t)' \in {Launched(t), Launched(t) \cup {r}}
    BY <1>2, <1>3
  <1> QED
    BY <1>4, <1>5

\* Counting one more needs one more member.
LEMMA CountCovered ==
    ASSUME NEW S, IsFiniteSet(S), NEW r, NEW T \in {S, S \cup {r}},
           NEW n \in Int, NEW m, n <= Cardinality(S),
           m = n \/ (m = n + 1 /\ r \notin S /\ r \in T)
    PROVE  m <= Cardinality(T)
  <1>1. Cardinality(S) \in Int
    BY FS_CardinalityType
  <1>2. Cardinality(S \cup {r}) = IF r \in S THEN Cardinality(S) ELSE Cardinality(S) + 1
    BY FS_AddElement
  <1> QED
    BY <1>1, <1>2

\* What is counted for a task stays covered by its launched runs.
LEMMA RunStepKeepsCount ==
    ASSUME LedgerTypeOK, DispatchTypeOK, AttemptsCounted, NEW r \in Worker, RunStep(r)
    PROVE  AttemptsCounted'
  <1>1. NoEarlyWorker'
    <2> SUFFICES ASSUME NEW q \in Worker,
                        run'[q].pc \in {"idle", "preflight", "guard"}
                 PROVE  run'[q].worker = "none"
      BY DEF NoEarlyWorker
    <2>1. CASE q = r
      BY <2>1, RunLaunchesOnce DEF AttemptsCounted
    <2>2. CASE q # r
      BY <2>2, RunsAreApart DEF AttemptsCounted, NoEarlyWorker
    <2> QED
      BY <2>1, <2>2
  <1>2. ASSUME NEW t \in Task
        PROVE  /\ IsFiniteSet(WithWorker(t)')
               /\ row'[t].attempts <= Cardinality(Launched(t)')
    <2>0. NoEarlyWorker /\ row[t] \in Row
      BY DEF AttemptsCounted, LedgerTypeOK
    <2>1. IsFiniteSet(WithWorker(t)) /\ row[t].attempts <= Cardinality(Launched(t))
      BY DEF AttemptsCounted
    <2>2. IsFiniteSet(Launched(t))
      BY <2>1, FS_Subset DEF Launched
    <2>3. /\ WithWorker(t)' \in {WithWorker(t), WithWorker(t) \cup {r}}
          /\ Launched(t)' \in {Launched(t), Launched(t) \cup {r}}
      BY <2>0, LaunchedGrows
    <2>4. IsFiniteSet(WithWorker(t)')
      BY <2>1, <2>3, FS_AddElement
    <2>5. row[t].attempts \in Int
      BY <2>0, Ranges DEF Row
    <2>6. \/ row'[t].attempts = row[t].attempts
          \/ /\ row'[t].attempts = row[t].attempts + 1
             /\ r \notin Launched(t) /\ r \in Launched(t)'
      <3>1. CASE /\ row'[t].attempts = row[t].attempts + 1
                 /\ run[r].task = t /\ run[r].worker # "none"
                 /\ run[r].pc = "launch" /\ run'[r].pc # "launch"
        BY <2>0, <3>1, RunLaunchesOnce DEF Launched, WithWorker
      <3> QED
        BY <3>1, RunCounts
    <2>7. row'[t].attempts <= Cardinality(Launched(t)')
      BY <2>1, <2>2, <2>3, <2>5, <2>6, CountCovered
    <2> QED
      BY <2>4, <2>7
  <1> QED
    BY <1>1, <1>2 DEF AttemptsCounted

\* A run consumes one attempt at most, and only when its launcher was asked for
\* a worker, however the dispatches, crashes, lost answers and managers
\* interleave, for any number of runs.
THEOREM LaunchesAreCharged == DispatchSpec => []OneAttemptPerLaunch
  <1>1. DispatchInit => AttemptsCounted
    <2> SUFFICES ASSUME DispatchInit PROVE AttemptsCounted
      OBVIOUS
    <2>1. NoEarlyWorker
      BY DEF DispatchInit, NoEarlyWorker
    <2>2. ASSUME NEW t \in Task
          PROVE  /\ IsFiniteSet(WithWorker(t))
                 /\ row[t].attempts <= Cardinality(Launched(t))
      <3>1. WithWorker(t) = {} /\ Launched(t) = {}
        BY DEF DispatchInit, WithWorker, Launched
      <3>2. row[t].attempts = 0
        BY DEF DispatchInit, Init, BlankRow
      <3> QED
        BY <3>1, <3>2, FS_EmptySet
    <2> QED
      BY <2>1, <2>2 DEF AttemptsCounted
  <1>2. DispatchInv /\ AttemptsCounted /\ [DispatchNext]_dispatch => AttemptsCounted'
    <2> SUFFICES ASSUME DispatchInv, AttemptsCounted, [DispatchNext]_dispatch
                 PROVE  AttemptsCounted'
      OBVIOUS
    <2>0. LedgerTypeOK /\ DispatchTypeOK
      BY DEF DispatchInv, RowInv
    <2>1. ASSUME NEW r \in Worker, RunStep(r) PROVE AttemptsCounted'
      BY <2>0, <2>1, RunStepKeepsCount
    <2>2. CASE ((\E t \in Task : Manage(t)) \/ GuardStep \/ Tick) /\ UNCHANGED run
      <3>1. NoEarlyWorker'
        BY <2>2 DEF AttemptsCounted, NoEarlyWorker
      <3>2. ASSUME NEW t \in Task
            PROVE  /\ IsFiniteSet(WithWorker(t)')
                   /\ row'[t].attempts <= Cardinality(Launched(t)')
        <4>1. WithWorker(t)' = WithWorker(t) /\ Launched(t)' = Launched(t)
          BY <2>2 DEF WithWorker, Launched
        <4>2. row'[t].attempts \in {0, row[t].attempts}
          BY <2>0, <2>2, ManageCountsNone
        <4>3. Cardinality(Launched(t)) \in Nat
          <5>1. IsFiniteSet(Launched(t))
            BY FS_Subset DEF AttemptsCounted, Launched
          <5> QED
            BY <5>1, FS_CardinalityType
        <4> QED
          BY <4>1, <4>2, <4>3 DEF AttemptsCounted
      <3> QED
        BY <3>1, <3>2 DEF AttemptsCounted
    <2>3. CASE UNCHANGED dispatch
      BY <2>3 DEF dispatch, ledger, AttemptsCounted, NoEarlyWorker, WithWorker,
                    Launched
    <2> QED
      BY <2>1, <2>2, <2>3 DEF DispatchNext
  <1>3. AttemptsCounted /\ DispatchInv => OneAttemptPerLaunch
    <2> SUFFICES ASSUME AttemptsCounted, DispatchInv, NEW t \in Task
                 PROVE  row[t].attempts <= Cardinality(WithWorker(t))
      BY DEF OneAttemptPerLaunch, WithWorker
    <2> DEFINE W == WithWorker(t)
               L == Launched(t)
    <2>1. IsFiniteSet(W) /\ L \subseteq W /\ row[t].attempts <= Cardinality(L)
      BY DEF AttemptsCounted, Launched
    <2>2. row[t].attempts \in Int
      BY Ranges DEF DispatchInv, RowInv, LedgerTypeOK, Row
    <2> HIDE DEF W, L
    <2>3. IsFiniteSet(L) /\ Cardinality(L) <= Cardinality(W)
      BY <2>1, FS_Subset
    <2>4. Cardinality(L) \in Int /\ Cardinality(W) \in Int
      BY <2>1, <2>3, FS_CardinalityType
    <2>5. row[t].attempts <= Cardinality(W)
      BY <2>1, <2>2, <2>3, <2>4
    <2> QED
      BY <2>5 DEF W
  <1> QED
    BY <1>1, <1>2, <1>3, DispatchInvariant, PTL DEF DispatchSpec
================================================================================
