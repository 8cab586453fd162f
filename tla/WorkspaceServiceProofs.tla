----------------------- MODULE WorkspaceServiceProofs -----------------------
(* Theorems about WorkspaceService for every set of workers and every budget. *)
EXTENDS WorkspaceService, WellFoundedInduction, TLAPS

-----------------------------------------------------------------------------
(* The functions of the core return records. *)

\* A record that waits for nothing is within the placement budget.
LEMMA NotWaiting == MaxPlacementAttempts \in Nat /\ 0 \in 0..MaxPlacementAttempts
BY PlacementAssumption

\* The record of a workspace that does not exist, and a reserved one, are records.
LEMMA FirstRecords == NoRecord \in Records /\ Reserve \in Records
BY NotWaiting DEF NoRecord, Reserve, Records, WorkspaceStates, Absent, None

\* Every mark* function maps a record to a record.
LEMMA MarkedRecords ==
    ASSUME NEW ws \in Records
    PROVE  /\ MarkStopping(ws) \in Records
           /\ CancelStopping(ws) \in Records
           /\ MarkTerminated(ws) \in Records
           /\ UndeleteWorkspace(ws) \in Records
           /\ MarkWaking(ws) \in Records
           /\ CanDeferPlacement(ws) => DeferPlacement(ws) \in Records
           /\ MarkProvisioningFailed(ws) \in Records
           /\ RetryProvisioning(ws) \in Records
           /\ MarkTaskLost(ws) \in Records
           /\ MarkActivity(ws) \in Records
           /\ MarkDeleting(ws) \in Records
           /\ MarkRecovered(ws) \in Records
           /\ MarkSnapshotLost(ws) \in Records
<1> USE NotWaiting DEF Records, WorkspaceStates, Targets, None
<1>1. MarkStopping(ws) \in Records
  BY DEF MarkStopping
<1>2. CancelStopping(ws) \in Records
  BY DEF CancelStopping
<1>3. MarkTerminated(ws) \in Records
  BY DEF MarkTerminated
<1>4. UndeleteWorkspace(ws) \in Records
  BY DEF UndeleteWorkspace
<1>5. MarkWaking(ws) \in Records
  BY DEF MarkWaking
<1>6. CanDeferPlacement(ws) => DeferPlacement(ws) \in Records
  BY DEF CanDeferPlacement, DeferPlacement
<1>7. MarkProvisioningFailed(ws) \in Records
  BY DEF MarkProvisioningFailed
<1>8. RetryProvisioning(ws) \in Records
  BY DEF RetryProvisioning
<1>9. MarkTaskLost(ws) \in Records
  BY DEF MarkTaskLost
<1>10. MarkActivity(ws) \in Records
  BY DEF MarkActivity
<1>11. MarkDeleting(ws) \in Records
  BY DEF MarkDeleting
<1>12. MarkRecovered(ws) \in Records
  BY DEF MarkRecovered
<1>13. MarkSnapshotLost(ws) \in Records
  BY DEF MarkSnapshotLost
<1> QED
  BY <1>1, <1>2, <1>3, <1>4, <1>5, <1>6, <1>7, <1>8, <1>9, <1>10, <1>11, <1>12, <1>13

\* So do the ones that take a snapshot, a task or a flag.
LEMMA MarkedWithId ==
    ASSUME NEW ws \in Records, NEW id \in Nat
    PROVE  /\ MarkStopped(ws, id) \in Records
           /\ MarkProvisioned(ws, id) \in Records
           /\ RecordSnapshot(ws, id) \in Records
           /\ RestoreToSnapshot(ws, id) \in Records
<1> USE NotWaiting DEF Records, WorkspaceStates, Targets, None
<1>1. MarkStopped(ws, id) \in Records
  BY DEF MarkStopped
<1>2. MarkProvisioned(ws, id) \in Records
  BY DEF MarkProvisioned
<1>3. RecordSnapshot(ws, id) \in Records
  BY DEF RecordSnapshot
<1>4. RestoreToSnapshot(ws, id) \in Records
  BY DEF RestoreToSnapshot
<1> QED
  BY <1>1, <1>2, <1>3, <1>4

\* Settings and sharing keep a record a record.
LEMMA MarkedWithFlag ==
    ASSUME NEW ws \in Records, NEW flag \in BOOLEAN
    PROVE  SetShare(ws, flag) \in Records /\ [ws EXCEPT !.alwaysOn = flag] \in Records
BY DEF Records, SetShare

-----------------------------------------------------------------------------
(* What the workers' local steps do to the type of wk. *)

Workers == [Worker -> WorkerStates]

\* An idle worker is a worker state.
LEMMA IdleWorker == Idle \in WorkerStates
BY FirstRecords DEF Idle, WorkerStates, Steps, Writes, None

\* A worker that becomes another worker state keeps the type of wk.
LEMMA BecomeType ==
    ASSUME wk \in Workers, NEW w \in Worker, NEW r \in WorkerStates, Become(w, r)
    PROVE  wk' \in Workers
BY DEF Become, Workers

\* An operation that ends leaves an idle worker.
LEMMA DoneType ==
    ASSUME wk \in Workers, NEW w \in Worker, Done(w)
    PROVE  wk' \in Workers
BY IdleWorker, BecomeType DEF Done

\* One that goes on at another step leaves a worker there.
LEMMA GotoType ==
    ASSUME wk \in Workers, NEW w \in Worker, NEW pc \in Steps, Goto(w, pc)
    PROVE  wk' \in Workers
BY DEF Goto, Workers, WorkerStates

\* One that goes on to write leaves a worker with a record to write.
LEMMA ProposeType ==
    ASSUME wk \in Workers, rec \in Records, NEW w \in Worker,
           NEW op \in Writes, NEW next \in Records, Propose(w, op, next)
    PROVE  wk' \in Workers
<1>1. "commit" \in Steps
  BY DEF Steps
<1> QED
  BY <1>1 DEF Propose, Become, Workers, WorkerStates

-----------------------------------------------------------------------------
(* TypeOK in parts, and what a step has to show of each. *)

CloudOK ==
    /\ live \subseteq 1..Len(hydrated)
    /\ hydrated \in Seq(Nat)
    /\ snaps \subseteq 1..Len(source)
    /\ source \in Seq(Nat)
    /\ retained \subseteq 1..Len(source)

BudgetOK == requests \in 0..MaxRequests /\ faults \in 0..MaxFaults

\* The parts make up TypeOK, now and after a step.
LEMMA TypeParts ==
    /\ TypeOK <=> rec \in Records /\ wk \in Workers /\ CloudOK /\ quiet \in BOOLEAN /\ BudgetOK
    /\ TypeOK' <=> rec' \in Records /\ wk' \in Workers /\ CloudOK' /\ quiet' \in BOOLEAN /\ BudgetOK'
BY DEF TypeOK, CloudOK, BudgetOK, Workers

\* The budgets after counting a request or a fault, or neither.
LEMMA BudgetType ==
    ASSUME BudgetOK,
           requests' = requests \/ (requests > 0 /\ requests' = requests - 1),
           faults' = faults \/ Fault
    PROVE  BudgetOK'
BY BudgetAssumption DEF BudgetOK, Fault

\* One more id: the old ids are still ids, and the new one is.
LEMMA OneMore ==
    ASSUME NEW n \in Nat, NEW S \in SUBSET (1..n)
    PROVE  S \subseteq 1..(n + 1) /\ S \cup {n + 1} \subseteq 1..(n + 1)
OBVIOUS

\* A cloud that is left alone keeps its type.
LEMMA CloudSame ==
    ASSUME CloudOK, UNCHANGED cloud
    PROVE  CloudOK'
BY DEF CloudOK, cloud

\* CreateSnapshot adds one id and one copy.
LEMMA SnapshotCreated ==
    ASSUME CloudOK, NEW t \in Nat, NEW b \in BOOLEAN, CreateSnapshot(t, b)
    PROVE  CloudOK' /\ Len(source) + 1 \in Nat
<1>1. source' \in Seq(Nat) /\ Len(source') = Len(source) + 1 /\ Len(source) \in Nat
  BY DEF CloudOK, CreateSnapshot
<1>2. snaps' \subseteq 1..Len(source') /\ retained' \subseteq 1..Len(source')
  BY <1>1, OneMore DEF CloudOK, CreateSnapshot
<1> QED
  BY <1>1, <1>2 DEF CloudOK, CreateSnapshot

\* StopTask removes a task at most.
LEMMA TaskStopped ==
    ASSUME CloudOK, NEW t, StopTask(t)
    PROVE  CloudOK'
BY DEF CloudOK, StopTask

\* DeleteSnapshot removes a snapshot at most.
LEMMA SnapshotDeleted ==
    ASSUME CloudOK, NEW t, DeleteSnapshot(t)
    PROVE  CloudOK'
BY DEF CloudOK, DeleteSnapshot

\* RunTask adds one id and one live task.
LEMMA TaskRun ==
    ASSUME CloudOK, NEW t \in Nat, hydrated' = Append(hydrated, t),
           live' = live \cup {Len(hydrated) + 1}, UNCHANGED <<snaps, source, retained>>
    PROVE  CloudOK' /\ Len(hydrated) + 1 \in Nat
<1>1. hydrated' \in Seq(Nat) /\ Len(hydrated') = Len(hydrated) + 1 /\ Len(hydrated) \in Nat
  BY DEF CloudOK
<1>2. live' \subseteq 1..Len(hydrated')
  BY <1>1, OneMore DEF CloudOK
<1> QED
  BY <1>1, <1>2 DEF CloudOK

\* A request or sweep that only reads the record keeps the types if its worker does.
LEMMA ReadOnlyType ==
    ASSUME TypeOK, wk' \in Workers, ReadOnly,
           requests' = requests \/ (requests > 0 /\ requests' = requests - 1)
    PROVE  TypeOK'
BY TypeParts, BudgetType, CloudSame DEF ReadOnly

\* The same of a later step that only moves its worker.
LEMMA LocalType ==
    ASSUME TypeOK, wk' \in Workers, LocalOnly
    PROVE  TypeOK'
BY TypeParts, BudgetType, CloudSame DEF LocalOnly

-----------------------------------------------------------------------------
(* Each action keeps the types. *)

\* Client and agent calls.
LEMMA CallType ==
    ASSUME TypeOK, NEW w \in Worker, Call(w)
    PROVE  TypeOK'
<1>0. /\ rec \in Records /\ wk \in Workers /\ wk[w] \in WorkerStates
      /\ CloudOK /\ BudgetOK /\ quiet \in BOOLEAN
  BY TypeParts DEF Workers
<1> USE <1>0
<1>1. CASE ReserveWorkspace(w)
  <2>1. wk' \in Workers
    BY <1>1, GotoType DEF ReserveWorkspace, Steps
  <2> QED
    BY <1>1, <2>1, TypeParts, FirstRecords, BudgetType, CloudSame DEF ReserveWorkspace, Request
<1>2. CASE Start(w)
  <2>1. [Idle EXCEPT !.pc = "commit", !.op = "wake", !.wake = TRUE,
                     !.seen = rec, !.next = MarkWaking(rec)] \in WorkerStates
    BY IdleWorker, MarkedRecords DEF WorkerStates, Steps, Writes
  <2>2. wk' \in Workers
    BY <1>2, <2>1, BecomeType DEF Start, ProposeWake
  <2> QED
    BY <1>2, <2>2, ReadOnlyType DEF Start, Request
<1>3. CASE Retry(w)
  <2>1. wk' \in Workers
    BY <1>3, MarkedRecords, ProposeType DEF Retry, Writes
  <2> QED
    BY <1>3, <2>1, ReadOnlyType DEF Retry, Request
<1>4. CASE Heartbeat(w)
  <2>1. wk' \in Workers
    BY <1>4, MarkedRecords, ProposeType DEF Heartbeat, ProposeBeat, Writes
  <2> QED
    BY <1>4, <2>1, ReadOnlyType DEF Heartbeat, Request
<1>5. CASE UpdateSettings(w)
  <2>1. wk' \in Workers
    BY <1>5, MarkedWithFlag, ProposeType DEF UpdateSettings, Writes
  <2> QED
    BY <1>5, <2>1, ReadOnlyType DEF UpdateSettings, Request
<1>6. CASE ShareSession(w)
  <2>1. wk' \in Workers
    BY <1>6, MarkedWithFlag, ProposeType DEF ShareSession, Writes
  <2> QED
    BY <1>6, <2>1, ReadOnlyType DEF ShareSession, Request
<1>7. CASE Snapshot(w)
  <2>1. [Idle EXCEPT !.pc = "snapshotting", !.seen = rec] \in WorkerStates
    BY IdleWorker DEF WorkerStates, Steps
  <2>2. wk' \in Workers
    BY <1>7, <2>1, BecomeType DEF Snapshot
  <2> QED
    BY <1>7, <2>2, ReadOnlyType DEF Snapshot, Request
<1>8. CASE RestoreSnapshot(w)
  <2>1. PICK s \in snaps : Propose(w, "restore", RestoreToSnapshot(rec, s))
    BY <1>8 DEF RestoreSnapshot
  <2>2. s \in Nat
    BY DEF CloudOK
  <2>3. wk' \in Workers
    BY <2>1, <2>2, MarkedWithId, ProposeType DEF Writes
  <2> QED
    BY <1>8, <2>3, ReadOnlyType DEF RestoreSnapshot, Request
<1>9. CASE RequestStop(w)
  <2>1. wk' \in Workers
    BY <1>9, MarkedRecords, ProposeType DEF RequestStop, Writes
  <2> QED
    BY <1>9, <2>1, ReadOnlyType DEF RequestStop, Request
<1>10. CASE CancelStop(w)
  <2>1. wk' \in Workers
    BY <1>10, MarkedRecords, ProposeType DEF CancelStop, Writes
  <2> QED
    BY <1>10, <2>1, ReadOnlyType DEF CancelStop, Request
<1>11. CASE Remove(w)
  <2>1. wk' \in Workers
    BY <1>11, MarkedRecords, ProposeType DEF Remove, Writes
  <2> QED
    BY <1>11, <2>1, ReadOnlyType DEF Remove, Request
<1>12. CASE Undelete(w)
  <2>1. wk' \in Workers
    BY <1>12, MarkedRecords, ProposeType DEF Undelete, Writes
  <2> QED
    BY <1>12, <2>1, ReadOnlyType DEF Undelete, Request
<1>13. CASE Purge(w)
  <2>1. [Idle EXCEPT !.pc = "purging", !.seen = rec] \in WorkerStates
    BY IdleWorker DEF WorkerStates, Steps
  <2>2. wk' \in Workers
    BY <1>13, <2>1, BecomeType DEF Purge
  <2> QED
    BY <1>13, <2>2, ReadOnlyType DEF Purge, Request
<1>14. CASE DeleteSnapshotById(w)
  <2>1. PICK s \in snaps : Become(w, [Idle EXCEPT !.pc = "adminDelete", !.snap = s])
    BY <1>14 DEF DeleteSnapshotById
  <2>2. s \in Nat
    BY DEF CloudOK
  <2>3. [Idle EXCEPT !.pc = "adminDelete", !.snap = s] \in WorkerStates
    BY <2>2, IdleWorker DEF WorkerStates, Steps
  <2>4. wk' \in Workers
    BY <2>1, <2>3, BecomeType
  <2> QED
    BY <1>14, <2>4, ReadOnlyType DEF DeleteSnapshotById, Request
<1> QED
  BY <1>1, <1>2, <1>3, <1>4, <1>5, <1>6, <1>7, <1>8, <1>9, <1>10, <1>11, <1>12,
     <1>13, <1>14 DEF Call

\* What a pair outside the less-than relation says of its members.
LEMMA NotLess ==
    ASSUME NEW R, R = {p \in Nat \X Nat : p[1] < p[2]},
           NEW x \in Nat, NEW y \in Nat, ~(<<x, y>> \in R)
    PROVE  y <= x
OBVIOUS

\* The grace threshold of the reapers exists, and is below every unrecorded id: the
\* least of them bounds it.
LEMMA GraceType ==
    ASSUME NEW newest \in Nat, NEW S \in SUBSET (Nat \ {0})
    PROVE  /\ OutOfGrace(newest, S) \in 0..newest
           /\ \A id \in S : OutOfGrace(newest, S) < id
<1> DEFINE T == S \cup {newest + 1}
           R == OpToRel(<, Nat)
<1>1. T \subseteq Nat /\ T # {}
  OBVIOUS
<1>2. R = {p \in Nat \X Nat : p[1] < p[2]}
  BY Zenon DEF OpToRel
<1>3. PICK m \in T : \A y \in T : ~(<<y, m>> \in R)
  BY <1>1, NatLessThanWellFounded, WFMin
<1>4. \A y \in T : m <= y
  BY <1>1, <1>2, <1>3, NotLess, Zenon
<1>5. /\ m - 1 \in 0..newest
      /\ \A id \in S : m - 1 < id
      /\ m - 1 < newest => (m - 1) + 1 \in S
  BY <1>1, <1>4
<1>6. \E n \in 0..newest : (\A id \in S : n < id) /\ (n < newest => n + 1 \in S)
  BY <1>5
<1> QED
  BY <1>6, Zenon DEF OutOfGrace

\* What has been created and not recorded has an id.
LEMMA UnrecordedType ==
    ASSUME wk \in Workers
    PROVE  /\ UnrecordedTasks \in SUBSET (Nat \ {0})
           /\ UnrecordedSnapshots \in SUBSET (Nat \ {0})
BY DEF Workers, WorkerStates, UnrecordedTasks, UnrecordedSnapshots, None

\* Sweeps that pick the record up.
LEMMA PassType ==
    ASSUME TypeOK, NEW w \in Worker, Pass(w)
    PROVE  TypeOK'
<1>0. /\ rec \in Records /\ wk \in Workers /\ wk[w] \in WorkerStates
      /\ CloudOK /\ BudgetOK /\ quiet \in BOOLEAN
  BY TypeParts DEF Workers
<1> USE <1>0
<1>1. CASE RetryPlacement(w)
  <2>1. [Idle EXCEPT !.pc = "launch", !.wake = TRUE, !.seen = rec] \in WorkerStates
    BY IdleWorker DEF WorkerStates, Steps
  <2>2. wk' \in Workers
    BY <1>1, <2>1, BecomeType, GotoType DEF RetryPlacement, Steps
  <2> QED
    BY <1>1, <2>2, ReadOnlyType DEF RetryPlacement, Sweep
<1>2. CASE FinishStop(w)
  <2>1. [Idle EXCEPT !.pc = "finalSnapshot", !.seen = rec] \in WorkerStates
    BY IdleWorker DEF WorkerStates, Steps
  <2>2. wk' \in Workers
    BY <1>2, <2>1, BecomeType DEF FinishStop
  <2> QED
    BY <1>2, <2>2, ReadOnlyType DEF FinishStop, Sweep
<1>3. CASE ReconcileTaskLoss(w)
  <2>1. wk' \in Workers
    BY <1>3, MarkedRecords, ProposeType DEF ReconcileTaskLoss, Writes
  <2> QED
    BY <1>3, <2>1, ReadOnlyType DEF ReconcileTaskLoss, Sweep
<1>4. CASE ListStuckProvisioning(w)
  <2>1. wk' \in Workers
    BY <1>4, GotoType DEF ListStuckProvisioning, Steps
  <2> QED
    BY <1>4, <2>1, ReadOnlyType DEF ListStuckProvisioning, Sweep
<1>5. CASE RecoverError(w)
  <2>1. wk' \in Workers
    BY <1>5, MarkedRecords, ProposeType DEF RecoverError, Writes
  <2> QED
    BY <1>5, <2>1, ReadOnlyType DEF RecoverError, Sweep
<1>6. CASE FinishDeleting(w)
  <2>1. RetainFirst(rec) \in Steps
    BY DEF RetainFirst, Steps
  <2>2. [Idle EXCEPT !.pc = RetainFirst(rec), !.seen = rec] \in WorkerStates
    BY <2>1, IdleWorker DEF WorkerStates
  <2>3. wk' \in Workers
    BY <1>6, <2>2, BecomeType DEF FinishDeleting
  <2> QED
    BY <1>6, <2>3, ReadOnlyType DEF FinishDeleting, Sweep
<1>7. CASE ListIdle(w)
  <2>1. wk' \in Workers
    BY <1>7, GotoType DEF ListIdle, Steps
  <2> QED
    BY <1>7, <2>1, ReadOnlyType DEF ListIdle, Sweep
<1>8. CASE ListSnapshotReference(w)
  <2>1. [Idle EXCEPT !.pc = "listedRef", !.seen = rec] \in WorkerStates
    BY IdleWorker DEF WorkerStates, Steps
  <2>2. wk' \in Workers
    BY <1>8, <2>1, BecomeType DEF ListSnapshotReference
  <2> QED
    BY <1>8, <2>2, ReadOnlyType DEF ListSnapshotReference, Sweep
<1>9. CASE ListFleetReferences(w)
  <2>1. Len(hydrated) \in Nat /\ Len(source) \in Nat
    BY DEF CloudOK
  <2>2. /\ OutOfGrace(Len(hydrated), UnrecordedTasks) \in Nat
        /\ OutOfGrace(Len(source), UnrecordedSnapshots) \in Nat
    BY <2>1, UnrecordedType, GraceType
  <2>3. [Idle EXCEPT !.pc = "reap", !.seen = rec,
            !.task = OutOfGrace(Len(hydrated), UnrecordedTasks),
            !.snap = OutOfGrace(Len(source), UnrecordedSnapshots)] \in WorkerStates
    BY <2>2, IdleWorker DEF WorkerStates, Steps
  <2>4. wk' \in Workers
    BY <1>9, <2>3, BecomeType DEF ListFleetReferences
  <2> QED
    BY <1>9, <2>4, ReadOnlyType DEF ListFleetReferences, Sweep
<1> QED
  BY <1>1, <1>2, <1>3, <1>4, <1>5, <1>6, <1>7, <1>8, <1>9 DEF Pass, Converge

\* A step that moves its worker and calls ECS or EBS.
LEMMA CloudType ==
    ASSUME TypeOK, wk' \in Workers, CloudOK', UNCHANGED <<rec, quiet, requests>>,
           faults' = faults \/ Fault
    PROVE  TypeOK'
BY TypeParts, BudgetType

\* The ids a worker holds.
LEMMA WorkerFields ==
    ASSUME NEW r \in WorkerStates
    PROVE  /\ r.snap \in Nat /\ r.task \in Nat /\ r.seen \in Records
           /\ r.seen.task \in Nat /\ r.seen.snap \in Nat
BY DEF WorkerStates, Records

\* The id of the next snapshot and of the next task.
LEMMA NextId ==
    ASSUME CloudOK
    PROVE  Len(source) + 1 \in Nat /\ Len(hydrated) + 1 \in Nat
BY DEF CloudOK

\* A worker after a conflict that it retries.
LEMMA RetriedType ==
    ASSUME NEW r \in WorkerStates, NEW pc \in Steps
    PROVE  [r EXCEPT !.pc = pc, !.tries = 1, !.next = NoRecord] \in WorkerStates
<1>1. 1 \in 0..1 /\ NoRecord \in Records
  BY FirstRecords
<1> QED
  BY <1>1, Zenon DEF WorkerStates

\* A StopTask that succeeds or fails.
LEMMA StopOrFault ==
    ASSUME CloudOK, NEW t,
           (StopTask(t) /\ UNCHANGED faults) \/ (Fault /\ UNCHANGED cloud)
    PROVE  CloudOK' /\ (faults' = faults \/ Fault)
BY TaskStopped, CloudSame

\* The version-conditioned write, won and lost.
LEMMA CommitType ==
    ASSUME TypeOK, NEW w \in Worker, Commit(w) \/ Conflict(w)
    PROVE  TypeOK'
<1>0. /\ rec \in Records /\ wk \in Workers /\ wk[w] \in WorkerStates
      /\ CloudOK /\ BudgetOK /\ quiet \in BOOLEAN
  BY TypeParts DEF Workers
<1> USE <1>0
<1>1. CASE Commit(w)
  <2>1. Written(w) \in Records
    BY DEF Written, WorkerStates, Records
  <2>2. quiet' \in BOOLEAN
    BY <1>1 DEF Commit, QuietAfter
  <2>3. AfterWrite(wk[w].op) \in Steps
    BY DEF AfterWrite, Steps
  <2>4. [wk[w] EXCEPT
            !.pc = AfterWrite(wk[w].op), !.op = "none",
            !.seen = IF wk[w].op \in {"wake", "stop"} THEN @ ELSE Written(w),
            !.next = NoRecord] \in WorkerStates
    BY <2>1, <2>3, FirstRecords DEF WorkerStates, Writes
  <2>5. wk' \in Workers
    BY <1>1, <2>4, BecomeType, DoneType DEF Commit
  <2> QED
    BY <1>1, <2>1, <2>2, <2>5, TypeParts, CloudSame, BudgetType DEF Commit
<1>2. CASE Conflict(w)
  <2>1. AfterConflict(wk[w].op, wk[w].tries) \in Steps
    BY DEF AfterConflict, Steps
  <2>2. [wk[w] EXCEPT !.pc = AfterConflict(wk[w].op, wk[w].tries),
                      !.tries = 1, !.next = NoRecord] \in WorkerStates
    BY <2>1, RetriedType
  <2>3. wk' \in Workers
    BY <1>2, <2>2, BecomeType, DoneType DEF Conflict
  <2> QED
    BY <1>2, <2>3, LocalType DEF Conflict
<1> QED
  BY <1>1, <1>2

\* The steps of a launch.
Launch(w) ==
    \/ LaunchReserved(w) \/ StartAfterRecover(w) \/ RunTask(w) \/ RunTaskRefused(w)
    \/ RunTaskFailed(w) \/ BindTask(w) \/ Compensate(w) \/ WaitForCapacity(w)
    \/ LaunchFailed(w)

\* They keep the types.
LEMMA LaunchType ==
    ASSUME TypeOK, NEW w \in Worker, Launch(w)
    PROVE  TypeOK'
<1>0. /\ rec \in Records /\ wk \in Workers /\ wk[w] \in WorkerStates
      /\ CloudOK /\ BudgetOK /\ quiet \in BOOLEAN
  BY TypeParts DEF Workers
<1> USE <1>0
<1>00. wk[w].task \in Nat /\ wk[w].seen.snap \in Nat /\ None \in Nat
  BY DEF WorkerStates, Records, None
<1>1. CASE LaunchReserved(w)
  <2>1. [Idle EXCEPT !.pc = "launch", !.seen = rec] \in WorkerStates
    BY IdleWorker DEF WorkerStates, Steps
  <2>2. wk' \in Workers
    BY <1>1, <2>1, BecomeType, DoneType DEF LaunchReserved
  <2> QED
    BY <1>1, <2>2, LocalType DEF LaunchReserved
<1>2. CASE StartAfterRecover(w)
  <2>1. [Idle EXCEPT !.pc = "commit", !.op = "wake", !.wake = TRUE,
                     !.seen = rec, !.next = MarkWaking(rec)] \in WorkerStates
    BY IdleWorker, MarkedRecords DEF WorkerStates, Steps, Writes
  <2>2. wk' \in Workers
    BY <1>2, <2>1, BecomeType, DoneType DEF StartAfterRecover, ProposeWake
  <2> QED
    BY <1>2, <2>2, LocalType DEF StartAfterRecover
<1>3. CASE RunTask(w)
  <2>1. CloudOK' /\ Len(hydrated) + 1 \in Nat
    BY <1>3, <1>00, TaskRun DEF RunTask
  <2>2. [wk[w] EXCEPT !.pc = "launched", !.task = Len(hydrated) + 1] \in WorkerStates
    BY <2>1 DEF WorkerStates, Steps
  <2>3. wk' \in Workers
    BY <1>3, <2>2, BecomeType DEF RunTask
  <2> QED
    BY <1>3, <2>1, <2>3, CloudType DEF RunTask
<1>4. CASE RunTaskRefused(w)
  <2>1. wk' \in Workers
    BY <1>4, GotoType DEF RunTaskRefused, Steps
  <2> QED
    BY <1>4, <2>1, CloudType, CloudSame DEF RunTaskRefused
<1>5. CASE RunTaskFailed(w)
  <2>1. wk' \in Workers
    BY <1>5, GotoType DEF RunTaskFailed, Steps
  <2>2. CloudOK'
    BY <1>5, <1>00, TaskRun, CloudSame DEF RunTaskFailed
  <2> QED
    BY <1>5, <2>1, <2>2, CloudType DEF RunTaskFailed
<1>6. CASE BindTask(w)
  <2>1. wk' \in Workers
    BY <1>6, <1>00, MarkedWithId, ProposeType, GotoType DEF BindTask, Writes, Steps
  <2> QED
    BY <1>6, <2>1, LocalType DEF BindTask
<1>7. CASE Compensate(w)
  <2>1. wk' \in Workers
    BY <1>7, DoneType DEF Compensate
  <2> QED
    BY <1>7, <2>1, CloudType, StopOrFault DEF Compensate
<1>8. CASE WaitForCapacity(w)
  <2>1. [wk[w] EXCEPT !.pc = "launchFailed", !.wake = (rec.snap # None)] \in WorkerStates
    BY DEF WorkerStates, Steps
  <2>2. wk' \in Workers
    BY <1>8, <2>1, MarkedRecords, ProposeType, BecomeType, DoneType DEF WaitForCapacity, Writes
  <2> QED
    BY <1>8, <2>2, LocalType DEF WaitForCapacity
<1>9. CASE LaunchFailed(w)
  <2>1. wk' \in Workers
    BY <1>9, <1>00, MarkedRecords, MarkedWithId, ProposeType, DoneType DEF LaunchFailed, Writes
  <2> QED
    BY <1>9, <2>1, LocalType DEF LaunchFailed
<1> QED
  BY <1>1, <1>2, <1>3, <1>4, <1>5, <1>6, <1>7, <1>8, <1>9 DEF Launch

\* The steps of a report, a snapshot, a stop and the recovery sweeps.
StopOrRecover(w) ==
    \/ HeartbeatAgain(w) \/ TakeSnapshot(w) \/ RecordTaken(w) \/ Stop(w) \/ StopSnapshot(w)
    \/ ReleaseTask(w) \/ FinalSnapshot(w) \/ RecheckStopping(w) \/ KillStopping(w)
    \/ RecoverStuckProvisioning(w) \/ CompareSnapshots(w) \/ MarkSnapshotLostFor(w)

\* They keep the types.
LEMMA StopType ==
    ASSUME TypeOK, NEW w \in Worker, StopOrRecover(w)
    PROVE  TypeOK'
<1>0. /\ rec \in Records /\ wk \in Workers /\ wk[w] \in WorkerStates
      /\ CloudOK /\ BudgetOK /\ quiet \in BOOLEAN
  BY TypeParts DEF Workers
<1> USE <1>0
<1>00. /\ wk[w].snap \in Nat /\ wk[w].seen \in Records /\ wk[w].seen.task \in Nat
       /\ rec.task \in Nat /\ None \in Nat /\ Len(source) + 1 \in Nat
  BY WorkerFields, NextId DEF Records, None
<1>1. CASE HeartbeatAgain(w)
  <2>1. wk' \in Workers
    BY <1>1, MarkedRecords, ProposeType, DoneType DEF HeartbeatAgain, ProposeBeat, Writes
  <2> QED
    BY <1>1, <2>1, LocalType DEF HeartbeatAgain
<1>2. CASE TakeSnapshot(w)
  <2>1. [wk[w] EXCEPT !.pc = "recordSnapshot", !.snap = Len(source) + 1] \in WorkerStates
    BY <1>00 DEF WorkerStates, Steps
  <2>2. wk' \in Workers
    BY <1>2, <2>1, BecomeType, DoneType DEF TakeSnapshot
  <2>3. CloudOK'
    BY <1>2, <1>00, SnapshotCreated, CloudSame DEF TakeSnapshot
  <2> QED
    BY <1>2, <2>2, <2>3, CloudType DEF TakeSnapshot
<1>3. CASE RecordTaken(w)
  <2>1. wk' \in Workers
    BY <1>3, <1>00, MarkedWithId, ProposeType, DoneType DEF RecordTaken, Writes
  <2> QED
    BY <1>3, <2>1, LocalType DEF RecordTaken
<1>4. CASE Stop(w)
  <2>1. [Idle EXCEPT !.pc = "stopSnapshot", !.seen = rec, !.task = rec.task] \in WorkerStates
    BY <1>00, IdleWorker DEF WorkerStates, Steps
  <2>2. wk' \in Workers
    BY <1>4, <1>00, <2>1, MarkedWithId, ProposeType, BecomeType, DoneType DEF Stop, Writes
  <2> QED
    BY <1>4, <2>2, LocalType DEF Stop
<1>5. CASE StopSnapshot(w)
  <2>1. MarkStopped(wk[w].seen, Len(source) + 1) \in Records
    BY <1>00, MarkedWithId
  <2>2. [wk[w] EXCEPT !.pc = "commit", !.op = "stop", !.snap = Len(source) + 1,
            !.next = MarkStopped(wk[w].seen, Len(source) + 1)] \in WorkerStates
    BY <1>00, <2>1 DEF WorkerStates, Steps, Writes
  <2>3. wk' \in Workers
    BY <1>5, <2>2, BecomeType, DoneType DEF StopSnapshot
  <2>4. CloudOK'
    BY <1>5, <1>00, SnapshotCreated, CloudSame DEF StopSnapshot
  <2> QED
    BY <1>5, <2>3, <2>4, CloudType DEF StopSnapshot
<1>6. CASE ReleaseTask(w)
  <2>1. wk' \in Workers
    BY <1>6, DoneType DEF ReleaseTask
  <2> QED
    BY <1>6, <2>1, CloudType, StopOrFault DEF ReleaseTask
<1>7. CASE FinalSnapshot(w)
  <2>1. [wk[w] EXCEPT !.pc = "recheck", !.snap = Len(source) + 1] \in WorkerStates
    BY <1>00 DEF WorkerStates, Steps
  <2>2. wk' \in Workers
    BY <1>7, <2>1, BecomeType, GotoType DEF FinalSnapshot, Steps
  <2>3. CloudOK'
    BY <1>7, <1>00, SnapshotCreated, CloudSame DEF FinalSnapshot
  <2> QED
    BY <1>7, <2>2, <2>3, CloudType DEF FinalSnapshot
<1>8. CASE RecheckStopping(w)
  <2>1. [wk[w] EXCEPT !.pc = "kill", !.seen = rec, !.task = rec.task] \in WorkerStates
    BY <1>00 DEF WorkerStates, Steps
  <2>2. wk' \in Workers
    BY <1>8, <2>1, BecomeType, DoneType DEF RecheckStopping
  <2> QED
    BY <1>8, <2>2, LocalType DEF RecheckStopping
<1>9. CASE KillStopping(w)
  <2>1. MarkStopped(wk[w].seen, wk[w].snap) \in Records
    BY <1>00, MarkedWithId
  <2>2. [wk[w] EXCEPT !.pc = "commit", !.op = "finishStop",
            !.next = MarkStopped(wk[w].seen, wk[w].snap)] \in WorkerStates
    BY <2>1 DEF WorkerStates, Steps, Writes
  <2>3. wk' \in Workers
    BY <1>9, <2>2, BecomeType, DoneType DEF KillStopping
  <2>4. CloudOK' /\ (faults' = faults \/ Fault)
    BY <1>9, TaskStopped, CloudSame DEF KillStopping
  <2> QED
    BY <1>9, <2>3, <2>4, CloudType DEF KillStopping
<1>10. CASE RecoverStuckProvisioning(w)
  <2>1. wk' \in Workers
    BY <1>10, <1>00, MarkedRecords, MarkedWithId, ProposeType, DoneType
       DEF RecoverStuckProvisioning, Writes
  <2> QED
    BY <1>10, <2>1, LocalType DEF RecoverStuckProvisioning
<1>11. CASE CompareSnapshots(w)
  <2>1. wk' \in Workers
    BY <1>11, GotoType, DoneType DEF CompareSnapshots, Steps
  <2> QED
    BY <1>11, <2>1, LocalType DEF CompareSnapshots
<1>12. CASE MarkSnapshotLostFor(w)
  <2>1. wk' \in Workers
    BY <1>12, MarkedRecords, ProposeType, DoneType DEF MarkSnapshotLostFor, Writes
  <2> QED
    BY <1>12, <2>1, LocalType DEF MarkSnapshotLostFor
<1> QED
  BY <1>1, <1>2, <1>3, <1>4, <1>5, <1>6, <1>7, <1>8, <1>9, <1>10, <1>11, <1>12
     DEF StopOrRecover

\* The steps of a teardown, a purge and the collectors.
TeardownOrReap(w) ==
    \/ TeardownSnapshot(w) \/ TagRetained(w) \/ TeardownTask(w) \/ PurgeTombstoneRecord(w)
    \/ ReapSnapshot(w) \/ AdminDelete(w) \/ ReapOrphanTasks(w) \/ CollectGarbage(w)

\* They keep the types.
LEMMA TeardownType ==
    ASSUME TypeOK, NEW w \in Worker, TeardownOrReap(w)
    PROVE  TypeOK'
<1>0. /\ rec \in Records /\ wk \in Workers /\ wk[w] \in WorkerStates
      /\ CloudOK /\ BudgetOK /\ quiet \in BOOLEAN
  BY TypeParts DEF Workers
<1> USE <1>0
<1>00. /\ wk[w].snap \in Nat /\ wk[w].seen \in Records /\ wk[w].seen.task \in Nat
       /\ Len(source) + 1 \in Nat
  BY WorkerFields, NextId
<1>1. CASE TeardownSnapshot(w)
  <2>1. RecordSnapshot(wk[w].seen, Len(source) + 1) \in Records
    BY <1>00, MarkedWithId
  <2>2. [wk[w] EXCEPT !.pc = "commit", !.op = "recordTeardown", !.snap = Len(source) + 1,
            !.next = RecordSnapshot(wk[w].seen, Len(source) + 1)] \in WorkerStates
    BY <1>00, <2>1 DEF WorkerStates, Steps, Writes
  <2>3. wk' \in Workers
    BY <1>1, <2>2, BecomeType, DoneType DEF TeardownSnapshot
  <2>4. CloudOK'
    BY <1>1, <1>00, SnapshotCreated, CloudSame DEF TeardownSnapshot
  <2> QED
    BY <1>1, <2>3, <2>4, CloudType DEF TeardownSnapshot
<1>2. CASE TagRetained(w)
  <2>1. wk' \in Workers
    BY <1>2, GotoType, DoneType DEF TagRetained, Steps
  <2>2. CloudOK'
    BY <1>2 DEF TagRetained, CloudOK
  <2> QED
    BY <1>2, <2>1, <2>2, CloudType DEF TagRetained
<1>3. CASE TeardownTask(w)
  <2>1. MarkTerminated(wk[w].seen) \in Records
    BY <1>00, MarkedRecords
  <2>2. [wk[w] EXCEPT !.pc = "commit", !.op = "terminate",
                      !.next = MarkTerminated(wk[w].seen)] \in WorkerStates
    BY <2>1 DEF WorkerStates, Steps, Writes
  <2>3. wk' \in Workers
    BY <1>3, <2>2, BecomeType DEF TeardownTask
  <2> QED
    BY <1>3, <2>3, CloudType, StopOrFault DEF TeardownTask
<1>4. CASE PurgeTombstoneRecord(w)
  <2>1. [NoRecord EXCEPT !.version = rec.version + 1] \in Records
    BY FirstRecords DEF Records
  <2>2. wk' \in Workers
    BY <1>4, GotoType, DoneType DEF PurgeTombstoneRecord, RemoveThenReap, Steps
  <2>3. rec' \in Records /\ quiet' \in BOOLEAN /\ UNCHANGED cloud
    BY <1>4, <2>1 DEF PurgeTombstoneRecord, RemoveThenReap, cloud
  <2> QED
    BY <1>4, <2>2, <2>3, TypeParts, CloudSame, BudgetType DEF PurgeTombstoneRecord
<1>5. CASE ReapSnapshot(w)
  <2>1. wk' \in Workers /\ CloudOK'
    BY <1>5, DoneType, SnapshotDeleted DEF ReapSnapshot
  <2> QED
    BY <1>5, <2>1, CloudType DEF ReapSnapshot
<1>6. CASE AdminDelete(w)
  <2>1. wk' \in Workers /\ CloudOK'
    BY <1>6, DoneType, SnapshotDeleted DEF AdminDelete
  <2> QED
    BY <1>6, <2>1, CloudType DEF AdminDelete
<1>7. CASE ReapOrphanTasks(w)
  <2>1. wk' \in Workers
    BY <1>7, GotoType DEF ReapOrphanTasks, Steps
  <2>2. CloudOK'
    BY <1>7 DEF ReapOrphanTasks, CloudOK
  <2> QED
    BY <1>7, <2>1, <2>2, CloudType DEF ReapOrphanTasks
<1>8. CASE CollectGarbage(w)
  <2>1. wk' \in Workers
    BY <1>8, DoneType DEF CollectGarbage
  <2>2. CloudOK'
    BY <1>8 DEF CollectGarbage, CloudOK
  <2> QED
    BY <1>8, <2>1, <2>2, CloudType DEF CollectGarbage
<1> QED
  BY <1>1, <1>2, <1>3, <1>4, <1>5, <1>6, <1>7, <1>8 DEF TeardownOrReap

\* Every step keeps the types.
LEMMA TypeStep == TypeOK /\ [Next]_vars => TypeOK'
<1> SUFFICES ASSUME TypeOK, [Next]_vars
             PROVE  TypeOK'
  OBVIOUS
<1>1. ASSUME NEW w \in Worker, Proceed(w)
      PROVE  TypeOK'
  BY <1>1, CommitType, LaunchType, StopType, TeardownType
     DEF Proceed, Launch, StopOrRecover, TeardownOrReap
<1>2. ASSUME NEW w \in Worker, Crash(w)
      PROVE  TypeOK'
  <2>1. wk' \in Workers /\ CloudOK'
    BY <1>2, TypeParts, DoneType, CloudSame DEF Crash
  <2> QED
    BY <1>2, <2>1, CloudType DEF Crash
<1>3. CASE BecomeQuiet
  BY <1>3, TypeParts, CloudSame, BudgetType DEF BecomeQuiet
<1>4. CASE TaskDies
  <2>1. wk' \in Workers /\ CloudOK'
    BY <1>4, TypeParts, TaskStopped DEF TaskDies
  <2> QED
    BY <1>4, <2>1, CloudType DEF TaskDies
<1>5. CASE UNCHANGED vars
  BY <1>5, TypeParts, CloudSame, BudgetType DEF vars
<1> QED
  BY <1>1, <1>2, <1>3, <1>4, <1>5, CallType, PassType DEF Next

\* The initial state has the types.
LEMMA TypeInit == Init => TypeOK
<1> SUFFICES ASSUME Init
             PROVE  TypeOK
  OBVIOUS
<1>1. rec \in Records /\ wk \in Workers
  BY FirstRecords, IdleWorker DEF Init, Workers
<1>2. hydrated \in Seq(Nat) /\ source \in Seq(Nat)
  <2>1. <<>> \in Seq(Nat)
    OBVIOUS
  <2> QED
    BY <2>1 DEF Init
<1>3. live = {} /\ snaps = {} /\ retained = {} /\ quiet \in BOOLEAN
  BY DEF Init
<1>4. CloudOK
  BY <1>2, <1>3, Zenon DEF CloudOK
<1>5. BudgetOK
  BY BudgetAssumption DEF Init, BudgetOK
<1> QED
  BY <1>1, <1>3, <1>4, <1>5, TypeParts

\* Every variable keeps its type, whatever the workers, their duties and the
\* budgets: in particular no record ever exceeds MAX_PLACEMENT_ATTEMPTS refused
\* launches, although deferPlacement runs in every replica at once.
THEOREM TypeCorrect == Spec => []TypeOK
BY TypeInit, TypeStep, PTL DEF Spec
=============================================================================
