-------------------------- MODULE WorkspaceService --------------------------
(***************************************************************************)
(* The imperative shell around one workspace record                        *)
(* (packages/control-plane/src/workspace-service.ts), the web server's     *)
(* converge sweep and the reconciler that drive it, and the tasks, volumes *)
(* and snapshots it drives.                                                *)
(*                                                                         *)
(* Every operation is a small program of a worker (a web replica, a route  *)
(* handler, the reconciler): it reads the record, talks to ECS and EBS,    *)
(* and writes the record under the version it read.  Workers interleave at *)
(* every await; a worker may crash between any two steps.                  *)
(***************************************************************************)
EXTENDS Workspace, Sequences, FiniteSets

CONSTANTS
    Worker,         \* the processes that call the service
    Duty,           \* which operations each worker runs
    MaxRequests,    \* bound: client requests and agent reports in a behaviour
    MaxFaults       \* bound: crashes, refusals, failures and losses in a behaviour

Operations ==
    {"reserveWorkspace", "start", "retry", "retryPlacement", "heartbeat",
     "snapshot", "stop", "requestStop", "cancelStop", "finishStop",
     "restoreSnapshot", "reconcileTaskLoss", "recoverStuckProvisioning",
     "recoverError", "markSnapshotLostFor", "remove", "finishDeleting",
     "undelete", "purge", "updateSettings", "setShare", "deleteSnapshotById",
     "maintenance"}

ASSUME DutyAssumption == Duty \in [Worker -> SUBSET Operations]
ASSUME BudgetAssumption == MaxRequests \in Nat /\ MaxFaults \in Nat

VARIABLES
    rec,        \* the stored row
    wk,         \* each worker's program counter and local variables
    live,       \* tasks that are running; a task's managed volume exists with it
    hydrated,   \* hydrated[t]: the snapshot task t's volume was created from, or None
    snaps,      \* snapshots that exist, each tagged with this workspace
    source,     \* source[s]: the task whose volume snapshot s is a copy of
    retained,   \* snapshots carrying the retain tag
    quiet,      \* lastActivity is older than the window that applies to the state
    requests,   \* client requests left
    faults      \* faults left

cloud == <<live, hydrated, snaps, source, retained>>
vars == <<rec, wk, cloud, quiet, requests, faults>>

-----------------------------------------------------------------------------
(* Workers *)

\* The steps of the operations; "commit" is the version-conditioned write.
Steps ==
    {"idle", "commit", "reserved", "launch", "refused", "launchFailed",
     "launched", "compensate", "restart", "beat", "snapshotting",
     "recordSnapshot", "listedIdle", "stopSnapshot", "release", "finalSnapshot",
     "recheck", "kill", "listedStuck", "listedRef", "missingRef", "tearVolume",
     "tag", "tearTask", "purging", "reapSnapshot", "adminDelete", "reap", "collect"}

\* What a pending commit writes.
Writes ==
    {"none", "bind", "defer", "fail", "rollback", "wake", "retry", "recoverThenStart",
     "heartbeat", "report", "recordSnapshot", "stop", "requestStop", "cancelStop",
     "finishStop", "restore", "taskLost", "recover", "snapshotLost", "delete",
     "recordTeardown", "terminate", "undelete", "settings", "share"}

NoRecord == [Reserve EXCEPT !.state = Absent]

Idle ==
    [pc |-> "idle", op |-> "none", seen |-> NoRecord, next |-> NoRecord,
     wake |-> FALSE, task |-> None, snap |-> None, tries |-> 0]

WorkerStates ==
    [pc : Steps, op : Writes,
     seen  : Records,       \* the record as this operation last read it
     next  : Records,       \* the record it is about to write
     wake  : BOOLEAN,       \* launch from seen.snap (a wake) or blank (a create)
     task  : Nat,           \* the task it launched, or is about to stop
     snap  : Nat,           \* the snapshot it took, or is about to delete
     tries : 0..1]

At(w, pc) == wk[w].pc = pc
Become(w, r) == wk' = [wk EXCEPT ![w] = r]
Goto(w, pc) == wk' = [wk EXCEPT ![w].pc = pc]
Done(w) == Become(w, Idle)

\* A client or agent call, and a pass of a periodic sweep, beginning.
Request(w, operation) ==
    /\ At(w, "idle")
    /\ operation \in Duty[w]
    /\ requests > 0
    /\ requests' = requests - 1

Sweep(w, operation) ==
    /\ At(w, "idle")
    /\ operation \in Duty[w]
    /\ UNCHANGED requests

\* The operation goes on to write `next', computed from the record just read.
Propose(w, op, next) ==
    Become(w, [wk[w] EXCEPT !.pc = "commit", !.op = op, !.seen = rec, !.next = next])

Fault == faults > 0 /\ faults' = faults - 1

ReadOnly == UNCHANGED <<rec, quiet, cloud, faults>>
LocalOnly == UNCHANGED <<rec, quiet, cloud, requests, faults>>

-----------------------------------------------------------------------------
(* ECS and EBS, as the code uses them *)

\* CreateSnapshot: the copy is durable when the call returns.
CreateSnapshot(volume, retain) ==
    LET s == Len(source) + 1
    IN  /\ source' = Append(source, volume)
        /\ snaps' = snaps \cup {s}
        /\ retained' = IF retain THEN retained \cup {s} ELSE retained
        /\ UNCHANGED <<live, hydrated>>

VolumeGone(volume) == volume \notin live

\* StopTask: deleteOnTermination releases the managed volume with the task.
StopTask(task) ==
    /\ live' = live \ {task}
    /\ UNCHANGED <<hydrated, snaps, source, retained>>

DeleteSnapshot(s) ==
    /\ snaps' = snaps \ {s}
    /\ UNCHANGED <<live, hydrated, source, retained>>

-----------------------------------------------------------------------------
(* persistTransition: an update conditioned on the version that was read.   *)

Unchanged(w) == rec.state # Absent /\ rec.version = wk[w].seen.version

\* Mutant: the version condition is dropped.
UnconditionalWrite(w) == rec.state # Absent

WriteWins(w) == Unchanged(w)

\* The writes that stamp lastActivity.
RefreshesActivity ==
    Writes \ {"none", "requestStop", "report", "delete", "terminate", "settings", "share"}

\* A longer per-workspace idle window (idleStopMs) makes a quiet session recent again.
QuietAfter(op) ==
    CASE op \in RefreshesActivity -> {FALSE}
      [] op = "settings" /\ Live(rec) -> {quiet, FALSE}
      [] OTHER -> {quiet}

\* Where the operation goes on after its write, and after losing the race.
AfterWrite(op) ==
    CASE op = "wake" -> "launch"
      [] op = "retry" -> "reserved"
      [] op = "recoverThenStart" -> "restart"
      [] op = "stop" -> "release"
      [] op = "recordTeardown" -> "tearTask"
      [] OTHER -> "idle"

\* Mutant: stop() releases its task although its write lost.
ReleaseAnyway(op, tries) ==
    CASE op = "bind" -> "compensate"
      [] op = "stop" -> "release"
      [] op \in {"heartbeat", "report"} /\ tries = 0 -> "beat"
      [] op = "recordSnapshot" /\ tries = 0 -> "recordSnapshot"
      [] OTHER -> "idle"

AfterConflict(op, tries) ==
    CASE op = "bind" -> "compensate"
      [] op \in {"heartbeat", "report"} /\ tries = 0 -> "beat"
      [] op = "recordSnapshot" /\ tries = 0 -> "recordSnapshot"
      [] OTHER -> "idle"

Written(w) == [wk[w].next EXCEPT !.version = wk[w].seen.version + 1]

Commit(w) ==
    /\ At(w, "commit")
    /\ WriteWins(w)
    /\ rec' = Written(w)
    /\ quiet' \in QuietAfter(wk[w].op)
    /\ IF AfterWrite(wk[w].op) = "idle"
       THEN Done(w)
       ELSE Become(w, [wk[w] EXCEPT
                !.pc = AfterWrite(wk[w].op),
                !.op = "none",
                \* start and stop go on with the record they read, not the one they wrote
                !.seen = IF wk[w].op \in {"wake", "stop"} THEN @ ELSE Written(w),
                !.next = NoRecord])
    /\ UNCHANGED <<cloud, requests, faults>>

Conflict(w) ==
    /\ At(w, "commit")
    /\ ~WriteWins(w)
    /\ IF AfterConflict(wk[w].op, wk[w].tries) = "idle"
       THEN Done(w)
       ELSE Become(w, [wk[w] EXCEPT
                !.pc = AfterConflict(wk[w].op, wk[w].tries),
                !.tries = 1,
                !.next = NoRecord])
    /\ LocalOnly

-----------------------------------------------------------------------------
(* Create and launch *)

\* reserveWorkspace: the record is persisted before any compute exists; the
\* route then fires launchReserved.
ReserveWorkspace(w) ==
    /\ Request(w, "reserveWorkspace")
    /\ rec = NoRecord
    /\ rec' = Reserve
    /\ quiet' = FALSE
    /\ Goto(w, "reserved")
    /\ UNCHANGED <<cloud, faults>>

\* launchReserved reads: already launched or moved on is an idempotent success.
LaunchReserved(w) ==
    /\ At(w, "reserved")
    /\ IF rec.state = "provisioning" /\ rec.task = None
       THEN Become(w, [Idle EXCEPT !.pc = "launch", !.seen = rec])
       ELSE Done(w)
    /\ LocalOnly

\* start: claim the wake (stopped -> provisioning) before launching anything.
CanStart == Can(rec, "wake") /\ rec.snap # None

ProposeWake(w) ==
    Become(w, [Idle EXCEPT !.pc = "commit", !.op = "wake", !.wake = TRUE,
                           !.seen = rec, !.next = MarkWaking(rec)])

Start(w) ==
    /\ Request(w, "start")
    /\ CanStart
    /\ ProposeWake(w)
    /\ ReadOnly

\* retry: an error with a snapshot recovers and starts, one without relaunches.
Retry(w) ==
    /\ Request(w, "retry")
    /\ IF rec.snap # None
       THEN CanMarkRecovered(rec) /\ Propose(w, "recoverThenStart", MarkRecovered(rec))
       ELSE Can(rec, "retry") /\ Propose(w, "retry", RetryProvisioning(rec))
    /\ ReadOnly

StartAfterRecover(w) ==
    /\ At(w, "restart")
    /\ IF CanStart THEN ProposeWake(w) ELSE Done(w)
    /\ LocalOnly

\* retryPlacement: a create re-runs launchReserved (which reads again), a wake
\* re-runs its launch phase from the snapshot.
RetryPlacement(w) ==
    /\ Sweep(w, "retryPlacement")
    /\ PlacementDue(rec)
    /\ IF rec.snap = None
       THEN Goto(w, "reserved")
       ELSE Become(w, [Idle EXCEPT !.pc = "launch", !.wake = TRUE, !.seen = rec])
    /\ ReadOnly

\* runTask succeeds: a wake's volume is hydrated from the snapshot of the record
\* the launch began with; ECS cannot attach a snapshot that is gone.
RunTask(w) ==
    /\ At(w, "launch")
    /\ wk[w].wake => wk[w].seen.snap \in snaps
    /\ hydrated' = Append(hydrated, IF wk[w].wake THEN wk[w].seen.snap ELSE None)
    /\ live' = live \cup {Len(hydrated) + 1}
    /\ Become(w, [wk[w] EXCEPT !.pc = "launched", !.task = Len(hydrated) + 1])
    /\ UNCHANGED <<rec, quiet, snaps, source, retained, requests, faults>>

\* RunTask answers with a placement failure: no capacity right now.
RunTaskRefused(w) ==
    /\ At(w, "launch")
    /\ Fault
    /\ Goto(w, "refused")
    /\ UNCHANGED <<rec, quiet, cloud, requests>>

\* RunTask throws; a task that never became ready is stopped, or leaks.
RunTaskFailed(w) ==
    /\ At(w, "launch")
    /\ \/ Fault /\ UNCHANGED cloud
       \/ /\ Fault
          /\ hydrated' = Append(hydrated, IF wk[w].wake THEN wk[w].seen.snap ELSE None)
          /\ live' = live \cup {Len(hydrated) + 1}
          /\ UNCHANGED <<snaps, source, retained>>
       \/ /\ wk[w].wake /\ wk[w].seen.snap \notin snaps
          /\ UNCHANGED <<cloud, faults>>
    /\ Goto(w, "launchFailed")
    /\ UNCHANGED <<rec, quiet, requests>>

\* The task is bound to the record as it is now, whatever claim that is.
BindTask(w) ==
    /\ At(w, "launched")
    /\ IF Can(rec, "provisioned") /\ (wk[w].wake \/ rec.task = None)
       THEN Propose(w, "bind", MarkProvisioned(rec, wk[w].task))
       ELSE Goto(w, "compensate")
    /\ LocalOnly

\* The launch lost: stop the fresh task (a failed stop leaves it to the reaper).
Compensate(w) ==
    /\ At(w, "compensate")
    /\ \/ StopTask(wk[w].task) /\ UNCHANGED faults
       \/ Fault /\ UNCHANGED cloud
    /\ Done(w)
    /\ UNCHANGED <<rec, quiet, requests>>

\* waitForCapacity: schedule the next launch, or give up as any failed launch does.
WaitForCapacity(w) ==
    /\ At(w, "refused")
    /\ CASE rec.state = Absent -> Done(w)
         [] CanDeferPlacement(rec) -> Propose(w, "defer", DeferPlacement(rec))
         [] OTHER -> Become(w, [wk[w] EXCEPT !.pc = "launchFailed",
                                             !.wake = (rec.snap # None)])
    /\ LocalOnly

\* recordLaunchFailure for a create, rollbackWake for a wake.
LaunchFailed(w) ==
    /\ At(w, "launchFailed")
    /\ CASE wk[w].wake /\ rec.state = "provisioning" ->
               Propose(w, "rollback", MarkStopped(rec, None))
         [] ~wk[w].wake /\ Can(rec, "fail") ->
               Propose(w, "fail", MarkProvisioningFailed(rec))
         [] OTHER -> Done(w)
    /\ LocalOnly

-----------------------------------------------------------------------------
(* Reports, settings, snapshots *)

\* heartbeat: an active beat on a live workspace is activity; any other beat only
\* reports.  A lost write is retried once.
ProposeBeat(w, op) ==
    Propose(w, op, IF op = "heartbeat" THEN MarkActivity(rec) ELSE rec)

Heartbeat(w) ==
    /\ Request(w, "heartbeat")
    /\ \/ CanMarkActivity(rec) /\ ProposeBeat(w, "heartbeat")
       \/ (Live(rec) \/ rec.state = "provisioning") /\ ProposeBeat(w, "report")
    /\ ReadOnly

HeartbeatAgain(w) ==
    /\ At(w, "beat")
    /\ \/ /\ CanMarkActivity(rec)
          \* whether a beat first sent while provisioning was active is not kept
          /\ wk[w].op = "heartbeat" \/ wk[w].seen.state = "provisioning"
          /\ ProposeBeat(w, "heartbeat")
       \/ Live(rec) /\ wk[w].op = "report" /\ ProposeBeat(w, "report")
       \/ rec.state = "provisioning" /\ ProposeBeat(w, "report")
       \/ ~Live(rec) /\ rec.state # "provisioning" /\ Done(w)
    /\ LocalOnly

UpdateSettings(w) ==
    /\ Request(w, "updateSettings")
    /\ rec.state # Absent
    /\ \E on \in BOOLEAN : Propose(w, "settings", [rec EXCEPT !.alwaysOn = on])
    /\ ReadOnly

ShareSession(w) ==
    /\ Request(w, "setShare")
    /\ rec.state # Absent
    /\ \E enabled \in BOOLEAN :
          /\ CanSetShare(rec, enabled)
          /\ Propose(w, "share", SetShare(rec, enabled))
    /\ ReadOnly

\* snapshot: copy the live volume, then record the copy unless another snapshot
\* was recorded meanwhile or the session is no longer live.
Snapshot(w) ==
    /\ Request(w, "snapshot")
    /\ Live(rec) /\ rec.task # None
    /\ Become(w, [Idle EXCEPT !.pc = "snapshotting", !.seen = rec])
    /\ ReadOnly

TakeSnapshot(w) ==
    /\ At(w, "snapshotting")
    /\ IF VolumeGone(wk[w].seen.task)
       THEN Done(w) /\ UNCHANGED cloud
       ELSE /\ CreateSnapshot(wk[w].seen.task, FALSE)
            /\ Become(w, [wk[w] EXCEPT !.pc = "recordSnapshot", !.snap = Len(source) + 1])
    /\ UNCHANGED <<rec, quiet, requests, faults>>

RecordTaken(w) ==
    /\ At(w, "recordSnapshot")
    /\ IF Live(rec) /\ rec.snap = wk[w].seen.snap
       THEN Propose(w, "recordSnapshot", RecordSnapshot(rec, wk[w].snap))
       ELSE Done(w)
    /\ LocalOnly

\* restoreSnapshot: point a stopped record at one of the workspace's snapshots.
RestoreSnapshot(w) ==
    /\ Request(w, "restoreSnapshot")
    /\ CanRestoreToSnapshot(rec)
    /\ \E s \in snaps : Propose(w, "restore", RestoreToSnapshot(rec, s))
    /\ ReadOnly

-----------------------------------------------------------------------------
(* Scale to zero *)

\* The idle sweep (runOnce) lists a quiet workspace; stop() then reads it again.
ListIdle(w) ==
    /\ Sweep(w, "stop")
    /\ Live(rec) /\ quiet /\ ~rec.alwaysOn
    /\ Goto(w, "listedIdle")
    /\ ReadOnly

StillIdle == quiet /\ ~rec.alwaysOn

\* Mutant: stop() trusts the list.
NoRecencyGuard == TRUE

IdleGuard == StillIdle

Stop(w) ==
    /\ At(w, "listedIdle")
    /\ CASE ~(Can(rec, "stop") /\ IdleGuard) -> Done(w)
         [] Can(rec, "stop") /\ IdleGuard /\ rec.task # None ->
               Become(w, [Idle EXCEPT !.pc = "stopSnapshot", !.seen = rec, !.task = rec.task])
         [] OTHER -> Propose(w, "stop", MarkStopped(rec, None))
    /\ LocalOnly

\* snapshotBeforeStop: a volume that vanished means the race is lost.
StopSnapshot(w) ==
    /\ At(w, "stopSnapshot")
    /\ IF VolumeGone(wk[w].seen.task)
       THEN Done(w) /\ UNCHANGED cloud
       ELSE /\ CreateSnapshot(wk[w].seen.task, FALSE)
            /\ Become(w, [wk[w] EXCEPT
                  !.pc = "commit", !.op = "stop", !.snap = Len(source) + 1,
                  !.next = MarkStopped(wk[w].seen, Len(source) + 1)])
    /\ UNCHANGED <<rec, quiet, requests, faults>>

\* After its write, stop() releases the task; a failed stop is left to the reaper.
ReleaseTask(w) ==
    /\ At(w, "release")
    /\ \/ StopTask(wk[w].task) /\ UNCHANGED faults
       \/ Fault /\ UNCHANGED cloud
    /\ Done(w)
    /\ UNCHANGED <<rec, quiet, requests>>

RequestStop(w) ==
    /\ Request(w, "requestStop")
    /\ Can(rec, "requestStop")
    /\ Propose(w, "requestStop", MarkStopping(rec))
    /\ ReadOnly

CancelStop(w) ==
    /\ Request(w, "cancelStop")
    /\ Can(rec, "cancelStop")
    /\ Propose(w, "cancelStop", CancelStopping(rec))
    /\ ReadOnly

\* finishStop, from the 3 s converge sweep of every replica once the grace has
\* passed and from the reconciler at any time.
FinishStop(w) ==
    /\ Sweep(w, "finishStop")
    /\ rec.state = "stopping"
    /\ Become(w, [Idle EXCEPT !.pc = "finalSnapshot", !.seen = rec])
    /\ ReadOnly

\* Mutant: a volume that is gone ends the pass.
StrictFinalSnapshot(w) ==
    /\ At(w, "finalSnapshot")
    /\ IF VolumeGone(wk[w].seen.task)
       THEN Done(w) /\ UNCHANGED cloud
       ELSE /\ CreateSnapshot(wk[w].seen.task, FALSE)
            /\ Become(w, [wk[w] EXCEPT !.pc = "recheck", !.snap = Len(source) + 1])
    /\ UNCHANGED <<rec, quiet, requests, faults>>

\* The snapshot is best effort: a volume that is gone leaves none.
FinalSnapshot(w) ==
    /\ At(w, "finalSnapshot")
    /\ IF VolumeGone(wk[w].seen.task)
       THEN Goto(w, "recheck") /\ UNCHANGED cloud
       ELSE /\ CreateSnapshot(wk[w].seen.task, FALSE)
            /\ Become(w, [wk[w] EXCEPT !.pc = "recheck", !.snap = Len(source) + 1])
    /\ UNCHANGED <<rec, quiet, requests, faults>>

\* Read again: a cancel during the snapshot aborts before the task is killed.
RecheckStopping(w) ==
    /\ At(w, "recheck")
    /\ IF rec.state = "stopping"
       THEN Become(w, [wk[w] EXCEPT !.pc = "kill", !.seen = rec, !.task = rec.task])
       ELSE Done(w)
    /\ LocalOnly

\* The task is stopped before the write.  A stopTask that throws ends the pass.
KillStopping(w) ==
    /\ At(w, "kill")
    /\ \/ /\ StopTask(wk[w].task)
          /\ Become(w, [wk[w] EXCEPT !.pc = "commit", !.op = "finishStop",
                                     !.next = MarkStopped(wk[w].seen, wk[w].snap)])
          /\ UNCHANGED faults
       \/ Fault /\ Done(w) /\ UNCHANGED cloud
    /\ UNCHANGED <<rec, quiet, requests>>

-----------------------------------------------------------------------------
(* Recovery sweeps of the reconciler *)

\* detectDrift: the record claims a task the platform says is gone.
ReconcileTaskLoss(w) ==
    /\ Sweep(w, "reconcileTaskLoss")
    /\ Live(rec) /\ CanMarkTaskLost(rec)
    /\ rec.task \notin live
    /\ Propose(w, "taskLost", MarkTaskLost(rec))
    /\ ReadOnly

\* recoverProvisioning lists a record by age; the recovery reads it again and
\* checks only that it is still provisioning.
ListStuckProvisioning(w) ==
    /\ Sweep(w, "recoverStuckProvisioning")
    /\ rec.state = "provisioning" /\ quiet
    /\ Goto(w, "listedStuck")
    /\ ReadOnly

RecoverStuckProvisioning(w) ==
    /\ At(w, "listedStuck")
    /\ CASE rec.state # "provisioning" -> Done(w)
         [] rec.state = "provisioning" /\ rec.snap = None ->
               Propose(w, "fail", MarkProvisioningFailed(rec))
         [] OTHER -> Propose(w, "rollback", MarkStopped(rec, None))
    /\ LocalOnly

RecoverError(w) ==
    /\ Sweep(w, "recoverError")
    /\ CanMarkRecovered(rec)
    /\ Propose(w, "recover", MarkRecovered(rec))
    /\ ReadOnly

\* detectStorageDrift: list the references, then the snapshots that exist, then
\* mark whatever snapshot the record references by then as lost.
ListSnapshotReference(w) ==
    /\ Sweep(w, "markSnapshotLostFor")
    /\ CanMarkSnapshotLost(rec)
    /\ Become(w, [Idle EXCEPT !.pc = "listedRef", !.seen = rec])
    /\ ReadOnly

CompareSnapshots(w) ==
    /\ At(w, "listedRef")
    /\ IF wk[w].seen.snap \in snaps THEN Done(w) ELSE Goto(w, "missingRef")
    /\ LocalOnly

MarkSnapshotLostFor(w) ==
    /\ At(w, "missingRef")
    /\ IF CanMarkSnapshotLost(rec)
       THEN Propose(w, "snapshotLost", MarkSnapshotLost(rec))
       ELSE Done(w)
    /\ LocalOnly

-----------------------------------------------------------------------------
(* Delete, undelete, purge *)

Remove(w) ==
    /\ Request(w, "remove")
    /\ Can(rec, "requestDelete")
    /\ Propose(w, "delete", MarkDeleting(rec))
    /\ ReadOnly

\* finishDeleting: keep a retained snapshot of the freshest data, stop the task,
\* and leave the terminated tombstone.
RetainFirst(ws) ==
    CASE ws.task # None /\ NeedsFreshTeardownSnapshot(ws) -> "tearVolume"
      [] ~(ws.task # None /\ NeedsFreshTeardownSnapshot(ws)) /\ ws.snap # None -> "tag"
      [] OTHER -> "tearTask"

FinishDeleting(w) ==
    /\ Sweep(w, "finishDeleting")
    /\ rec.state = "deleting"
    /\ Become(w, [Idle EXCEPT !.pc = RetainFirst(rec), !.seen = rec])
    /\ ReadOnly

\* A failed snapshot leaves the tombstone for the next sweep.
TeardownSnapshot(w) ==
    /\ At(w, "tearVolume")
    /\ IF VolumeGone(wk[w].seen.task)
       THEN Done(w) /\ UNCHANGED cloud
       ELSE /\ CreateSnapshot(wk[w].seen.task, TRUE)
            /\ Become(w, [wk[w] EXCEPT
                  !.pc = "commit", !.op = "recordTeardown", !.snap = Len(source) + 1,
                  !.next = RecordSnapshot(wk[w].seen, Len(source) + 1)])
    /\ UNCHANGED <<rec, quiet, requests, faults>>

\* tagSnapshotRetained throws for a snapshot that is gone: the same early return.
TagRetained(w) ==
    /\ At(w, "tag")
    /\ IF wk[w].seen.snap \in snaps
       THEN Goto(w, "tearTask") /\ retained' = retained \cup {wk[w].seen.snap}
       ELSE Done(w) /\ UNCHANGED retained
    /\ UNCHANGED <<rec, quiet, live, hydrated, snaps, source, requests, faults>>

TeardownTask(w) ==
    /\ At(w, "tearTask")
    /\ \/ StopTask(wk[w].seen.task) /\ UNCHANGED faults
       \/ Fault /\ UNCHANGED cloud
    /\ Become(w, [wk[w] EXCEPT !.pc = "commit", !.op = "terminate",
                               !.next = MarkTerminated(wk[w].seen)])
    /\ UNCHANGED <<rec, quiet, requests>>

\* The retention clock is left open: undelete may be called at any time before
\* the purge, and the purge (owner-initiated or by retention) at any time.
Undelete(w) ==
    /\ Request(w, "undelete")
    /\ CanUndelete(rec)
    /\ Propose(w, "undelete", UndeleteWorkspace(rec))
    /\ ReadOnly

Purge(w) ==
    /\ Request(w, "purge")
    /\ rec.state = "terminated"
    /\ Become(w, [Idle EXCEPT !.pc = "purging", !.seen = rec])
    /\ ReadOnly

\* Mutant: the snapshot first, then the row.
ReapThenRemove(w) ==
    /\ snaps' = snaps \ {wk[w].seen.snap}
    /\ Done(w)
    /\ IF Unchanged(w)
       THEN rec' = [NoRecord EXCEPT !.version = rec.version + 1] /\ quiet' = FALSE
       ELSE UNCHANGED <<rec, quiet>>

\* The row is removed first, under its version; then its snapshot.  A removed row
\* keeps a version of its own here so that no pending write can match it.
RemoveThenReap(w) ==
    IF Unchanged(w)
    THEN /\ rec' = [NoRecord EXCEPT !.version = rec.version + 1]
         /\ quiet' = FALSE
         /\ Goto(w, "reapSnapshot")
         /\ UNCHANGED snaps
    ELSE Done(w) /\ UNCHANGED <<rec, quiet, snaps>>

PurgeTombstoneRecord(w) ==
    /\ At(w, "purging")
    /\ RemoveThenReap(w)
    /\ UNCHANGED <<live, hydrated, source, retained, requests, faults>>

ReapSnapshot(w) ==
    /\ At(w, "reapSnapshot")
    /\ DeleteSnapshot(wk[w].seen.snap)
    /\ Done(w)
    /\ UNCHANGED <<rec, quiet, requests, faults>>

-----------------------------------------------------------------------------
(* Garbage collection and the admin snapshot console *)

\* deleteSnapshotById, and each delete of purgeUnreferencedSnapshots: check that
\* no record references the snapshot, then delete it.
DeleteSnapshotById(w) ==
    /\ Request(w, "deleteSnapshotById")
    /\ \E s \in snaps \ {rec.snap} :
          Become(w, [Idle EXCEPT !.pc = "adminDelete", !.snap = s])
    /\ ReadOnly

AdminDelete(w) ==
    /\ At(w, "adminDelete")
    /\ DeleteSnapshot(wk[w].snap)
    /\ Done(w)
    /\ UNCHANGED <<rec, quiet, requests, faults>>

\* The reapers spare whatever is younger than a grace window of an hour, which
\* outlasts any operation: when a sweep begins, what some worker has created and
\* not yet recorded is within the grace, and so is everything created later.
UnrecordedTasks ==
    {wk[v].task : v \in {u \in Worker : At(u, "launched") \/ At(u, "compensate")
                                        \/ wk[u].op = "bind"}} \ {None}
UnrecordedSnapshots ==
    {wk[v].snap : v \in {u \in Worker : wk[u].pc \in
                                 {"recordSnapshot", "recheck", "kill", "commit"}}} \ {None}

\* Mutant: no grace window.
NoGrace(newest, unrecorded) == newest

\* The youngest id that is out of the grace window.
OutOfGrace(newest, unrecorded) ==
    CHOOSE n \in 0..newest :
        /\ \A id \in unrecorded : n < id
        /\ n < newest => n + 1 \in unrecorded

\* selectOrphanTasks and selectOrphanSnapshots, against the keep-set the sweep read.
OrphanTasks(w) == {t \in live : t # wk[w].seen.task /\ t <= wk[w].task}
OrphanSnapshots(w) == {s \in snaps \ retained : s # wk[w].seen.snap /\ s <= wk[w].snap}

\* One maintenance tick reads the keep-sets once, then reaps tasks, then storage.
ListFleetReferences(w) ==
    /\ Sweep(w, "maintenance")
    /\ Become(w, [Idle EXCEPT !.pc = "reap", !.seen = rec,
                     !.task = OutOfGrace(Len(hydrated), UnrecordedTasks),
                     !.snap = OutOfGrace(Len(source), UnrecordedSnapshots)])
    /\ ReadOnly

ReapOrphanTasks(w) ==
    /\ At(w, "reap")
    /\ live' = live \ OrphanTasks(w)
    /\ Goto(w, "collect")
    /\ UNCHANGED <<rec, quiet, hydrated, snaps, source, retained, requests, faults>>

CollectGarbage(w) ==
    /\ At(w, "collect")
    /\ snaps' = snaps \ OrphanSnapshots(w)
    /\ Done(w)
    /\ UNCHANGED <<rec, quiet, live, hydrated, source, retained, requests, faults>>

-----------------------------------------------------------------------------
(* The environment *)

\* lastActivity grows older than the window that applies (idle, stuck launch).
BecomeQuiet ==
    /\ rec.state \in {"provisioning", "running", "idle"}
    /\ ~quiet
    /\ quiet' = TRUE
    /\ UNCHANGED <<rec, wk, cloud, requests, faults>>

Crash(w) ==
    /\ ~At(w, "idle")
    /\ Fault
    /\ Done(w)
    /\ UNCHANGED <<rec, quiet, cloud, requests>>

\* Eviction, out-of-memory, manual stop: the task dies and releases its volume.
TaskDies ==
    /\ Fault
    /\ \E t \in live : StopTask(t)
    /\ UNCHANGED <<rec, wk, quiet, requests>>

-----------------------------------------------------------------------------
Init ==
    /\ rec = NoRecord
    /\ wk = [w \in Worker |-> Idle]
    /\ live = {}
    /\ hydrated = <<>>
    /\ snaps = {}
    /\ source = <<>>
    /\ retained = {}
    /\ quiet = FALSE
    /\ requests = MaxRequests
    /\ faults = MaxFaults

\* A client or agent calls the service.
Call(w) ==
    \/ ReserveWorkspace(w) \/ Start(w) \/ Retry(w) \/ Heartbeat(w)
    \/ UpdateSettings(w) \/ ShareSession(w) \/ Snapshot(w) \/ RestoreSnapshot(w)
    \/ RequestStop(w) \/ CancelStop(w) \/ Remove(w) \/ Undelete(w) \/ Purge(w)
    \/ DeleteSnapshotById(w)

\* A periodic pass picks the record up.
Converge(w) ==
    \/ RetryPlacement(w) \/ FinishStop(w) \/ ReconcileTaskLoss(w)
    \/ ListStuckProvisioning(w) \/ RecoverError(w) \/ FinishDeleting(w)

Pass(w) ==
    Converge(w) \/ ListIdle(w) \/ ListSnapshotReference(w) \/ ListFleetReferences(w)

\* An operation in progress takes its next step.
Proceed(w) ==
    \/ Commit(w) \/ Conflict(w)
    \/ LaunchReserved(w) \/ StartAfterRecover(w) \/ RunTask(w) \/ RunTaskRefused(w)
    \/ RunTaskFailed(w) \/ BindTask(w) \/ Compensate(w) \/ WaitForCapacity(w)
    \/ LaunchFailed(w) \/ HeartbeatAgain(w) \/ TakeSnapshot(w) \/ RecordTaken(w)
    \/ Stop(w) \/ StopSnapshot(w) \/ ReleaseTask(w) \/ FinalSnapshot(w)
    \/ RecheckStopping(w) \/ KillStopping(w) \/ RecoverStuckProvisioning(w)
    \/ CompareSnapshots(w) \/ MarkSnapshotLostFor(w) \/ TeardownSnapshot(w)
    \/ TagRetained(w) \/ TeardownTask(w) \/ PurgeTombstoneRecord(w)
    \/ ReapSnapshot(w) \/ AdminDelete(w) \/ ReapOrphanTasks(w) \/ CollectGarbage(w)

Next ==
    \/ \E w \in Worker : Call(w) \/ Pass(w) \/ Proceed(w) \/ Crash(w)
    \/ BecomeQuiet
    \/ TaskDies

Spec == Init /\ [][Next]_vars

\* A sweep runs again on every tick, and ticks go on while a process lives: each
\* pass that becomes possible again and again is taken (the convergence passes act
\* in different states, so one condition serves them).  A process that lives
\* finishes the operation it is in.  Clients owe nothing.
Fairness ==
    /\ \A w \in Worker :
          /\ WF_vars(Proceed(w))
          /\ SF_vars(Converge(w))
          /\ SF_vars(ListIdle(w))
          /\ SF_vars(ListSnapshotReference(w))
          /\ SF_vars(ListFleetReferences(w))
    /\ WF_vars(BecomeQuiet)

FairSpec == Spec /\ Fairness

-----------------------------------------------------------------------------
(* Safety *)

\* Every variable has its type; in particular the placement budget of a record
\* is never exceeded (deferPlacement gives up at MAX_PLACEMENT_ATTEMPTS).
TypeOK ==
    /\ rec \in Records
    /\ wk \in [Worker -> WorkerStates]
    /\ live \subseteq 1..Len(hydrated)
    /\ hydrated \in Seq(Nat)
    /\ snaps \subseteq 1..Len(source)
    /\ source \in Seq(Nat)
    /\ retained \subseteq 1..Len(source)
    /\ quiet \in BOOLEAN
    /\ requests \in 0..MaxRequests
    /\ faults \in 0..MaxFaults

\* A record advertises a task exactly while its state claims one: whichever
\* operations raced, a stopped or terminated record never keeps a binding and a
\* running or stopping one always has one (the mark* functions and the
\* version-conditioned write of persistTransition).
BindingOK ==
    /\ rec.state \in {"stopped", "terminated", Absent} => rec.task = None
    /\ rec.state \in {"running", "idle", "stopping"} => rec.task # None

\* A worker that is about to stop the task it launched (launchReserved and
\* launchClaimedWake compensating a lost race) or released (stop after its write)
\* never holds the task the record is bound to: no race between launches, stops
\* and heartbeats makes one of them kill a task that is serving the session.
KillsOnlyReleased ==
    \A w \in Worker :
        wk[w].pc \in {"compensate", "release"} /\ wk[w].task # None
            => wk[w].task # rec.task

\* When the write of an idle stop can still win, the session is idle at that very
\* moment: a heartbeat or an always-on switch that lands after the sweep listed
\* the workspace, or during its minutes-long snapshot, defeats the stop.
IdleStopJustified ==
    \A w \in Worker :
        At(w, "commit") /\ wk[w].op = "stop" /\ WriteWins(w)
            => quiet /\ ~rec.alwaysOn

\* The row implements SessionPromise: whatever record an operation computed its
\* write from, and whoever else wrote meanwhile, the stored state moves along one
\* edge of the owner's lifecycle at a time, saved work stays saved until its copy is
\* found gone or the row purged, and only saved work is woken, recovered or restored.
PhaseOf(ws) ==
    CASE ws.state = Absent -> "none"
      [] ws.state = "provisioning" -> "starting"
      [] Live(ws) -> "on"
      [] ws.state = "stopping" -> "saving"
      [] ws.state = "stopped" -> "off"
      [] ws.state = "error" -> "broken"
      [] ws.state = "deleting" -> "going"
      [] ws.state = "terminated" -> "bin"

Session == INSTANCE SessionPromise WITH phase <- PhaseOf(rec), saved <- (rec.snap # None)

PromiseKept == Session!Promise

\* Scaling a running session to zero keeps its work: the stopped record references
\* a copy of the very volume the session was running on, whatever was recorded,
\* woken or bound while the snapshot was taken (stop: snapshot, write, release).
IdleStopKeepsWork ==
    [][ Live(rec) /\ rec.task \in live /\ rec'.state = "stopped"
          => rec'.snap # None /\ source[rec'.snap] = rec.task ]_vars

\* The same of a manual stop, which finishStop is to converge however often and
\* from however many processes it is called ("idempotent + safe to call repeatedly").
ManualStopKeepsWork ==
    [][ rec.state = "stopping" /\ rec'.state = "stopped"
          => rec'.snap # None /\ source[rec'.snap] = rec.task ]_vars

\* The snapshot a record would be woken from exists: neither the collector nor a
\* purge deletes the copy a record still references (collectGarbage works from
\* references listed earlier, purgeTombstoneRecord races undelete), and what a deleted
\* workspace would be restored from is tagged against the collector before its row
\* becomes a tombstone.
SnapshotPresent ==
    rec.snap # None => /\ rec.snap \in snaps
                       /\ rec.state = "terminated" => rec.snap \in retained

\* Deleting a workspace with a volume keeps the work on it: the tombstone
\* references a copy of that very volume, across interrupted and concurrent
\* teardowns (finishDeleting and needsFreshTeardownSnapshot).
TeardownKeepsWork ==
    [][ rec.state = "deleting" /\ rec.task # None /\ rec'.state = "terminated"
          => rec'.snap # None /\ source[rec'.snap] = rec.task ]_vars

\* The task the record is bound to is never an orphan to a reaper, although the
\* reaper works from references it listed earlier.
ReaperSparesBound ==
    \A w \in Worker : At(w, "reap") => rec.task \notin OrphanTasks(w)

-----------------------------------------------------------------------------
(* Liveness, under Fairness *)

\* A launch ends: bound, failed, rolled back or recovered by the reconciler
\* whatever crashed or was refused.  And "a `stopping` workspace must ALWAYS be able
\* to converge": it does, unless canceled.
TransientResolves ==
    \A state \in {"provisioning", "stopping"} : []<>(rec.state # state)

\* Record and tasks come to agree: a record that claims a task which died is brought
\* back to the truth, and tasks no record references (the leak the compensations and
\* their failures leave to the orphan reaper) are stopped in the end.
Claims == Live(rec) /\ rec.task \notin live
Orphaned == live # {} /\ live # {rec.task}

DriftRepaired == []<>~Claims /\ []<>~Orphaned

\* A failed record that could be restored is made wake-able again: "self-recovery",
\* also when the failure was recorded on a session that had been bound meanwhile.
Restorable == rec.state = "error" /\ rec.snap # None

ErrorsRecover == []<>~Restorable

\* A stopped or failed record does not go on offering a snapshot that is gone.
Dangling == rec.state \in {"stopped", "error"} /\ rec.snap \notin snaps \cup {None}

StorageDriftRepaired == []<>~Dangling

=============================================================================
