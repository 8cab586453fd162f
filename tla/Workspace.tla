----------------------------- MODULE Workspace -----------------------------
(***************************************************************************)
(* The functional core: the workspace record and the pure functions that   *)
(* compute the next record (packages/core/src/domain/workspace.ts and      *)
(* packages/core/src/lifecycle/workspace-state-machine.ts).                *)
(*                                                                         *)
(* A record keeps the fields that decide what an operation may do next.    *)
(* A managed volume lives and dies with its task and both fields are       *)
(* always set and cleared together, so `task' stands for taskId and        *)
(* volumeId.  Owner, image, editor, size, repository, host and report      *)
(* fields never guard a lifecycle step and are left out.                   *)
(***************************************************************************)
EXTENDS Naturals

CONSTANT
    MaxPlacementAttempts    \* MAX_PLACEMENT_ATTEMPTS: refused launches before the launch fails

ASSUME PlacementAssumption == MaxPlacementAttempts \in Nat \ {0}

WorkspaceStates ==
    {"provisioning", "running", "idle", "stopping", "stopped",
     "deleting", "terminated", "error"}

\* What find() returns null for: no row with this id (not created, or purged).
Absent == "absent"

\* Task and snapshot ids are numbered as they are created; 0 is an absent field.
None == 0

Records ==
    [state    : WorkspaceStates \cup {Absent},
     version  : Nat,        \* the optimistic-concurrency counter of the stored row
     task     : Nat,        \* taskId and volumeId
     snap     : Nat,        \* latestSnapshotId
     captured : BOOLEAN,    \* latestSnapshotAt >= deleteRequestedAt
     share    : BOOLEAN,    \* shareEnabled
     alwaysOn : BOOLEAN,
     waiting  : 0..MaxPlacementAttempts]   \* placementAttempts, 0 when not waiting

-----------------------------------------------------------------------------
(* The transition table.  Every event of the code has one target state. *)

Sources ==
    [provisioned   |-> {"provisioning"},
     idleTimeout   |-> {"running"},
     activity      |-> {"idle"},
     stop          |-> {"provisioning", "running", "idle", "stopping"},
     requestStop   |-> {"running", "idle"},
     cancelStop    |-> {"stopping"},
     wake          |-> {"stopped"},
     terminate     |-> WorkspaceStates \ {"terminated"},
     requestDelete |-> WorkspaceStates \ {"deleting", "terminated"},
     recover       |-> {"error"},
     undelete      |-> {"terminated"},
     retry         |-> {"error"},
     fail          |-> {"provisioning", "running", "idle", "stopping", "stopped"}]

Targets ==
    [provisioned   |-> "running",
     idleTimeout   |-> "idle",
     activity      |-> "running",
     stop          |-> "stopped",
     requestStop   |-> "stopping",
     cancelStop    |-> "running",
     wake          |-> "provisioning",
     terminate     |-> "terminated",
     requestDelete |-> "deleting",
     recover       |-> "stopped",
     undelete      |-> "stopped",
     retry         |-> "provisioning",
     fail          |-> "error"]

Can(ws, event) == ws.state \in Sources[event]

Live(ws) == ws.state \in {"running", "idle"}

-----------------------------------------------------------------------------
(* The mark* and record* functions.  Each is applied only where its guard   *)
(* (the `Can' of its event, or the predicate named Can<function>) holds.    *)

Reserve ==
    [state |-> "provisioning", version |-> 0, task |-> None, snap |-> None,
     captured |-> FALSE, share |-> FALSE, alwaysOn |-> FALSE, waiting |-> 0]

MarkStopping(ws) == [ws EXCEPT !.state = Targets.requestStop]

CancelStopping(ws) == [ws EXCEPT !.state = Targets.cancelStop]

\* Mutants: the stop keeps its binding, the stop forgets the snapshot it took.
MarkStoppedBound(ws, fresh) ==
    [ws EXCEPT !.state = Targets.stop, !.snap = IF fresh = None THEN @ ELSE fresh]
MarkStoppedStale(ws, fresh) ==
    [ws EXCEPT !.state = Targets.stop, !.task = None, !.share = FALSE, !.waiting = 0]

\* `fresh' is the snapshot just taken, or None: then the prior reference is carried over.
MarkStopped(ws, fresh) ==
    [ws EXCEPT !.state = Targets.stop,
               !.task = None,
               !.snap = IF fresh = None THEN @ ELSE fresh,
               !.share = FALSE,
               !.waiting = 0]

MarkTerminated(ws) ==
    [ws EXCEPT !.state = Targets.terminate, !.task = None, !.share = FALSE]

CanUndelete(ws) == ws.snap # None /\ Can(ws, "undelete")
UndeleteWorkspace(ws) ==
    [ws EXCEPT !.state = Targets.undelete, !.captured = FALSE]

CanSetShare(ws, enabled) == enabled => ws.state \in {"running", "idle", "provisioning"}
SetShare(ws, enabled) == [ws EXCEPT !.share = enabled]

MarkWaking(ws) == [ws EXCEPT !.state = Targets.wake]

MarkProvisioned(ws, task) ==
    [ws EXCEPT !.state = Targets.provisioned, !.task = task, !.waiting = 0]

\* Mutant: no placement budget.
CanDeferForever(ws) == ws.state = "provisioning" /\ ws.task = None

CanDeferPlacement(ws) ==
    /\ ws.state = "provisioning"
    /\ ws.task = None
    /\ ws.waiting < MaxPlacementAttempts
DeferPlacement(ws) == [ws EXCEPT !.waiting = @ + 1]

\* The wall-clock half of placementDue (placementRetryAt <= now) is left open:
\* a scheduled retry may come due at any moment after it was scheduled.
PlacementDue(ws) == ws.state = "provisioning" /\ ws.task = None /\ ws.waiting > 0

MarkProvisioningFailed(ws) == [ws EXCEPT !.state = Targets.fail, !.waiting = 0]

RetryProvisioning(ws) == [ws EXCEPT !.state = Targets.retry]

\* A snapshot recorded on a tombstone is newer than the delete request; on a
\* live record markDeleting resets the comparison, so it is kept FALSE there.
RecordSnapshot(ws, snapshot) ==
    [ws EXCEPT !.snap = snapshot, !.captured = (ws.state = "deleting")]

CanRestoreToSnapshot(ws) == ws.state = "stopped"
RestoreToSnapshot(ws, snapshot) == [ws EXCEPT !.snap = snapshot]

\* Mutant: only what can be restored is reconciled.
CanMarkRestorableTaskLost(ws) ==
    ws.state \in {"provisioning", "running", "idle"} /\ ws.task # None /\ ws.snap # None

CanMarkTaskLost(ws) == ws.state \in {"provisioning", "running", "idle"} /\ ws.task # None
MarkTaskLost(ws) ==
    [ws EXCEPT !.state = IF ws.snap = None THEN "error" ELSE "stopped", !.task = None]

CanMarkActivity(ws) == Live(ws)
MarkActivity(ws) == [ws EXCEPT !.state = IF @ = "idle" THEN Targets.activity ELSE @]

MarkDeleting(ws) ==
    [ws EXCEPT !.state = Targets.requestDelete, !.captured = FALSE, !.share = FALSE]

\* Mutant: a failed record that still has a binding is left alone.
CanMarkUnboundRecovered(ws) == ws.state = "error" /\ ws.snap # None /\ ws.task = None

CanMarkRecovered(ws) == ws.state = "error" /\ ws.snap # None
MarkRecovered(ws) == [ws EXCEPT !.state = Targets.recover, !.task = None]

\* Mutant: the stopped records are forgotten.
CanMarkErrorSnapshotLost(ws) == ws.state = "error" /\ ws.snap # None

CanMarkSnapshotLost(ws) == ws.state \in {"stopped", "error"} /\ ws.snap # None
MarkSnapshotLost(ws) == [ws EXCEPT !.state = "error", !.snap = None]

\* Mutant: any snapshot will do.
NeedsFirstSnapshot(ws) == ws.snap = None

\* finishDeleting must snapshot the live volume: there is no snapshot, or the
\* one there is predates the delete request.
NeedsFreshTeardownSnapshot(ws) == ws.snap = None \/ ~ws.captured
=============================================================================
