------------------------- MODULE MCWorkspaceService -------------------------
(* Which process runs which operation, for each question asked of the model. *)
EXTENDS WorkspaceService, TLC

CONSTANTS web, web2, reconciler

\* Sessions come and go: two web replicas serve requests, one of them converges
\* manual stops, the reconciler scales idle sessions to zero.
LifecycleDuty ==
    web :> {"reserveWorkspace", "start", "requestStop", "cancelStop", "heartbeat",
            "updateSettings"}
    @@ web2 :> {"start", "snapshot", "finishStop"}
    @@ reconciler :> {"stop"}

\* Workspaces are deleted, restored and purged while two sweeps converge the
\* tombstone and the reapers collect what is left over.
DeletionDuty ==
    web :> {"reserveWorkspace", "start", "remove", "undelete", "purge"}
    @@ web2 :> {"finishDeleting", "snapshot", "undelete"}
    @@ reconciler :> {"finishDeleting", "stop", "maintenance"}

\* Launches are refused and fail, tasks die, processes crash, and the reconciler
\* and the converge sweep put things right.
RecoveryDuty ==
    web :> {"reserveWorkspace", "start", "retry", "requestStop", "cancelStop"}
    @@ reconciler :> {"retryPlacement", "recoverStuckProvisioning", "recoverError",
                      "reconcileTaskLoss", "finishStop", "markSnapshotLostFor",
                      "maintenance"}

\* An owner takes, restores and shares while an admin deletes snapshots nobody
\* references.
StorageDuty ==
    web :> {"reserveWorkspace", "start", "snapshot", "requestStop", "restoreSnapshot",
            "setShare"}
    @@ web2 :> {"deleteSnapshotById"}
    @@ reconciler :> {"finishStop", "recoverError", "markSnapshotLostFor"}

\* A launch that lost fails the record after its session was snapshotted: the
\* owner retries, the reconciler recovers.
ErrorsDuty ==
    web :> {"reserveWorkspace", "retry", "retryPlacement"}
    @@ reconciler :> {"retryPlacement", "stop", "snapshot", "recoverError"}

\* Every replica converges manual stops, and so does the reconciler.
TwoFinishersDuty ==
    web :> {"reserveWorkspace", "requestStop", "finishStop"}
    @@ reconciler :> {"finishStop"}

=============================================================================
