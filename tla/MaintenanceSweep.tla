-------------------------- MODULE MaintenanceSweep --------------------------
(***************************************************************************)
(* One maintenance round of the reconciler over the whole fleet            *)
(* (services/reconciler/src/index.ts, run.ts): a serial process that walks *)
(* its steps in a fixed order, each over the list its own index query      *)
(* returned, while users and the platform keep changing the records.  An   *)
(* operation on one workspace succeeds, finds that the record moved on, or *)
(* throws; the throw is isolated to that workspace.  WorkspaceService      *)
(* models each operation in its own steps; here an operation is one step   *)
(* and the subject is the order of the steps, what their lists contain,    *)
(* and what one failing workspace does to the others.  Pruning, the quota  *)
(* counters and the idle control plane come after the last step modelled   *)
(* here and have modules of their own.                                     *)
(***************************************************************************)
EXTENDS Naturals, FiniteSets, FiniteSetsExt

CONSTANTS
  NumFleet,        \* the fleet is 1..NumFleet, in the order the index returns it
  Poison,          \* workspaces whose operations always throw
  Budget,          \* convergeBudget: finish/recover actions of one round
  MaxFleetEvents,  \* bound on what users and the platform do
  MaxThrows        \* bound on transient throws and aborted sweeps

ASSUME SweepAssumption ==
  /\ NumFleet \in Nat /\ Budget \in Nat /\ MaxFleetEvents \in Nat /\ MaxThrows \in Nat
  /\ Poison \subseteq 1..NumFleet
  /\ Cardinality(Poison) < Budget

Fleet == 1..NumFleet
Kind == {"task", "volume", "secret", "snapshot", "copy"}
Resource == Fleet \X Kind

VARIABLES
  fleet,      \* fleet[w]: the record's state and whether it names a snapshot
  exists,     \* the resources the cloud holds; "copy": a snapshot no record names
  young,      \* resources created inside the grace window
  round,      \* the running round: its step, the workspaces left, its keep-sets
  fleetEvents, throws

sweepVars == <<fleet, exists, young, round, fleetEvents, throws>>

FleetState == {"running", "stopping", "deleting", "provisioning", "stopped", "error",
               "terminated", "gone"}
SweepStep == {"off", "provisioning", "drift", "storageDrift", "errors", "deletions",
              "stopping", "purge", "idle", "snapshots", "references", "tasks", "secrets",
              "volumes", "copies", "done"}

\* What a record names: a task, its volume and its secret while it is bound (a
\* record without a task keeps no secret), and a snapshot.
NamesOf(r, w) ==
  {w} \X ((IF r.bound THEN {"task", "volume", "secret"} ELSE {})
             \cup (IF r.snap THEN {"snapshot"} ELSE {}))
Named(fl) == UNION {NamesOf(fl[w], w) : w \in Fleet}

InState(S) == {w \in Fleet : fleet[w].state \in S}

SweepInit ==
  /\ fleet = [w \in Fleet |-> [state |-> "running", bound |-> TRUE, snap |-> FALSE]]
  /\ exists = Fleet \X {"task", "volume", "secret"}
  /\ young = {}
  /\ round = [at |-> "off", todo |-> {}, refs |-> {}, freed |-> {}]
  /\ fleetEvents = 0 /\ throws = 0

-----------------------------------------------------------------------------
\* Users and the platform.  What starts something counts towards MaxFleetEvents,
\* what follows from it or can happen to a task once does not.

Becomes(w, fl, ex, yo) ==
  /\ fleet' = [fleet EXCEPT ![w] = fl]
  /\ exists' = ex /\ young' = yo
  /\ UNCHANGED <<round, throws>>

Outside(w, fl, ex, yo) ==
  /\ fleetEvents < MaxFleetEvents /\ fleetEvents' = fleetEvents + 1
  /\ Becomes(w, fl, ex, yo)

Follows(w, fl, ex, yo) == Becomes(w, fl, ex, yo) /\ UNCHANGED fleetEvents

\* requestStop and cancelStop, deleteWorkspace, undelete: record-only changes.
UserActs(w) ==
  \/ /\ fleet[w].state = "running"
     /\ Outside(w, [fleet[w] EXCEPT !.state = "stopping"], exists, young)
  \/ /\ fleet[w].state = "stopping"
     /\ Follows(w, [fleet[w] EXCEPT !.state = "running"], exists, young)
  \/ /\ fleet[w].state \in {"running", "stopped", "error"}
     /\ Outside(w, [fleet[w] EXCEPT !.state = "deleting"], exists, young)
  \/ /\ fleet[w].state = "terminated" /\ fleet[w].snap
     /\ Follows(w, [fleet[w] EXCEPT !.state = "stopped"], exists, young)

\* A wake: the claim, the launch of its task, and the commit, which a crash of
\* the driving process may leave out.
WakeStep(w) ==
  \/ /\ fleet[w].state = "stopped" /\ fleet[w].snap
     /\ Outside(w, [fleet[w] EXCEPT !.state = "provisioning"], exists, young)
  \/ /\ fleet[w].state = "provisioning" /\ <<w, "task">> \notin exists
     /\ LET new == {w} \X {"task", "volume", "secret"}
        IN Follows(w, fleet[w], exists \cup new, young \cup new)
  \/ /\ fleet[w].state = "provisioning" /\ <<w, "task">> \in exists
     /\ Follows(w, [fleet[w] EXCEPT !.state = "running", !.bound = TRUE], exists, young)

\* A task dies and takes its managed volume along; a snapshot is deleted by hand.
PlatformActs(w) ==
  \/ /\ <<w, "task">> \in exists
     /\ Follows(w, fleet[w], exists \ ({w} \X {"task", "volume"}), young)
  \/ /\ <<w, "snapshot">> \in exists
     /\ Outside(w, fleet[w], exists \ {<<w, "snapshot">>}, young)

\* The grace window, far longer than a round, has passed for what exists.
GracePasses ==
  /\ round.at = "off" /\ young # {} /\ young' = {}
  /\ UNCHANGED <<fleet, exists, round, fleetEvents, throws>>

-----------------------------------------------------------------------------
\* What the provider reports: the resources of a kind it holds, of workspaces (an
\* answer that leaves one out throws, and the round is over), and whether a task
\* is gone (any other failure than MISSING throws).
Listed(k) == {w \in Fleet : <<w, k>> \in exists}
TaskGone(w) == <<w, "task">> \notin exists

\* What each operation of the round does to one workspace when it succeeds, or
\* finds that the record left the state the list saw (the record and the cloud
\* unchanged).  done is [rec, exists] after it.

Same(w) == [rec |-> fleet[w], exists |-> exists]
With(w, r, ex) == [rec |-> r, exists |-> ex]

\* A snapshot just taken becomes the record's; the one it replaces stays behind
\* as a copy that no record names.
Snapped(w) ==
  exists \cup {<<w, "snapshot">>}
    \cup (IF fleet[w].snap /\ <<w, "snapshot">> \in exists THEN {<<w, "copy">>} ELSE {})

Released(w, ex) == ex \ ({w} \X {"task", "volume"})

RecoverStuckProvisioning(w) ==
  IF fleet[w].state = "provisioning"
    THEN {With(w, [fleet[w] EXCEPT !.state = "stopped"], exists)} ELSE {Same(w)}

ReconcileTaskLoss(w) ==
  IF fleet[w].state = "running" /\ TaskGone(w)
    THEN {With(w, [fleet[w] EXCEPT !.bound = FALSE,
                     !.state = IF fleet[w].snap THEN "stopped" ELSE "error"], exists)}
    ELSE {Same(w)}

MarkSnapshotLostFor(w) ==
  IF fleet[w].state \in {"stopped", "error"}
    THEN {With(w, [state |-> "error", bound |-> FALSE, snap |-> FALSE], exists)} ELSE {Same(w)}

RecoverError(w) ==
  IF fleet[w].state = "error" /\ fleet[w].snap
    THEN {With(w, [fleet[w] EXCEPT !.state = "stopped"], exists)} ELSE {Same(w)}

\* A bound record needs a final snapshot of its volume, an unbound one has its
\* snapshot tagged: when that volume or snapshot has gone, the attempt fails and
\* the tombstone stays.  stopTask is best-effort: the task may stay.
CanFinish(w) ==
  /\ fleet[w].state = "deleting"
  /\ fleet[w].bound => <<w, "volume">> \in exists
  /\ ~fleet[w].bound /\ fleet[w].snap => <<w, "snapshot">> \in exists
FinishDeleting(w) ==
  IF ~CanFinish(w) THEN {Same(w)}
  ELSE IF fleet[w].bound
    THEN {With(w, [state |-> "terminated", bound |-> FALSE, snap |-> TRUE], ex) :
            ex \in {Snapped(w), Released(w, Snapped(w))}}
    ELSE {With(w, [fleet[w] EXCEPT !.state = "terminated"], exists)}

\* Here the snapshot is best-effort and stopTask is not.
FinishStop(w) ==
  IF fleet[w].state # "stopping" THEN {Same(w)}
  ELSE IF <<w, "volume">> \in exists
    THEN {With(w, [state |-> "stopped", bound |-> FALSE, snap |-> TRUE],
               Released(w, Snapped(w)))}
    ELSE {With(w, [fleet[w] EXCEPT !.state = "stopped", !.bound = FALSE],
               Released(w, exists))}

PurgeTombstoneRecord(w) ==
  IF fleet[w].state = "terminated"
    THEN {With(w, [state |-> "gone", bound |-> FALSE, snap |-> FALSE],
               exists \ {<<w, "snapshot">>})}
    ELSE {Same(w)}

\* The idle stop re-checks idleness, so it may skip; releasing is best-effort.
StopIdle(w) ==
  {Same(w)} \cup
  (IF fleet[w].state = "running" /\ <<w, "volume">> \in exists
     THEN {With(w, [state |-> "stopped", bound |-> FALSE, snap |-> TRUE], ex) :
             ex \in {Snapped(w), Released(w, Snapped(w))}}
     ELSE {})

TakeSnapshot(w) ==
  IF fleet[w].state = "running" /\ <<w, "volume">> \in exists
    THEN {With(w, [fleet[w] EXCEPT !.snap = TRUE], Snapped(w))} ELSE {Same(w)}

\* The reapers act on a resource, not on a record.
Reap(w, k) ==
  {With(w, fleet[w], IF k = "task" THEN Released(w, exists) ELSE exists \ {<<w, k>>})}

Outcomes(w) ==
  CASE round.at = "provisioning" -> RecoverStuckProvisioning(w)
    [] round.at = "drift"        -> ReconcileTaskLoss(w)
    [] round.at = "storageDrift" -> MarkSnapshotLostFor(w)
    [] round.at = "errors"       -> RecoverError(w)
    [] round.at = "deletions"    -> FinishDeleting(w)
    [] round.at = "stopping"     -> FinishStop(w)
    [] round.at = "purge"        -> PurgeTombstoneRecord(w)
    [] round.at = "idle"         -> StopIdle(w)
    [] round.at = "snapshots"    -> TakeSnapshot(w)
    [] round.at = "tasks"        -> Reap(w, "task")
    [] round.at = "secrets"      -> Reap(w, "secret")
    [] round.at = "volumes"      -> Reap(w, "volume")
    [] round.at = "copies"       -> Reap(w, "copy")

-----------------------------------------------------------------------------
\* The lists.  A step that the clock decides (idle, due, expired) may select any
\* of its candidates; the converging steps take the first Budget of theirs.

FirstOf(S) == {w \in S : Cardinality({v \in S : v < w}) < Budget}

\* selectOrphanTasks, -Secrets, -Volumes, -Snapshots: unreferenced and past the grace.
SelectOrphans(k) == {w \in Listed(k) : <<w, k>> \notin round.refs \cup young}

Lists(at) ==
  CASE at = "provisioning" -> {InState({"provisioning"})}
    [] at = "drift"        -> {InState({"running"})}
    [] at = "storageDrift" -> {{w \in InState({"stopped", "error"}) :
                                  fleet[w].snap /\ <<w, "snapshot">> \notin exists}}
    [] at = "errors"       -> {FirstOf({w \in InState({"error"}) : fleet[w].snap})}
    [] at = "deletions"    -> {FirstOf(InState({"deleting"}))}
    [] at = "stopping"     -> {FirstOf(InState({"stopping"}))}
    [] at = "purge"        -> SUBSET InState({"terminated"})
    [] at \in {"idle", "snapshots"} -> SUBSET InState({"running"})
    [] at = "tasks"        -> {SelectOrphans("task")}
    [] at = "secrets"      -> {SelectOrphans("secret")}
    [] at = "volumes"      -> {SelectOrphans("volume")}
    [] at = "copies"       -> {SelectOrphans("copy")}
    [] at \in {"references", "done", "off"} -> {{}}

\* The order of runMaintenance.
NextStep ==
  [off |-> "provisioning", provisioning |-> "drift", drift |-> "storageDrift",
   storageDrift |-> "errors", errors |-> "deletions", deletions |-> "stopping",
   stopping |-> "purge", purge |-> "idle", idle |-> "snapshots",
   snapshots |-> "references", references |-> "tasks", tasks |-> "secrets",
   secrets |-> "volumes", volumes |-> "copies", copies |-> "done", done |-> "off"]

\* Mutant: the keep-sets are read when the round begins.
ReferencesEarly(at) == IF at = "provisioning" THEN Named(fleet) ELSE round.refs
\* listFleetReferences, once, after the last step that changes a record.
ListFleetReferences(at) == IF at = "references" THEN Named(fleet) ELSE round.refs

\* The next step, or a new round on the schedule, reads its list.
EnterStep ==
  /\ round.todo = {}
  /\ LET at == NextStep[round.at]
     IN \E todo \in Lists(at) :
          round' = [round EXCEPT !.at = at, !.todo = todo,
                      !.refs = IF at = "off" THEN {} ELSE ListFleetReferences(at),
                      !.freed = IF at = "off" THEN {} ELSE @]
  /\ UNCHANGED <<fleet, exists, young, fleetEvents, throws>>

\* The operation on the first workspace of the list answers.
HandleOne ==
  /\ round.todo # {}
  /\ LET w == Min(round.todo)
     IN /\ w \notin Poison
        /\ \E out \in Outcomes(w) :
             LET fl == [fleet EXCEPT ![w] = out.rec]
             IN /\ fleet' = fl /\ exists' = out.exists
                /\ round' = [round EXCEPT !.todo = @ \ {w},
                               !.freed = @ \cup (Named(fleet) \ Named(fl))]
                /\ young' = (young \cap out.exists) \cup (out.exists \ exists)
  /\ UNCHANGED <<fleetEvents, throws>>

\* Mutant: the throw is not caught and ends the round.
AbortOn(w) == [round EXCEPT !.at = "off", !.todo = {}, !.refs = {}, !.freed = {}]
\* The throw is counted and the loop goes on; the tombstone purge has its try
\* around the whole loop, so there a throw drops the rest of the list.
IsolateThrow(w) == [round EXCEPT !.todo = IF round.at = "purge" THEN {} ELSE @ \ {w}]

\* The operation throws: always for a poisoned workspace, else transiently; a
\* snapshot it had already taken stays behind as a copy.
ThrowsForOne ==
  /\ round.todo # {}
  /\ LET w == Min(round.todo)
     IN /\ IF w \in Poison THEN UNCHANGED throws
           ELSE throws < MaxThrows /\ throws' = throws + 1
        /\ round' = IsolateThrow(w)
        /\ \/ UNCHANGED <<exists, young>>
           \/ /\ round.at \in {"stopping", "idle", "snapshots"} /\ <<w, "volume">> \in exists
              /\ exists' = exists \cup {<<w, "copy">>}
              /\ young' = young \cup {<<w, "copy">>}
  /\ UNCHANGED <<fleet, fleetEvents>>

\* A list query throws, or the process dies: the round is over.
SweepAborts ==
  /\ round.at \notin {"off", "done"}
  /\ throws < MaxThrows /\ throws' = throws + 1
  /\ round' = [at |-> "off", todo |-> {}, refs |-> {}, freed |-> {}]
  /\ UNCHANGED <<fleet, exists, young, fleetEvents>>

SweepNext ==
  \/ \E w \in Fleet : UserActs(w) \/ WakeStep(w) \/ PlatformActs(w)
  \/ GracePasses
  \/ EnterStep \/ HandleOne \/ ThrowsForOne \/ SweepAborts

\* The schedule starts sweeps for ever and a running round goes on.
SweepFairness ==
  WF_sweepVars(EnterStep \/ HandleOne \/ ThrowsForOne)

SweepSpec == SweepInit /\ [][SweepNext]_sweepVars /\ SweepFairness

-----------------------------------------------------------------------------
\* However often one workspace's operations throw, every other workspace that
\* is being stopped, or is stuck in a wake, gets out of it, and a deletion whose
\* data is still there completes (detectDrift's "one unlucky record can't
\* abort the whole convergence sweep", with the per-round budget).
OthersConverge ==
  \A w \in Fleet \ Poison :
    /\ []<>(fleet[w].state \notin {"stopping", "provisioning"})
    /\ []<>~CanFinish(w)

\* What a round itself let go of, and no record names again, is not left for the
\* next one unless it is too young or its delete threw: the keep-sets are read
\* after the steps that change records (runMaintenance's "a volume/task/record
\* freed this tick is reapable this tick").
FreedIsReaped ==
  round.at = "done" /\ throws = 0
    => \A r \in round.freed \ (young \cup Named(fleet)) :
         r[2] # "snapshot" /\ r[1] \notin Poison => r \notin exists
=============================================================================
