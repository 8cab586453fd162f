----------------------- MODULE WorkspaceBindingProofs -----------------------
(***************************************************************************)
(* BindingOK and KillsOnlyReleased for every set of workers and budget.    *)
(*                                                                         *)
(* Neither is inductive.  What carries them is a statement about identity  *)
(* and versions: the task a worker has launched and not yet bound is known *)
(* to nobody else (FreshOK), a record read earlier either is out of date   *)
(* or names the task the row still names (SeenOK), and a pending write     *)
(* keeps, clears or binds a task of the writer's own (NextOK).             *)
(***************************************************************************)
EXTENDS WorkspaceServiceProofs

\* A worker that has launched a task and neither bound it nor stopped it yet.
Launching(r) ==
    \/ r.pc \in {"launched", "compensate"}
    \/ r.pc = "commit" /\ r.op = "bind"

\* A worker whose `task' names a task; the reapers keep an age threshold there.
Holds(r) == r.pc \notin {"reap", "collect"}

\* BindingOK of any record.
Bound(ws) ==
    /\ ws.state \in {"stopped", "terminated", Absent} => ws.task = None
    /\ ws.state \in {"running", "idle", "stopping"} => ws.task # None

\* A pending write keeps the task it read, clears it, or binds the writer's own.
Writable(r) ==
    /\ r.next.task \in {r.seen.task, None} \/ (r.op = "bind" /\ r.next.task = r.task)
    /\ r.op = "stop" => r.next.task = None

IdsOK ==
    /\ rec.task <= Len(hydrated)
    /\ \A v \in Worker : /\ wk[v].seen.task <= Len(hydrated)
                         /\ Holds(wk[v]) => wk[v].task <= Len(hydrated)

SeenOK ==
    /\ rec.version = 0 => rec.task = None
    /\ \A v \in Worker : /\ wk[v].seen.version <= rec.version
                         /\ wk[v].seen.version = rec.version => wk[v].seen.task = rec.task

NextOK == \A v \in Worker : wk[v].pc = "commit" => Writable(wk[v])

FreshOK ==
    \A w \in Worker : Launching(wk[w]) =>
        /\ wk[w].task # None
        /\ wk[w].task # rec.task
        /\ \A v \in Worker : wk[v].seen.task # wk[w].task
        /\ \A v \in Worker \ {w} : Holds(wk[v]) => wk[v].task # wk[w].task

ReleaseOK ==
    \A w \in Worker : wk[w].pc = "release" /\ wk[w].task # None => wk[w].task # rec.task

BoundOK ==
    /\ Bound(rec)
    /\ \A v \in Worker : Bound(wk[v].seen) /\ (wk[v].pc = "commit" => Bound(wk[v].next))

IInv == TypeOK /\ IdsOK /\ SeenOK /\ NextOK /\ FreshOK /\ ReleaseOK /\ BoundOK

-----------------------------------------------------------------------------
(* Steps that move their worker and leave the binding of the row alone. *)

\* What is known of the state r such a step leaves worker w in.
Local(w, r) ==
    /\ r \in WorkerStates
    /\ r.seen \in {rec, wk[w].seen, NoRecord}
    /\ Holds(r) => r.task \in {rec.task, None} \/ (Holds(wk[w]) /\ r.task = wk[w].task)
    /\ Launching(r) => Launching(wk[w]) /\ r.task = wk[w].task
    /\ r.pc # "release"
    /\ r.pc = "commit" => Writable(r) /\ Bound(r.next)

\* The fields of records and workers that the invariant compares are numbers.
LEMMA Numbers ==
    ASSUME TypeOK
    PROVE  /\ rec.task \in Nat /\ rec.version \in Nat /\ Len(hydrated) \in Nat
           /\ \A v \in Worker : /\ wk[v] \in WorkerStates /\ wk[v].task \in Nat
                                /\ wk[v].seen.task \in Nat /\ wk[v].seen.version \in Nat
BY SMTT(30) DEF TypeOK, WorkerStates, Records

\* The record of nothing is unbound and has version 0.
LEMMA NoRecordFields == NoRecord.task = None /\ NoRecord.version = 0 /\ Bound(NoRecord)
BY DEF NoRecord, Reserve, Bound, None, Absent

\* Such a step keeps the invariant.
LEMMA LocalMove ==
    ASSUME IInv, TypeOK', NEW w \in Worker, NEW r, Local(w, r),
           wk' = [wk EXCEPT ![w] = r], Len(hydrated) <= Len(hydrated'),
           rec'.task = rec.task, rec'.version = rec.version, Bound(rec')
    PROVE  IInv'
<1>1. \A v \in Worker : wk'[v] = IF v = w THEN r ELSE wk[v]
  BY DEF IInv, TypeOK
<1>2. /\ TypeOK /\ IdsOK /\ SeenOK /\ NextOK /\ FreshOK /\ ReleaseOK /\ BoundOK
      /\ Len(hydrated') \in Nat
  <2>1. Len(hydrated') \in Nat
    BY DEF TypeOK
  <2> QED
    BY <2>1 DEF IInv
<1>3. /\ r.seen.task \in Nat /\ r.seen.version \in Nat /\ r.task \in Nat
      /\ r.seen \in {rec, wk[w].seen, NoRecord}
  BY WorkerFields DEF Local, WorkerStates, Records
<1>4. IdsOK'
  BY <1>1, <1>2, <1>3, Numbers, NoRecordFields DEF IdsOK, Local, None
<1>5. SeenOK'
  BY <1>1, <1>2, <1>3, Numbers, NoRecordFields DEF SeenOK, None
<1>6. NextOK'
  BY <1>1, <1>2 DEF NextOK, Local
<1>7. FreshOK'
  <2> SUFFICES ASSUME NEW u \in Worker, Launching(wk'[u])
               PROVE  /\ wk'[u].task # None /\ wk'[u].task # rec'.task
                      /\ \A v \in Worker : wk'[v].seen.task # wk'[u].task
                      /\ \A v \in Worker \ {u} : Holds(wk'[v]) => wk'[v].task # wk'[u].task
    BY DEF FreshOK
  <2>1. Launching(wk[u]) /\ wk'[u].task = wk[u].task
    BY <1>1 DEF Local
  <2>2. /\ wk[u].task # None /\ wk[u].task # rec.task
        /\ \A v \in Worker : wk[v].seen.task # wk[u].task
        /\ \A v \in Worker \ {u} : Holds(wk[v]) => wk[v].task # wk[u].task
    BY <1>2, <2>1 DEF FreshOK
  <2>3. \A v \in Worker : wk'[v].seen.task # wk[u].task
    BY <1>1, <1>3, <2>2, NoRecordFields
  <2>4. \A v \in Worker \ {u} : Holds(wk'[v]) => wk'[v].task # wk[u].task
    BY <1>1, <2>2 DEF Local
  <2> QED
    BY <2>1, <2>2, <2>3, <2>4
<1>8. ReleaseOK'
  BY <1>1, <1>2 DEF ReleaseOK, Local
<1>9. BoundOK'
  BY <1>1, <1>2, <1>3, NoRecordFields DEF BoundOK, Local
<1> QED
  BY <1>4, <1>5, <1>6, <1>7, <1>8, <1>9 DEF IInv

\* A step that moves no worker keeps it too.
LEMMA NobodyMoves ==
    ASSUME IInv, TypeOK', UNCHANGED <<rec, wk, hydrated>>
    PROVE  IInv'
BY DEF IInv, IdsOK, SeenOK, NextOK, FreshOK, ReleaseOK, BoundOK

-----------------------------------------------------------------------------
(* What the functions of the core do to a binding. *)

\* The ones that keep the task.
LEMMA Keeps ==
    ASSUME NEW ws \in Records, Bound(ws), NEW b \in BOOLEAN, NEW id \in Nat
    PROVE  /\ Can(ws, "requestStop") => Bound(MarkStopping(ws))
           /\ Can(ws, "cancelStop") => Bound(CancelStopping(ws))
           /\ Can(ws, "wake") => Bound(MarkWaking(ws))
           /\ Bound(DeferPlacement(ws))
           /\ Bound(MarkProvisioningFailed(ws))
           /\ Bound(RetryProvisioning(ws))
           /\ Bound(MarkActivity(ws))
           /\ Bound(MarkDeleting(ws))
           /\ Bound(MarkSnapshotLost(ws))
           /\ Can(ws, "undelete") => Bound(UndeleteWorkspace(ws))
           /\ Bound(RecordSnapshot(ws, id))
           /\ Bound(RestoreToSnapshot(ws, id))
           /\ Bound(SetShare(ws, b))
           /\ Bound([ws EXCEPT !.alwaysOn = b])
           /\ MarkStopping(ws).task = ws.task
           /\ CancelStopping(ws).task = ws.task
           /\ MarkWaking(ws).task = ws.task
           /\ DeferPlacement(ws).task = ws.task
           /\ MarkProvisioningFailed(ws).task = ws.task
           /\ RetryProvisioning(ws).task = ws.task
           /\ MarkActivity(ws).task = ws.task
           /\ MarkDeleting(ws).task = ws.task
           /\ MarkSnapshotLost(ws).task = ws.task
           /\ UndeleteWorkspace(ws).task = ws.task
           /\ RecordSnapshot(ws, id).task = ws.task
           /\ RestoreToSnapshot(ws, id).task = ws.task
           /\ SetShare(ws, b).task = ws.task
           /\ [ws EXCEPT !.alwaysOn = b].task = ws.task
<1> USE DEF Records, Bound, Can, Sources, Targets, WorkspaceStates, Absent, None
<1>1. /\ Can(ws, "requestStop") => Bound(MarkStopping(ws))
      /\ Can(ws, "cancelStop") => Bound(CancelStopping(ws))
      /\ MarkStopping(ws).task = ws.task
      /\ CancelStopping(ws).task = ws.task
  BY DEF MarkStopping, CancelStopping
<1>2. /\ Can(ws, "wake") => Bound(MarkWaking(ws))
      /\ Bound(DeferPlacement(ws))
      /\ MarkWaking(ws).task = ws.task
      /\ DeferPlacement(ws).task = ws.task
  BY DEF MarkWaking, DeferPlacement
<1>3. /\ Bound(MarkProvisioningFailed(ws))
      /\ Bound(RetryProvisioning(ws))
      /\ MarkProvisioningFailed(ws).task = ws.task
      /\ RetryProvisioning(ws).task = ws.task
  BY DEF MarkProvisioningFailed, RetryProvisioning
<1>4. /\ Bound(MarkActivity(ws))
      /\ Bound(MarkDeleting(ws))
      /\ MarkActivity(ws).task = ws.task
      /\ MarkDeleting(ws).task = ws.task
  BY DEF MarkActivity, MarkDeleting
<1>5. /\ Bound(MarkSnapshotLost(ws))
      /\ Can(ws, "undelete") => Bound(UndeleteWorkspace(ws))
      /\ MarkSnapshotLost(ws).task = ws.task
      /\ UndeleteWorkspace(ws).task = ws.task
  BY DEF MarkSnapshotLost, UndeleteWorkspace
<1>6. /\ Bound(RecordSnapshot(ws, id))
      /\ Bound(RestoreToSnapshot(ws, id))
      /\ RecordSnapshot(ws, id).task = ws.task
      /\ RestoreToSnapshot(ws, id).task = ws.task
  BY DEF RecordSnapshot, RestoreToSnapshot
<1>7. /\ Bound(SetShare(ws, b))
      /\ Bound([ws EXCEPT !.alwaysOn = b])
      /\ SetShare(ws, b).task = ws.task
      /\ [ws EXCEPT !.alwaysOn = b].task = ws.task
  BY DEF SetShare
<1> QED
  BY <1>1, <1>2, <1>3, <1>4, <1>5, <1>6, <1>7

\* The ones that clear it, and the one that sets it.
LEMMA Clears ==
    ASSUME NEW ws \in Records, NEW id \in Nat
    PROVE  /\ Bound(MarkStopped(ws, id)) /\ MarkStopped(ws, id).task = None
           /\ Bound(MarkTerminated(ws)) /\ MarkTerminated(ws).task = None
           /\ Bound(MarkTaskLost(ws)) /\ MarkTaskLost(ws).task = None
           /\ Bound(MarkRecovered(ws)) /\ MarkRecovered(ws).task = None
           /\ id # None => Bound(MarkProvisioned(ws, id))
           /\ MarkProvisioned(ws, id).task = id
<1> USE DEF Records, Bound, Targets, WorkspaceStates, Absent, None
<1>1. Bound(MarkStopped(ws, id)) /\ MarkStopped(ws, id).task = None
  BY DEF MarkStopped
<1>2. Bound(MarkTerminated(ws)) /\ MarkTerminated(ws).task = None
  BY DEF MarkTerminated
<1>3. Bound(MarkTaskLost(ws)) /\ MarkTaskLost(ws).task = None
  BY DEF MarkTaskLost
<1>4. Bound(MarkRecovered(ws)) /\ MarkRecovered(ws).task = None
  BY DEF MarkRecovered
<1>5. /\ id # None => Bound(MarkProvisioned(ws, id))
      /\ MarkProvisioned(ws, id).task = id
  BY DEF MarkProvisioned
<1> QED
  BY <1>1, <1>2, <1>3, <1>4, <1>5

-----------------------------------------------------------------------------
(* The shapes of the local steps. *)

\* Going idle.
LEMMA DoneLocal ==
    ASSUME NEW w \in Worker
    PROVE  Local(w, Idle)
BY IdleWorker DEF Local, Idle, Holds, Launching, None

\* Beginning an operation with the record just read, or with nothing.
LEMMA BeginLocal ==
    ASSUME NEW w \in Worker, NEW r \in WorkerStates,
           r.pc \notin {"commit", "launched", "compensate", "release"},
           r.seen \in {rec, NoRecord}, r.task \in {None, rec.task} \/ ~Holds(r)
    PROVE  Local(w, r)
BY DEF Local, Launching

\* Going on to another step.
LEMMA GotoLocal ==
    ASSUME NEW w \in Worker, NEW r \in WorkerStates,
           r.pc \notin {"commit", "launched", "release"},
           r.pc = "compensate" => Launching(wk[w]),
           r.seen \in {rec, wk[w].seen}, r.task = wk[w].task,
           Holds(wk[w]) \/ ~Holds(r)
    PROVE  Local(w, r)
BY DEF Local, Launching

\* Going on to write.
LEMMA WriteLocal ==
    ASSUME NEW w \in Worker, NEW r \in WorkerStates, Holds(wk[w]), r.pc = "commit",
           r.op = "bind" => Launching(wk[w]) /\ r.next.task = r.task,
           r.op # "bind" => r.next.task \in {r.seen.task, None},
           r.op = "stop" => r.next.task = None,
           r.seen \in {rec, wk[w].seen}, Bound(r.next),
           r.task = wk[w].task \/ (r.op # "bind" /\ r.task = None)
    PROVE  Local(w, r)
BY DEF Local, Launching, Writable

-----------------------------------------------------------------------------
(* The steps themselves. *)

\* What a step leaves alone when it does not write the row or launch a task.
Same == rec' = rec /\ hydrated' = hydrated

\* Any local move.
LEMMA Moves ==
    ASSUME IInv, TypeOK', Same, NEW w \in Worker, NEW r, Local(w, r), Become(w, r)
    PROVE  IInv'
<1>1. Len(hydrated) <= Len(hydrated')
  <2>1. Len(hydrated) \in Nat /\ hydrated' = hydrated
    BY Numbers DEF IInv, Same
  <2> QED
    BY <2>1
<1>2. rec'.task = rec.task /\ rec'.version = rec.version /\ Bound(rec')
  BY DEF IInv, BoundOK, Same
<1> QED
  BY <1>1, <1>2, LocalMove DEF Become

\* An operation that ends.
LEMMA DoneMoves ==
    ASSUME IInv, TypeOK', Same, NEW w \in Worker, Done(w)
    PROVE  IInv'
BY DoneLocal, Moves DEF Done

\* One that goes on at another step.
LEMMA GotoMoves ==
    ASSUME IInv, TypeOK', Same, NEW w \in Worker,
           NEW pc \in Steps \ {"commit", "launched", "release"}, Goto(w, pc),
           pc = "compensate" => Launching(wk[w]),
           Holds(wk[w]) \/ pc \in {"reap", "collect"}
    PROVE  IInv'
<1> DEFINE r == [wk[w] EXCEPT !.pc = pc]
<1>1. wk[w] \in WorkerStates
  BY Numbers DEF IInv
<1>2. r \in WorkerStates /\ r.pc = pc /\ r.seen = wk[w].seen /\ r.task = wk[w].task
  BY <1>1 DEF WorkerStates
<1>3. Local(w, r)
  <2> HIDE DEF r
  <2> QED
    BY <1>2, GotoLocal DEF Holds
<1>4. Become(w, r)
  BY DEF Goto, Become
<1> QED
  BY <1>3, <1>4, Moves

\* One that goes on to write a record that keeps the task it read or has none.
LEMMA ProposeMoves ==
    ASSUME IInv, TypeOK', Same, NEW w \in Worker, NEW op \in Writes \ {"bind"},
           NEW next \in Records, Propose(w, op, next), Holds(wk[w]),
           next.task \in {rec.task, None}, op = "stop" => next.task = None, Bound(next)
    PROVE  IInv'
<1> DEFINE r == [wk[w] EXCEPT !.pc = "commit", !.op = op, !.seen = rec, !.next = next]
<1>1. wk[w] \in WorkerStates /\ rec \in Records
  BY Numbers DEF IInv, TypeOK
<1>2. /\ r \in WorkerStates /\ r.pc = "commit" /\ r.op = op /\ r.seen = rec
      /\ r.next = next /\ r.task = wk[w].task
  BY <1>1 DEF WorkerStates, Steps
<1>3. Local(w, r)
  <2> HIDE DEF r
  <2> QED
    BY <1>2, WriteLocal
<1>4. Become(w, r)
  BY DEF Propose
<1> QED
  BY <1>3, <1>4, Moves

\* One that claims a wake.
LEMMA WakeMoves ==
    ASSUME IInv, TypeOK', Same, NEW w \in Worker, ProposeWake(w), Holds(wk[w]), CanStart
    PROVE  IInv'
<1> DEFINE r == [Idle EXCEPT !.pc = "commit", !.op = "wake", !.wake = TRUE,
                             !.seen = rec, !.next = MarkWaking(rec)]
<1>1. rec \in Records /\ Bound(rec)
  BY DEF IInv, TypeOK, BoundOK
<1>2. MarkWaking(rec) \in Records /\ Bound(MarkWaking(rec)) /\ MarkWaking(rec).task = rec.task
  <2>1. 0 \in Nat /\ TRUE \in BOOLEAN
    OBVIOUS
  <2> QED
    BY <1>1, <2>1, MarkedRecords, Keeps DEF CanStart
<1>3. /\ r \in WorkerStates /\ r.pc = "commit" /\ r.op = "wake" /\ r.seen = rec
      /\ r.next = MarkWaking(rec) /\ r.task = None
  <2> HIDE DEF r
  <2>1. Idle \in WorkerStates /\ Idle.task = None
    BY IdleWorker DEF Idle
  <2> QED
    BY <1>1, <1>2, <2>1 DEF r, WorkerStates, Steps, Writes
<1>4. Local(w, r)
  <2> HIDE DEF r
  <2> QED
    BY <1>2, <1>3, WriteLocal
<1> QED
  BY <1>4, Moves DEF ProposeWake

\* What a step may use of the state it starts from.
LEMMA Before ==
    ASSUME IInv, NEW w \in Worker
    PROVE  /\ rec \in Records /\ Bound(rec) /\ wk[w] \in WorkerStates
           /\ Bound(wk[w].seen) /\ wk[w].seen \in Records
           /\ None \in Nat /\ TRUE \in BOOLEAN /\ Idle \in WorkerStates
           /\ Idle.task = None /\ Idle.seen = NoRecord
<1>1. rec \in Records /\ Bound(rec) /\ wk[w] \in WorkerStates /\ Bound(wk[w].seen)
  BY Numbers DEF IInv, TypeOK, BoundOK
<1>2. None \in Nat /\ TRUE \in BOOLEAN /\ Idle \in WorkerStates
  BY IdleWorker DEF None
<1>3. Idle.task = None /\ Idle.seen = NoRecord
  BY DEF Idle
<1> QED
  BY <1>1, <1>2, <1>3, WorkerFields

\* Client and agent calls.
LEMMA CallBinding ==
    ASSUME IInv, TypeOK', NEW w \in Worker, Call(w)
    PROVE  IInv'
<1>0. /\ rec \in Records /\ Bound(rec) /\ wk[w] \in WorkerStates
      /\ None \in Nat /\ TRUE \in BOOLEAN /\ Idle \in WorkerStates
      /\ Idle.task = None /\ Idle.seen = NoRecord
  BY Before
<1> USE <1>0
<1>00. ASSUME At(w, "idle")
       PROVE  Holds(wk[w])
  BY <1>00 DEF At, Holds
<1>01. ASSUME ReadOnly
       PROVE  Same
  BY <1>01 DEF ReadOnly, Same, cloud
<1>1. CASE ReserveWorkspace(w)
  <2> DEFINE r == [wk[w] EXCEPT !.pc = "reserved"]
  <2>1. r \in WorkerStates /\ r.pc = "reserved" /\ r.seen = wk[w].seen /\ r.task = wk[w].task
    BY DEF WorkerStates, Steps
  <2>2. Holds(wk[w])
    BY <1>1, <1>00 DEF ReserveWorkspace, Request
  <2>3. Local(w, r)
    <3> HIDE DEF r
    <3> QED
      BY <2>1, <2>2, GotoLocal
  <2>4. rec'.task = rec.task /\ rec'.version = rec.version /\ Bound(rec')
    BY <1>1 DEF ReserveWorkspace, NoRecord, Reserve, Bound, None, Absent
  <2>5. Len(hydrated) <= Len(hydrated')
    <3>1. Len(hydrated) \in Nat /\ hydrated' = hydrated
      BY <1>1, Numbers DEF ReserveWorkspace, cloud, IInv
    <3> QED
      BY <3>1
  <2> QED
    BY <1>1, <2>3, <2>4, <2>5, LocalMove DEF ReserveWorkspace, Goto
<1>2. CASE Start(w)
  BY <1>2, <1>00, <1>01, WakeMoves DEF Start, Request
<1>3. CASE Retry(w)
  <2>1. CASE rec.snap # None
    BY <1>3, <2>1, <1>00, <1>01, MarkedRecords, Clears, ProposeMoves DEF Retry, Request, Writes
  <2>2. CASE rec.snap = None
    BY <1>3, <2>2, <1>00, <1>01, MarkedRecords, Keeps, ProposeMoves DEF Retry, Request, Writes
  <2> QED
    BY <2>1, <2>2
<1>4. CASE Heartbeat(w)
  BY <1>4, <1>00, <1>01, MarkedRecords, Keeps, ProposeMoves
     DEF Heartbeat, ProposeBeat, Request, Writes
<1>5. CASE UpdateSettings(w)
  BY <1>5, <1>00, <1>01, MarkedWithFlag, Keeps, ProposeMoves DEF UpdateSettings, Request, Writes
<1>6. CASE ShareSession(w)
  BY <1>6, <1>00, <1>01, MarkedWithFlag, Keeps, ProposeMoves DEF ShareSession, Request, Writes
<1>7. CASE Snapshot(w)
  <2>1. PICK r : /\ r = [Idle EXCEPT !.pc = "snapshotting", !.seen = rec]
                 /\ Become(w, r)
    BY <1>7 DEF Snapshot
  <2>2. r \in WorkerStates /\ r.pc = "snapshotting" /\ r.seen = rec /\ r.task = None
    BY <2>1 DEF WorkerStates, Steps
  <2> QED
    BY <1>7, <1>01, <2>1, <2>2, BeginLocal, Moves DEF Snapshot
<1>8. CASE RestoreSnapshot(w)
  <2>1. PICK s \in snaps : Propose(w, "restore", RestoreToSnapshot(rec, s))
    BY <1>8 DEF RestoreSnapshot
  <2>2. s \in Nat
    BY DEF IInv, TypeOK
  <2> QED
    BY <1>8, <1>00, <1>01, <2>1, <2>2, MarkedWithId, Keeps, ProposeMoves
       DEF RestoreSnapshot, Request, Writes
<1>9. CASE RequestStop(w)
  BY <1>9, <1>00, <1>01, MarkedRecords, Keeps, ProposeMoves DEF RequestStop, Request, Writes
<1>10. CASE CancelStop(w)
  BY <1>10, <1>00, <1>01, MarkedRecords, Keeps, ProposeMoves DEF CancelStop, Request, Writes
<1>11. CASE Remove(w)
  BY <1>11, <1>00, <1>01, MarkedRecords, Keeps, ProposeMoves DEF Remove, Request, Writes
<1>12. CASE Undelete(w)
  BY <1>12, <1>00, <1>01, MarkedRecords, Keeps, ProposeMoves
     DEF Undelete, CanUndelete, Request, Writes
<1>13. CASE Purge(w)
  <2>1. PICK r : /\ r = [Idle EXCEPT !.pc = "purging", !.seen = rec]
                 /\ Become(w, r)
    BY <1>13 DEF Purge
  <2>2. r \in WorkerStates /\ r.pc = "purging" /\ r.seen = rec /\ r.task = None
    BY <2>1 DEF WorkerStates, Steps
  <2> QED
    BY <1>13, <1>01, <2>1, <2>2, BeginLocal, Moves DEF Purge
<1>14. CASE DeleteSnapshotById(w)
  <2>1. PICK s \in snaps : Become(w, [Idle EXCEPT !.pc = "adminDelete", !.snap = s])
    BY <1>14 DEF DeleteSnapshotById
  <2>2. s \in Nat
    BY DEF IInv, TypeOK
  <2>3. PICK r : /\ r = [Idle EXCEPT !.pc = "adminDelete", !.snap = s]
                 /\ Become(w, r)
    BY <2>1
  <2>4. r \in WorkerStates /\ r.pc = "adminDelete" /\ r.seen = NoRecord /\ r.task = None
    BY <2>2, <2>3 DEF WorkerStates, Steps
  <2> QED
    BY <1>14, <1>01, <2>3, <2>4, BeginLocal, Moves DEF DeleteSnapshotById
<1> QED
  BY <1>1, <1>2, <1>3, <1>4, <1>5, <1>6, <1>7, <1>8, <1>9, <1>10, <1>11, <1>12,
     <1>13, <1>14 DEF Call

\* Sweeps that pick the record up.
LEMMA PassBinding ==
    ASSUME IInv, TypeOK', NEW w \in Worker, Pass(w)
    PROVE  IInv'
<1>0. /\ rec \in Records /\ Bound(rec) /\ wk[w] \in WorkerStates
      /\ None \in Nat /\ TRUE \in BOOLEAN /\ Idle \in WorkerStates
      /\ Idle.task = None /\ Idle.seen = NoRecord
  BY Before
<1> USE <1>0
<1>00. ASSUME At(w, "idle")
       PROVE  Holds(wk[w])
  BY <1>00 DEF At, Holds
<1>01. ASSUME ReadOnly
       PROVE  Same
  BY <1>01 DEF ReadOnly, Same, cloud
<1>1. CASE RetryPlacement(w)
  <2>1. CASE rec.snap = None
    BY <1>1, <2>1, <1>00, <1>01, GotoMoves DEF RetryPlacement, Sweep, Steps
  <2>2. CASE rec.snap # None
    <3>1. PICK r : /\ r = [Idle EXCEPT !.pc = "launch", !.wake = TRUE, !.seen = rec]
                   /\ Become(w, r)
      BY <1>1, <2>2 DEF RetryPlacement
    <3>2. r \in WorkerStates /\ r.pc = "launch" /\ r.seen = rec /\ r.task = None
      BY <3>1 DEF WorkerStates, Steps
    <3> QED
      BY <1>1, <1>01, <3>1, <3>2, BeginLocal, Moves DEF RetryPlacement
  <2> QED
    BY <2>1, <2>2
<1>2. CASE FinishStop(w)
  <2>1. PICK r : /\ r = [Idle EXCEPT !.pc = "finalSnapshot", !.seen = rec]
                 /\ Become(w, r)
    BY <1>2 DEF FinishStop
  <2>2. r \in WorkerStates /\ r.pc = "finalSnapshot" /\ r.seen = rec /\ r.task = None
    BY <2>1 DEF WorkerStates, Steps
  <2> QED
    BY <1>2, <1>01, <2>1, <2>2, BeginLocal, Moves DEF FinishStop
<1>3. CASE ReconcileTaskLoss(w)
  BY <1>3, <1>00, <1>01, MarkedRecords, Clears, ProposeMoves DEF ReconcileTaskLoss, Sweep, Writes
<1>4. CASE ListStuckProvisioning(w)
  BY <1>4, <1>00, <1>01, GotoMoves DEF ListStuckProvisioning, Sweep, Steps
<1>5. CASE RecoverError(w)
  BY <1>5, <1>00, <1>01, MarkedRecords, Clears, ProposeMoves DEF RecoverError, Sweep, Writes
<1>6. CASE FinishDeleting(w)
  <2>1. RetainFirst(rec) \in {"tearVolume", "tag", "tearTask"}
    BY DEF RetainFirst
  <2>2. PICK pc \in {"tearVolume", "tag", "tearTask"} : pc = RetainFirst(rec)
    BY <2>1
  <2>3. PICK r : /\ r = [Idle EXCEPT !.pc = pc, !.seen = rec]
                 /\ Become(w, r)
    BY <1>6, <2>2 DEF FinishDeleting
  <2>4. r \in WorkerStates /\ r.pc = pc /\ r.seen = rec /\ r.task = None
    BY <2>3 DEF WorkerStates, Steps
  <2> QED
    BY <1>6, <1>01, <2>3, <2>4, BeginLocal, Moves DEF FinishDeleting
<1>7. CASE ListIdle(w)
  BY <1>7, <1>00, <1>01, GotoMoves DEF ListIdle, Sweep, Steps
<1>8. CASE ListSnapshotReference(w)
  <2>1. PICK r : /\ r = [Idle EXCEPT !.pc = "listedRef", !.seen = rec]
                 /\ Become(w, r)
    BY <1>8 DEF ListSnapshotReference
  <2>2. r \in WorkerStates /\ r.pc = "listedRef" /\ r.seen = rec /\ r.task = None
    BY <2>1 DEF WorkerStates, Steps
  <2> QED
    BY <1>8, <1>01, <2>1, <2>2, BeginLocal, Moves DEF ListSnapshotReference
<1>9. CASE ListFleetReferences(w)
  <2>1. PICK r : /\ r = [Idle EXCEPT !.pc = "reap", !.seen = rec,
                            !.task = OutOfGrace(Len(hydrated), UnrecordedTasks),
                            !.snap = OutOfGrace(Len(source), UnrecordedSnapshots)]
                 /\ Become(w, r)
    BY <1>9 DEF ListFleetReferences
  <2>2. r.pc = "reap" /\ r.seen = rec
    BY <2>1 DEF WorkerStates
  <2>3. r \in WorkerStates
    BY <2>1 DEF TypeOK, Become, IInv
  <2> QED
    BY <1>9, <1>01, <2>1, <2>2, <2>3, BeginLocal, Moves DEF ListFleetReferences, Holds
<1> QED
  BY <1>1, <1>2, <1>3, <1>4, <1>5, <1>6, <1>7, <1>8, <1>9 DEF Pass, Converge

\* A task that has just been run has an id nobody knows.
LEMMA RunBinding ==
    ASSUME IInv, TypeOK', NEW w \in Worker, RunTask(w)
    PROVE  IInv'
<1>0. /\ TypeOK /\ IdsOK /\ SeenOK /\ NextOK /\ FreshOK /\ ReleaseOK /\ BoundOK
  BY DEF IInv
<1>00. Len(hydrated) + 1 \in Nat
  BY <1>0, Numbers
<1>01. PICK t \in Nat : t = Len(hydrated) + 1
  BY <1>00
<1>1. PICK r : r = [wk[w] EXCEPT !.pc = "launched", !.task = t] /\ wk' = [wk EXCEPT ![w] = r]
  BY <1>01 DEF RunTask, Become
<1>2. /\ r.pc = "launched" /\ r.task = t /\ r.seen = wk[w].seen
      /\ wk[w].pc = "launch"
      /\ Launching(r) /\ Holds(r)
  <2>1. wk[w] \in WorkerStates
    BY <1>0, Numbers
  <2> QED
    BY <1>1, <2>1 DEF WorkerStates, Launching, Holds, RunTask, At
<1>3. \A v \in Worker : wk'[v] = IF v = w THEN r ELSE wk[v]
  BY <1>0, <1>1 DEF TypeOK
<1>4. rec' = rec /\ Len(hydrated') = t /\ Len(hydrated) < t
  <2>1. hydrated \in Seq(Nat) /\ Len(hydrated) \in Nat
    BY <1>0 DEF TypeOK
  <2>2. rec' = rec /\ hydrated' = Append(hydrated, IF wk[w].wake THEN wk[w].seen.snap ELSE None)
    BY DEF RunTask
  <2>3. Len(hydrated') = Len(hydrated) + 1
    BY <2>1, <2>2
  <2> QED
    BY <1>01, <2>1, <2>2, <2>3
<1>5. IdsOK'
  BY <1>0, <1>2, <1>3, <1>4, Numbers, SMTT(30) DEF IdsOK
<1>6. SeenOK'
  BY <1>0, <1>2, <1>3, <1>4 DEF SeenOK
<1>7. NextOK' /\ ReleaseOK'
  BY <1>0, <1>2, <1>3, <1>4 DEF NextOK, ReleaseOK
<1>8. FreshOK'
  <2> SUFFICES ASSUME NEW u \in Worker, Launching(wk'[u])
               PROVE  /\ wk'[u].task # None /\ wk'[u].task # rec.task
                      /\ \A v \in Worker : wk'[v].seen.task # wk'[u].task
                      /\ \A v \in Worker \ {u} : Holds(wk'[v]) => wk'[v].task # wk'[u].task
    BY <1>4 DEF FreshOK
  <2>0. t # 0 /\ rec.task # t /\ \A v \in Worker : /\ wk[v].seen.task # t
                                                   /\ Holds(wk[v]) => wk[v].task # t
    BY <1>0, <1>4, Numbers DEF IdsOK
  <2>1. CASE u = w
    BY <1>2, <1>3, <2>0, <2>1 DEF None
  <2>2. CASE u # w
    <3>1. Launching(wk[u]) /\ wk'[u] = wk[u] /\ Holds(wk[u])
      BY <1>3, <2>2 DEF Launching, Holds
    <3> QED
      BY <1>0, <1>2, <1>3, <2>0, <2>2, <3>1 DEF FreshOK
  <2> QED
    BY <2>1, <2>2
<1>9. BoundOK'
  BY <1>0, <1>2, <1>3, <1>4 DEF BoundOK
<1> QED
  BY <1>5, <1>6, <1>7, <1>8, <1>9 DEF IInv

\* The other steps of a launch.
LEMMA LaunchBinding ==
    ASSUME IInv, TypeOK', NEW w \in Worker, Launch(w)
    PROVE  IInv'
<1>0. /\ rec \in Records /\ Bound(rec) /\ wk[w] \in WorkerStates
      /\ None \in Nat /\ TRUE \in BOOLEAN /\ Idle \in WorkerStates
      /\ Idle.task = None /\ Idle.seen = NoRecord
  BY Before
<1> USE <1>0
<1>00. ASSUME wk[w].pc \notin {"reap", "collect"}
       PROVE  Holds(wk[w])
  BY <1>00 DEF Holds
<1>01. ASSUME LocalOnly
       PROVE  Same
  BY <1>01 DEF LocalOnly, Same, cloud
<1>1. CASE LaunchReserved(w)
  <2>1. CASE rec.state = "provisioning" /\ rec.task = None
    <3>1. PICK r : r = [Idle EXCEPT !.pc = "launch", !.seen = rec] /\ Become(w, r)
      BY <1>1, <2>1 DEF LaunchReserved
    <3>2. r \in WorkerStates /\ r.pc = "launch" /\ r.seen = rec /\ r.task = None
      BY <3>1 DEF WorkerStates, Steps
    <3> QED
      BY <1>1, <1>01, <3>1, <3>2, BeginLocal, Moves DEF LaunchReserved
  <2>2. CASE ~(rec.state = "provisioning" /\ rec.task = None)
    BY <1>1, <1>01, <2>2, DoneMoves DEF LaunchReserved
  <2> QED
    BY <2>1, <2>2
<1>2. CASE StartAfterRecover(w)
  BY <1>2, <1>00, <1>01, WakeMoves, DoneMoves DEF StartAfterRecover, At
<1>3. CASE RunTask(w)
  BY <1>3, RunBinding
<1>4. CASE RunTaskRefused(w)
  BY <1>4, <1>00, GotoMoves DEF RunTaskRefused, At, Steps, Same, cloud
<1>5. CASE RunTaskFailed(w)
  <2>1. PICK r : r = [wk[w] EXCEPT !.pc = "launchFailed"] /\ wk' = [wk EXCEPT ![w] = r]
    BY <1>5 DEF RunTaskFailed, Goto
  <2>2. /\ r \in WorkerStates /\ r.pc = "launchFailed" /\ r.seen = wk[w].seen
        /\ r.task = wk[w].task
    BY <2>1 DEF WorkerStates, Steps
  <2>3. Local(w, r)
    BY <1>5, <1>00, <2>2, GotoLocal DEF RunTaskFailed, At
  <2>4. Len(hydrated) <= Len(hydrated')
    <3>1. hydrated \in Seq(Nat) /\ Len(hydrated) \in Nat
      BY DEF IInv, TypeOK
    <3>2. \/ hydrated' = hydrated
          \/ hydrated' = Append(hydrated, IF wk[w].wake THEN wk[w].seen.snap ELSE None)
      BY <1>5 DEF RunTaskFailed, cloud
    <3> QED
      BY <3>1, <3>2
  <2>5. rec' = rec
    BY <1>5 DEF RunTaskFailed
  <2> QED
    BY <2>1, <2>3, <2>4, <2>5, LocalMove
<1>6. CASE BindTask(w)
  <2>0. wk[w].pc = "launched" /\ Launching(wk[w]) /\ Holds(wk[w])
    BY <1>6 DEF BindTask, At, Launching, Holds
  <2>1. CASE Can(rec, "provisioned") /\ (wk[w].wake \/ rec.task = None)
    <3>1. wk[w].task \in Nat /\ wk[w].task # None
      BY <2>0, WorkerFields DEF IInv, FreshOK
    <3>2. /\ MarkProvisioned(rec, wk[w].task) \in Records
          /\ Bound(MarkProvisioned(rec, wk[w].task))
          /\ MarkProvisioned(rec, wk[w].task).task = wk[w].task
      BY <3>1, MarkedWithId, Clears
    <3>3. PICK r : /\ r = [wk[w] EXCEPT !.pc = "commit", !.op = "bind", !.seen = rec,
                                        !.next = MarkProvisioned(rec, wk[w].task)]
                   /\ Become(w, r)
      BY <1>6, <2>1 DEF BindTask, Propose
    <3>4. /\ r \in WorkerStates /\ r.pc = "commit" /\ r.op = "bind" /\ r.seen = rec
          /\ r.next = MarkProvisioned(rec, wk[w].task) /\ r.task = wk[w].task
      BY <3>2, <3>3 DEF WorkerStates, Steps, Writes
    <3>5. Local(w, r)
      BY <2>0, <3>2, <3>4, WriteLocal
    <3> QED
      BY <1>6, <1>01, <3>3, <3>5, Moves DEF BindTask
  <2>2. CASE ~(Can(rec, "provisioned") /\ (wk[w].wake \/ rec.task = None))
    BY <1>6, <1>01, <2>0, <2>2, GotoMoves DEF BindTask, Steps
  <2> QED
    BY <2>1, <2>2
<1>7. CASE Compensate(w)
  <2>1. Same /\ Done(w)
    BY <1>7 DEF Compensate, Same, StopTask, cloud
  <2> QED
    BY <2>1, DoneMoves
<1>8. CASE WaitForCapacity(w)
  <2>0. Holds(wk[w]) /\ Same
    BY <1>8, <1>00, <1>01 DEF WaitForCapacity, At
  <2>1. CASE rec.state = Absent
    BY <1>8, <2>0, <2>1, DoneMoves DEF WaitForCapacity, CanDeferPlacement, Absent
  <2>2. CASE rec.state # Absent /\ CanDeferPlacement(rec)
    BY <1>8, <2>0, <2>2, MarkedRecords, Keeps, ProposeMoves DEF WaitForCapacity, Writes
  <2>3. CASE rec.state # Absent /\ ~CanDeferPlacement(rec)
    <3>1. PICK r : /\ r = [wk[w] EXCEPT !.pc = "launchFailed", !.wake = (rec.snap # None)]
                   /\ Become(w, r)
      BY <1>8, <2>3 DEF WaitForCapacity
    <3>2. /\ r \in WorkerStates /\ r.pc = "launchFailed" /\ r.seen = wk[w].seen
          /\ r.task = wk[w].task
      BY <3>1 DEF WorkerStates, Steps
    <3> QED
      BY <2>0, <3>1, <3>2, GotoLocal, Moves
  <2> QED
    BY <2>1, <2>2, <2>3
<1>9. CASE LaunchFailed(w)
  <2>0. Holds(wk[w]) /\ Same
    BY <1>9, <1>00, <1>01 DEF LaunchFailed, At
  <2>1. CASE wk[w].wake /\ rec.state = "provisioning"
    BY <1>9, <2>0, <2>1, MarkedWithId, Clears, ProposeMoves DEF LaunchFailed, Writes
  <2>2. CASE ~wk[w].wake /\ Can(rec, "fail")
    BY <1>9, <2>0, <2>2, MarkedRecords, Keeps, ProposeMoves DEF LaunchFailed, Writes
  <2>3. CASE ~(wk[w].wake /\ rec.state = "provisioning") /\ ~(~wk[w].wake /\ Can(rec, "fail"))
    BY <1>9, <2>0, <2>3, DoneMoves DEF LaunchFailed
  <2> QED
    BY <2>1, <2>2, <2>3
<1> QED
  BY <1>1, <1>2, <1>3, <1>4, <1>5, <1>6, <1>7, <1>8, <1>9 DEF Launch

\* The steps of a report, a snapshot, a stop and the recovery sweeps.
LEMMA StopBinding ==
    ASSUME IInv, TypeOK', NEW w \in Worker, StopOrRecover(w)
    PROVE  IInv'
<1>0. /\ rec \in Records /\ Bound(rec) /\ wk[w] \in WorkerStates
      /\ Bound(wk[w].seen) /\ wk[w].seen \in Records
      /\ None \in Nat /\ TRUE \in BOOLEAN /\ Idle \in WorkerStates
      /\ Idle.task = None /\ Idle.seen = NoRecord
  BY Before
<1> USE <1>0
<1>00. ASSUME wk[w].pc \notin {"reap", "collect"}
       PROVE  Holds(wk[w])
  BY <1>00 DEF Holds
<1>01. ASSUME LocalOnly
       PROVE  Same
  BY <1>01 DEF LocalOnly, Same, cloud
<1>02. Len(source) + 1 \in Nat /\ wk[w].snap \in Nat
  BY WorkerFields DEF IInv, TypeOK
<1>1. CASE HeartbeatAgain(w)
  <2>0. Holds(wk[w]) /\ Same
    BY <1>1, <1>00, <1>01 DEF HeartbeatAgain, At
  <2> QED
    BY <1>1, <2>0, MarkedRecords, Keeps, ProposeMoves, DoneMoves
       DEF HeartbeatAgain, ProposeBeat, Writes
<1>2. CASE TakeSnapshot(w)
  <2>0. Holds(wk[w]) /\ Same
    BY <1>2, <1>00 DEF TakeSnapshot, At, CreateSnapshot, Same, cloud
  <2>1. CASE VolumeGone(wk[w].seen.task)
    BY <1>2, <2>0, <2>1, DoneMoves DEF TakeSnapshot
  <2>2. CASE ~VolumeGone(wk[w].seen.task)
    <3>1. PICK r : /\ r = [wk[w] EXCEPT !.pc = "recordSnapshot", !.snap = Len(source) + 1]
                   /\ Become(w, r)
      BY <1>2, <2>2 DEF TakeSnapshot
    <3>2. /\ r \in WorkerStates /\ r.pc = "recordSnapshot" /\ r.seen = wk[w].seen
          /\ r.task = wk[w].task
      BY <1>02, <3>1 DEF WorkerStates, Steps
    <3> QED
      BY <2>0, <3>1, <3>2, GotoLocal, Moves
  <2> QED
    BY <2>1, <2>2
<1>3. CASE RecordTaken(w)
  <2>0. Holds(wk[w]) /\ Same
    BY <1>3, <1>00, <1>01 DEF RecordTaken, At
  <2> QED
    BY <1>3, <1>02, <2>0, MarkedWithId, Keeps, ProposeMoves, DoneMoves DEF RecordTaken, Writes
<1>4. CASE Stop(w)
  <2>0. Holds(wk[w]) /\ Same
    BY <1>4, <1>00, <1>01 DEF Stop, At
  <2>1. CASE ~(Can(rec, "stop") /\ IdleGuard)
    BY <1>4, <2>0, <2>1, DoneMoves DEF Stop
  <2>2. CASE Can(rec, "stop") /\ IdleGuard /\ rec.task # None
    <3>1. PICK r : /\ r = [Idle EXCEPT !.pc = "stopSnapshot", !.seen = rec, !.task = rec.task]
                   /\ Become(w, r)
      BY <1>4, <2>2 DEF Stop
    <3>2. r \in WorkerStates /\ r.pc = "stopSnapshot" /\ r.seen = rec /\ r.task = rec.task
      BY <3>1 DEF WorkerStates, Steps, Records
    <3> QED
      BY <2>0, <3>1, <3>2, BeginLocal, Moves
  <2>3. CASE Can(rec, "stop") /\ IdleGuard /\ rec.task = None
    BY <1>4, <2>0, <2>3, MarkedWithId, Clears, ProposeMoves DEF Stop, Writes
  <2> QED
    BY <2>1, <2>2, <2>3
<1>5. CASE StopSnapshot(w)
  <2>0. Holds(wk[w]) /\ Same
    BY <1>5, <1>00 DEF StopSnapshot, At, CreateSnapshot, Same, cloud
  <2>1. CASE VolumeGone(wk[w].seen.task)
    BY <1>5, <2>0, <2>1, DoneMoves DEF StopSnapshot
  <2>2. CASE ~VolumeGone(wk[w].seen.task)
    <3>1. PICK next : next = MarkStopped(wk[w].seen, Len(source) + 1)
      OBVIOUS
    <3>2. next \in Records /\ Bound(next) /\ next.task = None
      BY <1>02, <3>1, MarkedWithId, Clears
    <3>3. PICK r : /\ r = [wk[w] EXCEPT !.pc = "commit", !.op = "stop",
                                        !.snap = Len(source) + 1, !.next = next]
                   /\ Become(w, r)
      BY <1>5, <2>2, <3>1 DEF StopSnapshot
    <3>4. /\ r \in WorkerStates /\ r.pc = "commit" /\ r.op = "stop" /\ r.seen = wk[w].seen
          /\ r.next = next /\ r.task = wk[w].task
      BY <1>02, <3>2, <3>3 DEF WorkerStates, Steps, Writes
    <3> QED
      BY <2>0, <3>2, <3>3, <3>4, WriteLocal, Moves
  <2> QED
    BY <2>1, <2>2
<1>6. CASE ReleaseTask(w)
  <2>1. Same /\ Done(w)
    BY <1>6 DEF ReleaseTask, Same, StopTask, cloud
  <2> QED
    BY <2>1, DoneMoves
<1>7. CASE FinalSnapshot(w)
  <2>0. Holds(wk[w]) /\ Same
    BY <1>7, <1>00 DEF FinalSnapshot, At, CreateSnapshot, Same, cloud
  <2>1. CASE VolumeGone(wk[w].seen.task)
    BY <1>7, <2>0, <2>1, GotoMoves DEF FinalSnapshot, Steps
  <2>2. CASE ~VolumeGone(wk[w].seen.task)
    <3>1. PICK r : /\ r = [wk[w] EXCEPT !.pc = "recheck", !.snap = Len(source) + 1]
                   /\ Become(w, r)
      BY <1>7, <2>2 DEF FinalSnapshot
    <3>2. /\ r \in WorkerStates /\ r.pc = "recheck" /\ r.seen = wk[w].seen
          /\ r.task = wk[w].task
      BY <1>02, <3>1 DEF WorkerStates, Steps
    <3> QED
      BY <2>0, <3>1, <3>2, GotoLocal, Moves
  <2> QED
    BY <2>1, <2>2
<1>8. CASE RecheckStopping(w)
  <2>0. Holds(wk[w]) /\ Same
    BY <1>8, <1>00, <1>01 DEF RecheckStopping, At
  <2>1. CASE rec.state = "stopping"
    <3>1. PICK r : /\ r = [wk[w] EXCEPT !.pc = "kill", !.seen = rec, !.task = rec.task]
                   /\ Become(w, r)
      BY <1>8, <2>1 DEF RecheckStopping
    <3>2. r \in WorkerStates /\ r.pc = "kill" /\ r.seen = rec /\ r.task = rec.task
      BY <3>1 DEF WorkerStates, Steps, Records
    <3> QED
      BY <2>0, <3>1, <3>2, BeginLocal, Moves
  <2>2. CASE rec.state # "stopping"
    BY <1>8, <2>0, <2>2, DoneMoves DEF RecheckStopping
  <2> QED
    BY <2>1, <2>2
<1>9. CASE KillStopping(w)
  <2>0. Holds(wk[w]) /\ Same
    BY <1>9, <1>00 DEF KillStopping, At, StopTask, Same, cloud
  <2>1. CASE Done(w)
    BY <2>0, <2>1, DoneMoves
  <2>2. CASE ~Done(w)
    <3>1. PICK next : next = MarkStopped(wk[w].seen, wk[w].snap)
      OBVIOUS
    <3>2. next \in Records /\ Bound(next) /\ next.task = None
      BY <1>02, <3>1, MarkedWithId, Clears
    <3>3. PICK r : /\ r = [wk[w] EXCEPT !.pc = "commit", !.op = "finishStop", !.next = next]
                   /\ Become(w, r)
      BY <1>9, <2>2, <3>1 DEF KillStopping
    <3>4. /\ r \in WorkerStates /\ r.pc = "commit" /\ r.op = "finishStop"
          /\ r.seen = wk[w].seen /\ r.next = next /\ r.task = wk[w].task
      BY <3>2, <3>3 DEF WorkerStates, Steps, Writes
    <3> QED
      BY <2>0, <3>2, <3>3, <3>4, WriteLocal, Moves
  <2> QED
    BY <2>1, <2>2
<1>10. CASE RecoverStuckProvisioning(w)
  <2>0. Holds(wk[w]) /\ Same
    BY <1>10, <1>00, <1>01 DEF RecoverStuckProvisioning, At
  <2>1. CASE rec.state # "provisioning"
    BY <1>10, <2>0, <2>1, DoneMoves DEF RecoverStuckProvisioning
  <2>2. CASE rec.state = "provisioning" /\ rec.snap = None
    BY <1>10, <2>0, <2>2, MarkedRecords, Keeps, ProposeMoves DEF RecoverStuckProvisioning, Writes
  <2>3. CASE rec.state = "provisioning" /\ rec.snap # None
    BY <1>10, <2>0, <2>3, MarkedWithId, Clears, ProposeMoves DEF RecoverStuckProvisioning, Writes
  <2> QED
    BY <2>1, <2>2, <2>3
<1>11. CASE CompareSnapshots(w)
  BY <1>11, <1>00, <1>01, GotoMoves, DoneMoves DEF CompareSnapshots, At, Steps
<1>12. CASE MarkSnapshotLostFor(w)
  <2>0. Holds(wk[w]) /\ Same
    BY <1>12, <1>00, <1>01 DEF MarkSnapshotLostFor, At
  <2> QED
    BY <1>12, <2>0, MarkedRecords, Keeps, ProposeMoves, DoneMoves DEF MarkSnapshotLostFor, Writes
<1> QED
  BY <1>1, <1>2, <1>3, <1>4, <1>5, <1>6, <1>7, <1>8, <1>9, <1>10, <1>11, <1>12
     DEF StopOrRecover

\* A row that is removed leaves a version nobody has read and no task.
LEMMA PurgeBinding ==
    ASSUME IInv, TypeOK', NEW w \in Worker, PurgeTombstoneRecord(w), Unchanged(w)
    PROVE  IInv'
<1>0. /\ TypeOK /\ IdsOK /\ SeenOK /\ NextOK /\ FreshOK /\ ReleaseOK /\ BoundOK
  BY DEF IInv
<1>1. PICK r : r = [wk[w] EXCEPT !.pc = "reapSnapshot"] /\ wk' = [wk EXCEPT ![w] = r]
  BY DEF PurgeTombstoneRecord, RemoveThenReap, Goto
<1>2. /\ r.pc = "reapSnapshot" /\ r.task = wk[w].task /\ r.seen = wk[w].seen
      /\ Holds(wk[w]) /\ ~Launching(r)
  <2>1. wk[w] \in WorkerStates
    BY <1>0, Numbers
  <2> QED
    BY <1>1, <2>1 DEF WorkerStates, Launching, Holds, PurgeTombstoneRecord, At
<1>3. \A v \in Worker : wk'[v] = IF v = w THEN r ELSE wk[v]
  BY <1>0, <1>1 DEF TypeOK
<1>4. /\ rec'.version = rec.version + 1 /\ rec'.task = None /\ Bound(rec')
      /\ hydrated' = hydrated
  <2>1. rec' = [NoRecord EXCEPT !.version = rec.version + 1] /\ hydrated' = hydrated
    BY DEF PurgeTombstoneRecord, RemoveThenReap
  <2> QED
    BY <2>1 DEF NoRecord, Reserve, Bound, None, Absent
<1>5. IdsOK'
  BY <1>0, <1>2, <1>3, <1>4, Numbers DEF IdsOK, None, Holds
<1>6. SeenOK'
  BY <1>0, <1>2, <1>3, <1>4, Numbers DEF SeenOK
<1>7. NextOK' /\ ReleaseOK'
  BY <1>0, <1>2, <1>3, <1>4 DEF NextOK, ReleaseOK
<1>8. FreshOK'
  BY <1>0, <1>2, <1>3, <1>4 DEF FreshOK, Launching, Holds
<1>9. BoundOK'
  BY <1>0, <1>2, <1>3, <1>4 DEF BoundOK
<1> QED
  BY <1>5, <1>6, <1>7, <1>8, <1>9 DEF IInv

\* The steps of a teardown, a purge and the collectors.
LEMMA TeardownBinding ==
    ASSUME IInv, TypeOK', NEW w \in Worker, TeardownOrReap(w)
    PROVE  IInv'
<1>0. /\ rec \in Records /\ Bound(rec) /\ wk[w] \in WorkerStates
      /\ Bound(wk[w].seen) /\ wk[w].seen \in Records
      /\ None \in Nat /\ TRUE \in BOOLEAN /\ Idle \in WorkerStates
  BY Before
<1> USE <1>0
<1>00. ASSUME wk[w].pc \notin {"reap", "collect"}
       PROVE  Holds(wk[w])
  BY <1>00 DEF Holds
<1>02. Len(source) + 1 \in Nat
  BY DEF IInv, TypeOK
<1>1. CASE TeardownSnapshot(w)
  <2>0. Holds(wk[w]) /\ Same
    BY <1>1, <1>00 DEF TeardownSnapshot, At, CreateSnapshot, Same, cloud
  <2>1. CASE VolumeGone(wk[w].seen.task)
    BY <1>1, <2>0, <2>1, DoneMoves DEF TeardownSnapshot
  <2>2. CASE ~VolumeGone(wk[w].seen.task)
    <3>1. PICK next : next = RecordSnapshot(wk[w].seen, Len(source) + 1)
      OBVIOUS
    <3>2. next \in Records /\ Bound(next) /\ next.task = wk[w].seen.task
      BY <1>02, <3>1, MarkedWithId, Keeps
    <3>3. PICK r : /\ r = [wk[w] EXCEPT !.pc = "commit", !.op = "recordTeardown",
                                        !.snap = Len(source) + 1, !.next = next]
                   /\ Become(w, r)
      BY <1>1, <2>2, <3>1 DEF TeardownSnapshot
    <3>4. /\ r \in WorkerStates /\ r.pc = "commit" /\ r.op = "recordTeardown"
          /\ r.seen = wk[w].seen /\ r.next = next /\ r.task = wk[w].task
      BY <1>02, <3>2, <3>3 DEF WorkerStates, Steps, Writes
    <3> QED
      BY <2>0, <3>2, <3>3, <3>4, WriteLocal, Moves
  <2> QED
    BY <2>1, <2>2
<1>2. CASE TagRetained(w)
  <2>0. Holds(wk[w]) /\ Same
    BY <1>2, <1>00 DEF TagRetained, At, Same
  <2> QED
    BY <1>2, <2>0, GotoMoves, DoneMoves DEF TagRetained, Steps
<1>3. CASE TeardownTask(w)
  <2>0. Holds(wk[w]) /\ Same
    BY <1>3, <1>00 DEF TeardownTask, At, StopTask, Same, cloud
  <2>1. PICK next : next = MarkTerminated(wk[w].seen)
    OBVIOUS
  <2>2. next \in Records /\ Bound(next) /\ next.task = None
    BY <2>1, MarkedRecords, Clears
  <2>3. PICK r : /\ r = [wk[w] EXCEPT !.pc = "commit", !.op = "terminate", !.next = next]
                 /\ Become(w, r)
    BY <1>3, <2>1 DEF TeardownTask
  <2>4. /\ r \in WorkerStates /\ r.pc = "commit" /\ r.op = "terminate"
        /\ r.seen = wk[w].seen /\ r.next = next /\ r.task = wk[w].task
    BY <2>2, <2>3 DEF WorkerStates, Steps, Writes
  <2> QED
    BY <2>0, <2>2, <2>3, <2>4, WriteLocal, Moves
<1>4. CASE PurgeTombstoneRecord(w)
  <2>1. CASE Unchanged(w)
    BY <1>4, <2>1, PurgeBinding
  <2>2. CASE ~Unchanged(w)
    BY <1>4, <2>2, DoneMoves DEF PurgeTombstoneRecord, RemoveThenReap, Same
  <2> QED
    BY <2>1, <2>2
<1>5. CASE ReapSnapshot(w)
  BY <1>5, DoneMoves DEF ReapSnapshot, DeleteSnapshot, Same
<1>6. CASE AdminDelete(w)
  BY <1>6, DoneMoves DEF AdminDelete, DeleteSnapshot, Same
<1>7. CASE ReapOrphanTasks(w)
  BY <1>7, GotoMoves DEF ReapOrphanTasks, Same, Steps
<1>8. CASE CollectGarbage(w)
  BY <1>8, DoneMoves DEF CollectGarbage, Same
<1> QED
  BY <1>1, <1>2, <1>3, <1>4, <1>5, <1>6, <1>7, <1>8 DEF TeardownOrReap

\* The write: what it stores is the task the row has, none, or the writer's own,
\* because the version it read is the version of the row.
LEMMA CommitBinding ==
    ASSUME IInv, TypeOK', NEW w \in Worker, Commit(w)
    PROVE  IInv'
<1>0. /\ TypeOK /\ IdsOK /\ SeenOK /\ NextOK /\ FreshOK /\ ReleaseOK /\ BoundOK
      /\ wk[w] \in WorkerStates /\ Idle.pc = "idle" /\ Idle.task = None /\ Idle.seen = NoRecord
  BY Before DEF IInv, Idle
<1>1. PICK r : /\ wk' = [wk EXCEPT ![w] = r]
               /\ \/ r = Idle
                  \/ /\ AfterWrite(wk[w].op) # "idle"
                     /\ r = [wk[w] EXCEPT
                               !.pc = AfterWrite(wk[w].op), !.op = "none",
                               !.seen = IF wk[w].op \in {"wake", "stop"} THEN @ ELSE Written(w),
                               !.next = NoRecord]
  BY DEF Commit, Become, Done
<1>2. \A v \in Worker : wk'[v] = IF v = w THEN r ELSE wk[v]
  BY <1>0, <1>1 DEF TypeOK
<1>3. /\ rec' = Written(w) /\ hydrated' = hydrated
      /\ wk[w].pc = "commit" /\ wk[w].seen.version = rec.version /\ wk[w].seen.task = rec.task
  BY <1>0 DEF Commit, WriteWins, Unchanged, At, SeenOK, cloud
<1>4. rec'.version = rec.version + 1 /\ rec'.task = wk[w].next.task /\ Bound(rec')
  <2>1. /\ Written(w).version = wk[w].seen.version + 1
        /\ Written(w).task = wk[w].next.task /\ Written(w).state = wk[w].next.state
    BY <1>0 DEF Written, WorkerStates, Records
  <2>2. Bound(wk[w].next)
    BY <1>0, <1>3 DEF BoundOK
  <2> QED
    BY <1>3, <2>1, <2>2 DEF Bound
<1>5. /\ r.pc \in {"idle", "launch", "reserved", "restart", "release", "tearTask"}
      /\ r.pc = "release" => wk[w].op = "stop"
      /\ r.task \in {None, wk[w].task}
      /\ r.seen \in {NoRecord, wk[w].seen, rec'}
  BY <1>0, <1>1, <1>3 DEF AfterWrite, WorkerStates
<1>6. ~Launching(r) /\ Holds(r) /\ Holds(wk[w]) /\ r.pc # "commit"
  BY <1>3, <1>5 DEF Launching, Holds
<1>7. \/ rec'.task \in {rec.task, None}
      \/ Launching(wk[w]) /\ rec'.task = wk[w].task
  BY <1>0, <1>3, <1>4 DEF NextOK, Writable, Launching
<1>8. IdsOK'
  BY <1>0, <1>2, <1>3, <1>5, <1>6, <1>7, Numbers, NoRecordFields DEF IdsOK, None
<1>9. SeenOK'
  BY <1>0, <1>2, <1>4, <1>5, Numbers, NoRecordFields DEF SeenOK
<1>10. NextOK'
  BY <1>0, <1>2, <1>6 DEF NextOK
<1>11. FreshOK'
  <2> SUFFICES ASSUME NEW u \in Worker, Launching(wk'[u])
               PROVE  /\ wk'[u].task # None /\ wk'[u].task # rec'.task
                      /\ \A v \in Worker : wk'[v].seen.task # wk'[u].task
                      /\ \A v \in Worker \ {u} : Holds(wk'[v]) => wk'[v].task # wk'[u].task
    BY DEF FreshOK
  <2>1. u # w /\ wk'[u] = wk[u] /\ Launching(wk[u])
    BY <1>2, <1>6
  <2>2. /\ wk[u].task # None /\ wk[u].task # rec.task
        /\ \A v \in Worker : wk[v].seen.task # wk[u].task
        /\ \A v \in Worker \ {u} : Holds(wk[v]) => wk[v].task # wk[u].task
    BY <1>0, <2>1 DEF FreshOK
  <2>3. wk[w].task # wk[u].task
    BY <1>6, <2>1, <2>2
  <2>4. rec'.task # wk[u].task
    BY <1>7, <2>2, <2>3
  <2>5. \A v \in Worker : wk'[v].seen.task # wk[u].task
    BY <1>2, <1>5, <2>2, <2>4, NoRecordFields
  <2>6. \A v \in Worker \ {u} : Holds(wk'[v]) => wk'[v].task # wk[u].task
    BY <1>2, <1>5, <2>2, <2>3
  <2> QED
    BY <2>1, <2>2, <2>4, <2>5, <2>6
<1>12. ReleaseOK'
  <2> SUFFICES ASSUME NEW u \in Worker, wk'[u].pc = "release", wk'[u].task # None
               PROVE  wk'[u].task # rec'.task
    BY DEF ReleaseOK
  <2>1. CASE u = w
    BY <1>0, <1>2, <1>3, <1>4, <1>5, <2>1 DEF NextOK, Writable
  <2>2. CASE u # w
    <3>1. wk'[u] = wk[u] /\ wk[u].task # rec.task /\ Holds(wk[u])
      BY <1>0, <1>2, <2>2 DEF ReleaseOK, Holds
    <3> QED
      BY <1>0, <1>7, <2>2, <3>1 DEF FreshOK
  <2> QED
    BY <2>1, <2>2
<1>13. BoundOK'
  BY <1>0, <1>2, <1>4, <1>5, <1>6, NoRecordFields DEF BoundOK
<1> QED
  BY <1>8, <1>9, <1>10, <1>11, <1>12, <1>13 DEF IInv

\* A write that lost changes only its worker.
LEMMA ConflictBinding ==
    ASSUME IInv, TypeOK', NEW w \in Worker, Conflict(w)
    PROVE  IInv'
<1>0. wk[w] \in WorkerStates /\ wk[w].pc = "commit" /\ Holds(wk[w]) /\ Same
  BY Before DEF Conflict, At, Holds, LocalOnly, Same, cloud
<1>1. CASE AfterConflict(wk[w].op, wk[w].tries) = "idle"
  BY <1>0, <1>1, DoneMoves DEF Conflict
<1>2. CASE AfterConflict(wk[w].op, wk[w].tries) # "idle"
  <2>1. PICK pc \in {"compensate", "beat", "recordSnapshot"} :
           /\ pc = AfterConflict(wk[w].op, wk[w].tries)
           /\ pc = "compensate" => wk[w].op = "bind"
    BY <1>2 DEF AfterConflict
  <2>2. PICK r : r = [wk[w] EXCEPT !.pc = pc, !.tries = 1, !.next = NoRecord] /\ Become(w, r)
    BY <1>2, <2>1 DEF Conflict
  <2>3. r \in WorkerStates
    BY <1>0, <2>1, <2>2, RetriedType DEF Steps
  <2>4. r.pc = pc /\ r.seen = wk[w].seen /\ r.task = wk[w].task
    BY <1>0, <2>2 DEF WorkerStates
  <2>5. Local(w, r)
    BY <1>0, <2>1, <2>3, <2>4, GotoLocal DEF Launching
  <2> QED
    BY <1>0, <2>2, <2>5, Moves
<1> QED
  BY <1>1, <1>2

-----------------------------------------------------------------------------
\* Every step keeps the invariant.
LEMMA BindingStep == IInv /\ [Next]_vars => IInv'
<1> SUFFICES ASSUME IInv, [Next]_vars
             PROVE  IInv'
  OBVIOUS
<1>0. TypeOK'
  BY TypeStep DEF IInv
<1>1. ASSUME NEW w \in Worker, Proceed(w)
      PROVE  IInv'
  BY <1>0, <1>1, CommitBinding, ConflictBinding, LaunchBinding, StopBinding, TeardownBinding
     DEF Proceed, Launch, StopOrRecover, TeardownOrReap
<1>2. ASSUME NEW w \in Worker, Crash(w)
      PROVE  IInv'
  BY <1>0, <1>2, DoneMoves DEF Crash, Same, cloud
<1>3. CASE BecomeQuiet
  BY <1>0, <1>3, NobodyMoves DEF BecomeQuiet, cloud
<1>4. CASE TaskDies
  BY <1>0, <1>4, NobodyMoves DEF TaskDies, StopTask
<1>5. CASE UNCHANGED vars
  BY <1>0, <1>5, NobodyMoves DEF vars, cloud
<1> QED
  BY <1>0, <1>1, <1>2, <1>3, <1>4, <1>5, CallBinding, PassBinding DEF Next

\* It holds when nothing has been created yet.
LEMMA BindingInit == Init => IInv
<1> SUFFICES ASSUME Init
             PROVE  IInv
  OBVIOUS
<1>1. TypeOK
  BY TypeInit
<1>2. rec = NoRecord /\ \A v \in Worker : wk[v] = Idle
  BY DEF Init
<1>3. Idle.pc = "idle" /\ Idle.seen = NoRecord /\ Idle.task = None
  BY DEF Idle
<1>4. ~Launching(Idle) /\ Holds(Idle)
  BY <1>3 DEF Launching, Holds
<1>5. IdsOK
  BY <1>1, <1>2, <1>3, Numbers, NoRecordFields DEF IdsOK, None
<1>6. SeenOK /\ NextOK /\ FreshOK /\ ReleaseOK /\ BoundOK
  BY <1>2, <1>3, <1>4, NoRecordFields DEF SeenOK, NextOK, FreshOK, ReleaseOK, BoundOK
<1> QED
  BY <1>1, <1>5, <1>6 DEF IInv

\* No launch that lost a race and no stop that released its task ever kills the
\* task the record is bound to (launchReserved, launchClaimedWake and stop of
\* workspace-service.ts), for every number of processes and requests.
THEOREM NoSessionKilled == Spec => []KillsOnlyReleased
<1>1. IInv => KillsOnlyReleased
  BY DEF IInv, FreshOK, ReleaseOK, KillsOnlyReleased, Launching
<1> QED
  BY <1>1, BindingInit, BindingStep, PTL DEF Spec

\* A stopped, terminated or absent record has no task, a running, idle or stopping
\* one has (the mark* functions under the version-conditioned write).
THEOREM BindingCorrect == Spec => []BindingOK
<1>1. IInv => BindingOK
  BY DEF IInv, BoundOK, Bound, BindingOK
<1> QED
  BY <1>1, BindingInit, BindingStep, PTL DEF Spec
=============================================================================
