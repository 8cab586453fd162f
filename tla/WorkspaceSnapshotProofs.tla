----------------------- MODULE WorkspaceSnapshotProofs -----------------------
(***************************************************************************)
(* The snapshot a record would be woken from exists, and the one a deleted *)
(* workspace would be restored from is tagged against the collector: for   *)
(* every set of workers, as long as none of them restores a chosen         *)
(* snapshot or deletes one from the admin console (those two check and act *)
(* in separate steps, and the code gives no such guarantee for them).      *)
(*                                                                         *)
(* Two numbers carry the argument: snapshots are numbered as they are      *)
(* taken, and a collector spares whatever is above the youngest snapshot   *)
(* that was out of its grace window when it listed the references.  So a   *)
(* snapshot recorded after the listing is above that threshold, and one    *)
(* recorded before it is the reference that was listed.                    *)
(***************************************************************************)
EXTENDS WorkspacePromiseProofs

Unattended == \A w \in Worker : Duty[w] \cap {"restoreSnapshot", "deleteSnapshotById"} = {}

\* The writes that record a snapshot their operation has just taken.
Recording == {"recordSnapshot", "stop", "finishStop", "recordTeardown"}

\* A worker that holds a snapshot it has taken and not recorded yet.
Fresh(r) ==
    /\ r.snap # None
    /\ \/ r.pc \in {"recordSnapshot", "recheck", "kill"}
       \/ r.pc = "commit" /\ r.op \in Recording

\* Where a worker's `snap' may be set: while it holds one, just after it recorded
\* one, and as a collector's threshold.
Pocket(r) ==
    /\ r.snap <= Len(source)
    /\ r.snap # None =>
         \/ r.pc \in {"recordSnapshot", "recheck", "kill", "release", "tearTask", "reap", "collect"}
         \/ r.pc = "commit" /\ r.op \in Recording \cup {"terminate"}

Safe(s) == s = None \/ s \in retained

\* What a worker is about to write references what it read, nothing, or the
\* snapshot it holds; a tombstone references a tagged snapshot.
Careful(r) ==
    /\ r.pc # "adminDelete"
    /\ r.pc = "tearTask" => Safe(r.seen.snap)
    /\ r.pc = "reapSnapshot" => rec.state = Absent /\ rec # NoRecord
    /\ r.pc = "commit" =>
         /\ r.next.snap \in {r.seen.snap, None} \/ (Fresh(r) /\ r.next.snap = r.snap)
         /\ r.next.state = "terminated" => Safe(r.next.snap)
         /\ r.op = "recordTeardown" => Safe(r.next.snap) /\ r.next.snap = r.snap

\* A snapshot that is held exists, and no collector is after it.
Guarded(r) ==
    Fresh(r) /\ rec.state # Absent =>
        /\ r.snap \in snaps
        /\ \A c \in Worker : wk[c].pc \in {"reap", "collect"} => wk[c].snap < r.snap

\* Nor after what the record references.
Sparing(r) ==
    r.pc \in {"reap", "collect"} =>
        rec.snap \in {r.seen.snap} \/ Safe(rec.snap) \/ rec.snap > r.snap

SInv ==
    /\ JInv
    /\ rec = NoRecord => source = <<>>
    /\ rec.state = Absent => rec.snap = None
    /\ SnapshotPresent
    /\ \A v \in Worker : /\ Pocket(wk[v]) /\ Careful(wk[v])
                         /\ Guarded(wk[v]) /\ Sparing(wk[v])

-----------------------------------------------------------------------------
(* Steps that leave the row alone and delete no snapshot. *)

\* A snapshot may be taken once there is a row, and snapshots may be tagged.
Untouched ==
    /\ rec' = rec
    /\ snaps \subseteq snaps' /\ retained \subseteq retained'
    /\ \/ source' = source
       \/ rec # NoRecord /\ \E t : source' = Append(source, t)

\* What the invariant says of one worker.
LEMMA Watch ==
    ASSUME SInv, NEW v \in Worker
    PROVE  /\ JInv /\ TypeOK /\ wk[v] \in WorkerStates /\ wk[v].snap \in Nat
           /\ rec \in Records /\ rec.snap \in Nat /\ Len(source) \in Nat
           /\ source \in Seq(Nat) /\ snaps \subseteq 1..Len(source)
           /\ Pocket(wk[v]) /\ Careful(wk[v]) /\ Guarded(wk[v]) /\ Sparing(wk[v])
<1>1. JInv /\ TypeOK /\ wk[v] \in WorkerStates /\ rec \in Records
  BY Known DEF SInv
<1>2. wk[v].snap \in Nat /\ rec.snap \in Nat
  BY <1>1 DEF WorkerStates, Records
<1>3. Len(source) \in Nat /\ source \in Seq(Nat) /\ snaps \subseteq 1..Len(source)
  BY <1>1 DEF TypeOK
<1>4. Pocket(wk[v]) /\ Careful(wk[v]) /\ Guarded(wk[v]) /\ Sparing(wk[v])
  BY DEF SInv
<1> QED
  BY <1>1, <1>2, <1>3, <1>4

\* One worker moves: it is careful, it holds what it held or a new snapshot, and a
\* collector that begins is not after what the others hold.
LEMMA Moved ==
    ASSUME SInv, JInv', Untouched, NEW w \in Worker, NEW r, wk' = [wk EXCEPT ![w] = r],
           Pocket(r)', Careful(r)',
           Fresh(r) => \/ Fresh(wk[w]) /\ r.snap = wk[w].snap
                       \/ r.snap > Len(source) /\ r.snap \in snaps',
           r.pc \in {"reap", "collect"} =>
               /\ Sparing(r)
               /\ rec.state # Absent => \A v \in Worker : Fresh(wk[v]) => r.snap < wk[v].snap
    PROVE  SInv'
<1>0. /\ TypeOK /\ TypeOK' /\ rec' = rec /\ Len(source) \in Nat /\ Len(source') \in Nat
      /\ snaps \subseteq snaps' /\ retained \subseteq retained'
  <2>1. TypeOK /\ TypeOK'
    BY DEF SInv, JInv, IInv
  <2>2. Len(source) \in Nat /\ Len(source') \in Nat
    BY <2>1 DEF TypeOK
  <2> QED
    BY <2>1, <2>2 DEF Untouched
<1>1. \A v \in Worker : wk'[v] = IF v = w THEN r ELSE wk[v]
  BY <1>0 DEF TypeOK
<1>2. Len(source) <= Len(source')
  <2>1. CASE source' = source
    BY <1>0, <2>1
  <2>2. CASE \E t : source' = Append(source, t)
    BY <1>0, <2>2 DEF TypeOK
  <2> QED
    BY <2>1, <2>2 DEF Untouched
<1>3. \A v \in Worker : wk[v].snap \in Nat /\ wk'[v].snap \in Nat
  BY <1>0 DEF TypeOK, WorkerStates
<1>4. ASSUME NEW v \in Worker
      PROVE  Pocket(wk[v])' /\ Careful(wk[v])'
  <2>1. CASE v = w
    <3>1. wk'[v] = r
      BY <1>1, <2>1
    <3> QED
      BY <3>1 DEF Pocket, Careful, Safe
  <2>2. CASE v # w
    <3>1. wk'[v] = wk[v] /\ Pocket(wk[v]) /\ Careful(wk[v])
      BY <1>1, <1>4, <2>2, Watch
    <3>2. Pocket(wk[v])'
      BY <1>0, <1>2, <1>3, <1>4, <3>1 DEF Pocket
    <3>3. Careful(wk[v])'
      BY <1>0, <3>1 DEF Careful, Safe
    <3> QED
      BY <3>2, <3>3
  <2> QED
    BY <2>1, <2>2
<1>5. ASSUME NEW v \in Worker, Fresh(wk'[v]), rec.state # Absent
      PROVE  /\ wk'[v].snap \in snaps'
             /\ \A c \in Worker : wk'[c].pc \in {"reap", "collect"} => wk'[c].snap < wk'[v].snap
  <2>1. CASE v = w
    <3>1. wk'[v] = r /\ r.pc \notin {"reap", "collect"}
      BY <1>1, <1>5, <2>1 DEF Fresh
    <3>2. CASE Fresh(wk[w]) /\ r.snap = wk[w].snap
      BY <1>0, <1>1, <1>5, <2>1, <3>1, <3>2, Watch DEF Guarded
    <3>3. CASE r.snap > Len(source) /\ r.snap \in snaps'
      <4>1. \A c \in Worker : wk[c].snap <= Len(source)
        BY Watch DEF Pocket
      <4> QED
        BY <1>0, <1>1, <1>3, <1>5, <2>1, <3>1, <3>3, <4>1
    <3> QED
      BY <1>5, <3>1, <3>2, <3>3
  <2>2. CASE v # w
    <3>1. wk'[v] = wk[v] /\ Fresh(wk[v]) /\ Guarded(wk[v])
      BY <1>1, <1>5, <2>2, Watch
    <3> QED
      BY <1>0, <1>1, <1>5, <3>1 DEF Guarded
  <2> QED
    BY <2>1, <2>2
<1>6. ASSUME NEW v \in Worker
      PROVE  Sparing(wk[v])'
  <2>1. CASE v = w
    BY <1>0, <1>1, <2>1 DEF Sparing, Safe
  <2>2. CASE v # w
    BY <1>0, <1>1, <1>6, <2>2, Watch DEF Sparing, Safe
  <2> QED
    BY <2>1, <2>2
<1>7. SnapshotPresent' /\ (rec' = NoRecord => source' = <<>>)
  BY <1>0 DEF SInv, SnapshotPresent, Untouched
<1>8. \A v \in Worker : Guarded(wk[v])'
  BY <1>0, <1>5 DEF Guarded
<1> QED
  BY <1>0, <1>4, <1>6, <1>7, <1>8 DEF SInv

\* Steps at which the invariant says something of the worker.
Watched == {"commit", "tearTask", "reapSnapshot", "adminDelete", "reap", "collect"}

\* A worker with an empty pocket moves to a step where nothing is said of it.
LEMMA PlainMoved ==
    ASSUME SInv, JInv', Untouched, NEW w \in Worker, NEW r, wk' = [wk EXCEPT ![w] = r],
           r.snap = None, r.pc \notin Watched
    PROVE  SInv'
<1>1. Pocket(r)'
  <2>1. Len(source') \in Nat
    BY DEF JInv, IInv, TypeOK
  <2> QED
    BY <2>1 DEF Pocket, None
<1>2. Careful(r)' /\ ~Fresh(r)
  BY DEF Careful, Fresh, Watched
<1> QED
  BY <1>1, <1>2, Moved DEF Watched

\* An operation that ends.
LEMMA DoneMoved ==
    ASSUME SInv, JInv', Untouched, NEW w \in Worker, Done(w)
    PROVE  SInv'
<1>1. PICK r : r = Idle /\ wk' = [wk EXCEPT ![w] = r]
  BY DEF Done, Become
<1>2. r.snap = None /\ r.pc = "idle"
  BY <1>1 DEF Idle
<1> QED
  BY <1>1, <1>2, PlainMoved DEF Watched

\* Most steps find the worker's pocket empty.
LEMMA EmptyPocket ==
    ASSUME SInv, NEW w \in Worker,
           wk[w].pc \notin {"recordSnapshot", "recheck", "kill", "release", "tearTask", "reap",
                            "collect", "commit"}
    PROVE  wk[w].snap = None
BY Watch DEF Pocket

\* So it goes on at another step.
LEMMA GotoMoved ==
    ASSUME SInv, JInv', Untouched, NEW w \in Worker, NEW pc, Goto(w, pc),
           wk[w].snap = None, pc \notin Watched
    PROVE  SInv'
<1>1. PICK r : r = [wk[w] EXCEPT !.pc = pc] /\ wk' = [wk EXCEPT ![w] = r]
  BY DEF Goto
<1>2. r.snap = None /\ r.pc = pc
  BY <1>1, Watch DEF WorkerStates
<1> QED
  BY <1>1, <1>2, PlainMoved

\* The next record references what the last one did, or nothing, and is a tombstone
\* only if the last one was.
Carries(ws, next) ==
    /\ next.snap \in {ws.snap, None}
    /\ next.state = "terminated" => ws.state = "terminated"

\* Or it goes on to write such a record.
LEMMA ProposeMoved ==
    ASSUME SInv, JInv', Untouched, NEW w \in Worker, NEW op, NEW next, Propose(w, op, next),
           op # "recordTeardown", Carries(rec, next), wk[w].snap = None
    PROVE  SInv'
<1>1. PICK r : /\ r = [wk[w] EXCEPT !.pc = "commit", !.op = op, !.seen = rec, !.next = next]
               /\ wk' = [wk EXCEPT ![w] = r]
  BY DEF Propose, Become
<1>2. r.snap = None /\ r.pc = "commit" /\ r.op = op /\ r.seen = rec /\ r.next = next
  BY <1>1, Watch DEF WorkerStates
<1>3. Pocket(r)' /\ ~Fresh(r)
  <2>1. Len(source') \in Nat
    BY DEF JInv, IInv, TypeOK
  <2> QED
    BY <1>2, <2>1 DEF Pocket, Fresh, None
<1>4. rec' = rec /\ (rec.state = "terminated" => Safe(rec.snap)')
  BY DEF SInv, SnapshotPresent, Safe, Untouched
<1>5. Careful(r)'
  BY <1>2, <1>4 DEF Careful, Carries, Safe
<1> QED
  BY <1>1, <1>2, <1>3, <1>5, Moved

\* A wake that is claimed.
LEMMA WakeMoved ==
    ASSUME SInv, JInv', Untouched, NEW w \in Worker, ProposeWake(w)
    PROVE  SInv'
<1>1. PICK r : /\ r = [Idle EXCEPT !.pc = "commit", !.op = "wake", !.wake = TRUE,
                                   !.seen = rec, !.next = MarkWaking(rec)]
               /\ wk' = [wk EXCEPT ![w] = r]
  BY DEF ProposeWake, Become
<1>2. /\ r.snap = None /\ r.pc = "commit" /\ r.op = "wake" /\ r.seen = rec
      /\ r.next = MarkWaking(rec)
  BY <1>1 DEF Idle
<1>3. r.next.snap = rec.snap /\ r.next.state = "provisioning" /\ rec' = rec
  BY <1>2, Watch DEF MarkWaking, Records, Targets, Untouched
<1>4. Pocket(r)' /\ ~Fresh(r)
  <2>1. Len(source') \in Nat
    BY DEF JInv, IInv, TypeOK
  <2> QED
    BY <1>2, <2>1 DEF Pocket, Fresh, None
<1>5. Careful(r)'
  BY <1>2, <1>3 DEF Careful
<1> QED
  BY <1>1, <1>2, <1>4, <1>5, Moved

\* The functions of the core, apart from the ones that record a snapshot and the
\* one that ends a teardown.
LEMMA CarriesOver ==
    ASSUME NEW ws \in Records, NEW id \in Nat, NEW b \in BOOLEAN
    PROVE  /\ Carries(ws, ws)
           /\ Carries(ws, MarkStopping(ws))
           /\ Carries(ws, CancelStopping(ws))
           /\ Carries(ws, MarkStopped(ws, None))
           /\ Carries(ws, MarkProvisioned(ws, id))
           /\ Carries(ws, DeferPlacement(ws))
           /\ Carries(ws, MarkProvisioningFailed(ws))
           /\ Carries(ws, RetryProvisioning(ws))
           /\ Carries(ws, MarkTaskLost(ws))
           /\ Carries(ws, MarkActivity(ws))
           /\ Carries(ws, MarkDeleting(ws))
           /\ Carries(ws, MarkRecovered(ws))
           /\ Carries(ws, MarkSnapshotLost(ws))
           /\ Carries(ws, UndeleteWorkspace(ws))
           /\ Carries(ws, SetShare(ws, b))
           /\ Carries(ws, [ws EXCEPT !.alwaysOn = b])
<1> USE DEF Carries, Records, Targets
<1>1. /\ Carries(ws, ws) /\ Carries(ws, MarkStopping(ws)) /\ Carries(ws, CancelStopping(ws))
      /\ Carries(ws, MarkStopped(ws, None)) /\ Carries(ws, MarkProvisioned(ws, id))
  BY DEF MarkStopping, CancelStopping, MarkStopped, MarkProvisioned
<1>2. /\ Carries(ws, DeferPlacement(ws)) /\ Carries(ws, MarkProvisioningFailed(ws))
      /\ Carries(ws, RetryProvisioning(ws)) /\ Carries(ws, MarkTaskLost(ws))
      /\ Carries(ws, MarkActivity(ws))
  BY DEF DeferPlacement, MarkProvisioningFailed, RetryProvisioning, MarkTaskLost, MarkActivity
<1>3. /\ Carries(ws, MarkDeleting(ws)) /\ Carries(ws, MarkRecovered(ws))
      /\ Carries(ws, MarkSnapshotLost(ws)) /\ Carries(ws, UndeleteWorkspace(ws))
      /\ Carries(ws, SetShare(ws, b)) /\ Carries(ws, [ws EXCEPT !.alwaysOn = b])
  BY DEF MarkDeleting, MarkRecovered, MarkSnapshotLost, UndeleteWorkspace, SetShare
<1> QED
  BY <1>1, <1>2, <1>3

-----------------------------------------------------------------------------
(* The steps themselves. *)

\* Reading keeps everything.
LEMMA ReadsKeep == (ReadOnly \/ LocalOnly) => Untouched
BY DEF ReadOnly, LocalOnly, Untouched, cloud

\* A row is created before any snapshot exists.
LEMMA ReserveKeeps ==
    ASSUME SInv, JInv', NEW w \in Worker, ReserveWorkspace(w)
    PROVE  SInv'
<1>0. /\ TypeOK /\ wk[w] \in WorkerStates /\ wk[w].pc = "idle" /\ wk[w].snap = None
      /\ rec = NoRecord /\ source = <<>> /\ rec' = Reserve
      /\ UNCHANGED <<snaps, source, retained>>
  <2>1. wk[w].pc = "idle" /\ rec = NoRecord /\ rec' = Reserve /\ UNCHANGED <<snaps, source, retained>>
    BY DEF ReserveWorkspace, Request, At, cloud
  <2> QED
    BY <2>1, Watch, EmptyPocket DEF SInv
<1>1. PICK r : r = [wk[w] EXCEPT !.pc = "reserved"] /\ wk' = [wk EXCEPT ![w] = r]
  BY DEF ReserveWorkspace, Goto
<1>2. r.snap = None /\ r.pc = "reserved"
  BY <1>0, <1>1 DEF WorkerStates
<1>3. \A v \in Worker : wk'[v] = IF v = w THEN r ELSE wk[v]
  BY <1>0, <1>1 DEF TypeOK
<1>4. Len(source) = 0 /\ \A v \in Worker : wk[v].snap = None
  <2>1. Len(source) = 0
    BY <1>0
  <2> QED
    BY <2>1, Watch DEF Pocket, None
<1>5. rec'.snap = None /\ rec'.state # Absent /\ rec' # NoRecord
  BY <1>0 DEF Reserve, NoRecord, Absent
<1>6. \A v \in Worker : wk'[v].snap = None
  BY <1>2, <1>3, <1>4
<1>7. ASSUME NEW v \in Worker
      PROVE  Pocket(wk[v])' /\ Careful(wk[v])' /\ Guarded(wk[v])' /\ Sparing(wk[v])'
  <2>1. Pocket(wk[v])' /\ Guarded(wk[v])' /\ Sparing(wk[v])'
    BY <1>0, <1>4, <1>5, <1>6, <1>7 DEF Pocket, Guarded, Fresh, Sparing, Safe, None
  <2>2. Careful(wk[v])'
    <3>1. CASE v = w
      BY <1>2, <1>3, <3>1 DEF Careful
    <3>2. CASE v # w
      <4>1. wk'[v] = wk[v] /\ Careful(wk[v])
        BY <1>3, <1>7, <3>2, Watch
      <4>2. wk[v].pc # "reapSnapshot"
        BY <1>0, <4>1 DEF Careful
      <4> QED
        BY <1>0, <4>1, <4>2 DEF Careful, Safe
    <3> QED
      BY <3>1, <3>2
  <2> QED
    BY <2>1, <2>2
<1> QED
  BY <1>5, <1>7 DEF SInv, SnapshotPresent

\* Client and agent calls.
LEMMA CallKeeps ==
    ASSUME Unattended, SInv, JInv', NEW w \in Worker, Call(w)
    PROVE  SInv'
<1>0. wk[w].pc = "idle"
  BY DEF Call, ReserveWorkspace, Start, Retry, Heartbeat, UpdateSettings, ShareSession,
     Snapshot, RestoreSnapshot, RequestStop, CancelStop, Remove, Undelete, Purge,
     DeleteSnapshotById, Request, At
<1>1. wk[w].snap = None /\ rec \in Records /\ None \in Nat /\ TRUE \in BOOLEAN
  BY <1>0, Watch, EmptyPocket DEF None
<1> USE <1>1
<1>2. CASE ReserveWorkspace(w)
  BY <1>2, ReserveKeeps
<1>3. CASE Start(w)
  BY <1>3, ReadsKeep, WakeMoved DEF Start
<1>4. CASE Retry(w)
  <2>1. \/ Propose(w, "recoverThenStart", MarkRecovered(rec))
        \/ Propose(w, "retry", RetryProvisioning(rec))
    BY <1>4 DEF Retry
  <2> QED
    BY <1>4, <2>1, ReadsKeep, CarriesOver, ProposeMoved DEF Retry
<1>5. CASE Heartbeat(w)
  <2>1. Propose(w, "heartbeat", MarkActivity(rec)) \/ Propose(w, "report", rec)
    BY <1>5 DEF Heartbeat, ProposeBeat
  <2> QED
    BY <1>5, <2>1, ReadsKeep, CarriesOver, ProposeMoved DEF Heartbeat
<1>6. CASE UpdateSettings(w)
  <2>1. PICK b \in BOOLEAN : Propose(w, "settings", [rec EXCEPT !.alwaysOn = b])
    BY <1>6 DEF UpdateSettings
  <2>2. Carries(rec, [rec EXCEPT !.alwaysOn = b])
    BY CarriesOver
  <2> QED
    BY <1>6, <2>1, <2>2, ReadsKeep, ProposeMoved DEF UpdateSettings
<1>7. CASE ShareSession(w)
  <2>1. PICK b \in BOOLEAN : Propose(w, "share", SetShare(rec, b))
    BY <1>7 DEF ShareSession
  <2>2. Carries(rec, SetShare(rec, b))
    BY CarriesOver
  <2> QED
    BY <1>7, <2>1, <2>2, ReadsKeep, ProposeMoved DEF ShareSession
<1>8. CASE Snapshot(w) \/ Purge(w)
  <2>1. PICK pc \in {"snapshotting", "purging"} : Become(w, [Idle EXCEPT !.pc = pc, !.seen = rec])
    BY <1>8 DEF Snapshot, Purge
  <2>2. PICK r : r = [Idle EXCEPT !.pc = pc, !.seen = rec] /\ wk' = [wk EXCEPT ![w] = r]
    BY <2>1 DEF Become
  <2>3. r.snap = None /\ r.pc = pc
    BY <2>2 DEF Idle
  <2> QED
    BY <1>8, <2>1, <2>2, <2>3, ReadsKeep, PlainMoved DEF Snapshot, Purge, Watched
<1>9. ~RestoreSnapshot(w) /\ ~DeleteSnapshotById(w)
  BY DEF Unattended, RestoreSnapshot, DeleteSnapshotById, Request
<1>10. CASE RequestStop(w)
  BY <1>10, ReadsKeep, CarriesOver, ProposeMoved DEF RequestStop
<1>11. CASE CancelStop(w)
  BY <1>11, ReadsKeep, CarriesOver, ProposeMoved DEF CancelStop
<1>12. CASE Remove(w)
  BY <1>12, ReadsKeep, CarriesOver, ProposeMoved DEF Remove
<1>13. CASE Undelete(w)
  BY <1>13, ReadsKeep, CarriesOver, ProposeMoved DEF Undelete
<1> QED
  BY <1>2, <1>3, <1>4, <1>5, <1>6, <1>7, <1>8, <1>9, <1>10, <1>11, <1>12, <1>13 DEF Call

\* Sweeps that pick the record up.
LEMMA PassKeeps ==
    ASSUME SInv, JInv', NEW w \in Worker, Pass(w)
    PROVE  SInv'
<1>0. wk[w].pc = "idle" /\ Untouched
  BY ReadsKeep DEF Pass, Converge, RetryPlacement, FinishStop, ReconcileTaskLoss,
     ListStuckProvisioning, RecoverError, FinishDeleting, ListIdle, ListSnapshotReference,
     ListFleetReferences, Sweep, At
<1>1. /\ wk[w].snap = None /\ rec \in Records /\ None \in Nat /\ TRUE \in BOOLEAN
      /\ TypeOK /\ Len(source) \in Nat
  BY <1>0, Watch, EmptyPocket DEF None
<1> USE <1>0, <1>1
<1>2. CASE RetryPlacement(w)
  <2>1. CASE rec.snap = None
    BY <1>2, <2>1, GotoMoved DEF RetryPlacement, Watched
  <2>2. CASE rec.snap # None
    <3>1. PICK r : /\ r = [Idle EXCEPT !.pc = "launch", !.wake = TRUE, !.seen = rec]
                   /\ wk' = [wk EXCEPT ![w] = r]
      BY <1>2, <2>2 DEF RetryPlacement, Become
    <3>2. r.snap = None /\ r.pc = "launch"
      BY <3>1 DEF Idle
    <3> QED
      BY <3>1, <3>2, PlainMoved DEF Watched
  <2> QED
    BY <2>1, <2>2
<1>3. CASE FinishStop(w) \/ ListSnapshotReference(w)
  <2>1. PICK pc \in {"finalSnapshot", "listedRef"} : Become(w, [Idle EXCEPT !.pc = pc, !.seen = rec])
    BY <1>3 DEF FinishStop, ListSnapshotReference
  <2>2. PICK r : r = [Idle EXCEPT !.pc = pc, !.seen = rec] /\ wk' = [wk EXCEPT ![w] = r]
    BY <2>1 DEF Become
  <2>3. r.snap = None /\ r.pc = pc
    BY <2>2 DEF Idle
  <2> QED
    BY <2>1, <2>2, <2>3, PlainMoved DEF Watched
<1>4. CASE ReconcileTaskLoss(w)
  BY <1>4, CarriesOver, ProposeMoved DEF ReconcileTaskLoss
<1>5. CASE ListStuckProvisioning(w)
  BY <1>5, GotoMoved DEF ListStuckProvisioning, Watched
<1>6. CASE RecoverError(w)
  BY <1>6, CarriesOver, ProposeMoved DEF RecoverError
<1>7. CASE FinishDeleting(w)
  <2>1. PICK pc : pc = RetainFirst(rec)
    OBVIOUS
  <2>2. pc \in {"tearVolume", "tag"} \/ (pc = "tearTask" /\ rec.snap = None)
    BY <2>1 DEF RetainFirst, NeedsFreshTeardownSnapshot
  <2>3. PICK r : r = [Idle EXCEPT !.pc = pc, !.seen = rec] /\ wk' = [wk EXCEPT ![w] = r]
    BY <1>7, <2>1 DEF FinishDeleting, Become
  <2>4. r.snap = None /\ r.pc = pc /\ r.seen = rec
    BY <2>3 DEF Idle
  <2>5. Pocket(r)' /\ Careful(r)' /\ ~Fresh(r)
    <3>1. Len(source') \in Nat
      BY DEF JInv, IInv, TypeOK
    <3> QED
      BY <2>2, <2>4, <3>1 DEF Pocket, Careful, Fresh, Safe, None
  <2> QED
    BY <2>2, <2>3, <2>4, <2>5, Moved
<1>8. CASE ListIdle(w)
  BY <1>8, GotoMoved DEF ListIdle, Watched
<1>9. CASE ListFleetReferences(w)
  <2>1. PICK s : s = OutOfGrace(Len(source), UnrecordedSnapshots)
    OBVIOUS
  <2>2. UnrecordedSnapshots \in SUBSET (Nat \ {0})
    BY UnrecordedType, TypeParts
  <2>3. s \in 0..Len(source) /\ \A id \in UnrecordedSnapshots : s < id
    BY <2>1, <2>2, GraceType
  <2>4. PICK r : /\ r = [Idle EXCEPT !.pc = "reap", !.seen = rec,
                            !.task = OutOfGrace(Len(hydrated), UnrecordedTasks), !.snap = s]
                 /\ wk' = [wk EXCEPT ![w] = r]
    BY <1>9, <2>1 DEF ListFleetReferences, Become
  <2>5. r.pc = "reap" /\ r.seen = rec /\ r.snap = s
    BY <2>4 DEF Idle
  <2>6. \A v \in Worker : Fresh(wk[v]) => wk[v].snap \in UnrecordedSnapshots
    BY DEF Fresh, UnrecordedSnapshots
  <2>7. source' = source
    BY <1>9 DEF ListFleetReferences, ReadOnly, cloud
  <2>8. Pocket(r)' /\ Careful(r)' /\ ~Fresh(r) /\ Sparing(r)
    BY <2>3, <2>5, <2>7 DEF Pocket, Careful, Fresh, Sparing
  <2> QED
    BY <2>3, <2>4, <2>5, <2>6, <2>8, Moved
<1> QED
  BY <1>2, <1>3, <1>4, <1>5, <1>6, <1>7, <1>8, <1>9 DEF Pass, Converge

\* Launches take and record no snapshot.
LEMMA LaunchKeeps ==
    ASSUME SInv, JInv', NEW w \in Worker, Launch(w)
    PROVE  SInv'
<1>0. /\ Untouched
      /\ wk[w].pc \in {"reserved", "restart", "launch", "launched", "compensate", "refused",
                       "launchFailed"}
  BY ReadsKeep DEF Launch, LaunchReserved, StartAfterRecover, RunTask, RunTaskRefused,
     RunTaskFailed, BindTask, Compensate, WaitForCapacity, LaunchFailed, StopTask, At, Untouched,
     cloud
<1>1. /\ wk[w].snap = None /\ rec \in Records /\ None \in Nat /\ TRUE \in BOOLEAN
      /\ wk[w] \in WorkerStates /\ wk[w].task \in Nat
  BY <1>0, Watch, EmptyPocket, WorkerFields DEF None
<1> USE <1>0, <1>1
<1>2. CASE LaunchReserved(w)
  <2>1. CASE Become(w, [Idle EXCEPT !.pc = "launch", !.seen = rec])
    <3>1. PICK r : r = [Idle EXCEPT !.pc = "launch", !.seen = rec] /\ wk' = [wk EXCEPT ![w] = r]
      BY <2>1 DEF Become
    <3>2. r.snap = None /\ r.pc = "launch"
      BY <3>1 DEF Idle
    <3> QED
      BY <3>1, <3>2, PlainMoved DEF Watched
  <2> QED
    BY <1>2, <2>1, DoneMoved DEF LaunchReserved
<1>3. CASE StartAfterRecover(w)
  BY <1>3, WakeMoved, DoneMoved DEF StartAfterRecover
<1>4. CASE RunTask(w)
  <2>1. PICK r : /\ r = [wk[w] EXCEPT !.pc = "launched", !.task = Len(hydrated) + 1]
                 /\ wk' = [wk EXCEPT ![w] = r]
    BY <1>4 DEF RunTask, Become
  <2>2. r.snap = None /\ r.pc = "launched"
    BY <2>1 DEF WorkerStates
  <2> QED
    BY <2>1, <2>2, PlainMoved DEF Watched
<1>5. CASE RunTaskRefused(w)
  BY <1>5, GotoMoved DEF RunTaskRefused, Watched
<1>6. CASE RunTaskFailed(w)
  BY <1>6, GotoMoved DEF RunTaskFailed, Watched
<1>7. CASE BindTask(w)
  <2>1. Carries(rec, MarkProvisioned(rec, wk[w].task))
    BY CarriesOver
  <2>2. CASE Propose(w, "bind", MarkProvisioned(rec, wk[w].task))
    BY <2>1, <2>2, ProposeMoved
  <2> QED
    BY <1>7, <2>2, GotoMoved DEF BindTask, Watched
<1>8. CASE Compensate(w)
  BY <1>8, DoneMoved DEF Compensate
<1>9. CASE WaitForCapacity(w)
  <2>1. CASE Become(w, [wk[w] EXCEPT !.pc = "launchFailed", !.wake = (rec.snap # None)])
    <3>1. PICK r : /\ r = [wk[w] EXCEPT !.pc = "launchFailed", !.wake = (rec.snap # None)]
                   /\ wk' = [wk EXCEPT ![w] = r]
      BY <2>1 DEF Become
    <3>2. r.snap = None /\ r.pc = "launchFailed"
      BY <3>1 DEF WorkerStates
    <3> QED
      BY <3>1, <3>2, PlainMoved DEF Watched
  <2>2. CASE Propose(w, "defer", DeferPlacement(rec))
    BY <2>2, CarriesOver, ProposeMoved
  <2> QED
    BY <1>9, <2>1, <2>2, DoneMoved DEF WaitForCapacity
<1>10. CASE LaunchFailed(w)
  <2>1. CASE Propose(w, "rollback", MarkStopped(rec, None))
    BY <2>1, CarriesOver, ProposeMoved
  <2>2. CASE Propose(w, "fail", MarkProvisioningFailed(rec))
    BY <2>2, CarriesOver, ProposeMoved
  <2> QED
    BY <1>10, <2>1, <2>2, DoneMoved DEF LaunchFailed
<1> QED
  BY <1>2, <1>3, <1>4, <1>5, <1>6, <1>7, <1>8, <1>9, <1>10 DEF Launch

\* A snapshot of the task a worker has seen: it is the youngest, and there is a row.
LEMMA Taken ==
    ASSUME SInv, NEW w \in Worker, ~VolumeGone(wk[w].seen.task), NEW b,
           CreateSnapshot(wk[w].seen.task, b), rec' = rec, NEW s, s = Len(source) + 1
    PROVE  /\ Untouched /\ s \in Nat /\ s # None /\ s > Len(source) /\ s \in snaps'
           /\ s <= Len(source') /\ (b => s \in retained')
<1>1. /\ source \in Seq(Nat) /\ Len(source) \in Nat /\ source' = Append(source, wk[w].seen.task)
      /\ snaps' = snaps \cup {s} /\ retained \subseteq retained' /\ (b => s \in retained')
  BY Watch DEF CreateSnapshot
<1>2. rec # NoRecord
  <2>1. wk[w].seen.task \in live /\ live \subseteq 1..Len(hydrated) /\ Len(hydrated) \in Nat
    BY Watch DEF VolumeGone, TypeOK
  <2>2. wk[w].seen.version \in Nat /\ wk[w].seen.version <= rec.version
        /\ (wk[w].seen.version = rec.version => wk[w].seen.task = rec.task)
    BY Watch, Known DEF Records
  <2> QED
    BY <2>1, <2>2, NoRecordFields DEF None
<1>3. Len(source') = s
  BY <1>1
<1> QED
  BY <1>1, <1>2, <1>3 DEF Untouched, None

\* Reports, snapshots and stops, and the sweeps that recover.
LEMMA StopKeeps ==
    ASSUME SInv, JInv', NEW w \in Worker, StopOrRecover(w)
    PROVE  SInv'
<1>0. /\ rec \in Records /\ None \in Nat /\ TRUE \in BOOLEAN /\ wk[w] \in WorkerStates
      /\ wk[w].seen \in Records /\ wk[w].snap \in Nat /\ Len(source) \in Nat
      /\ wk[w].snap <= Len(source)
  BY Watch, WorkerFields DEF None, Pocket
<1> USE <1>0
<1>1. PICK s : s = Len(source) + 1
  OBVIOUS
<1>2. CASE HeartbeatAgain(w)
  <2>0. Untouched /\ wk[w].snap = None
    BY <1>2, ReadsKeep, EmptyPocket DEF HeartbeatAgain, At
  <2>1. \/ Propose(w, "heartbeat", MarkActivity(rec)) \/ Propose(w, "report", rec) \/ Done(w)
    BY <1>2 DEF HeartbeatAgain, ProposeBeat
  <2> QED
    BY <2>0, <2>1, CarriesOver, ProposeMoved, DoneMoved
<1>3. CASE TakeSnapshot(w) /\ ~VolumeGone(wk[w].seen.task)
  <2>1. CreateSnapshot(wk[w].seen.task, FALSE) /\ rec' = rec
    BY <1>3 DEF TakeSnapshot
  <2>2. /\ Untouched /\ s \in Nat /\ s # None /\ s > Len(source) /\ s \in snaps' /\ s <= Len(source')
    BY <1>1, <1>3, <2>1, Taken
  <2>3. PICK r : /\ r = [wk[w] EXCEPT !.pc = "recordSnapshot", !.snap = s]
                 /\ wk' = [wk EXCEPT ![w] = r]
    BY <1>1, <1>3 DEF TakeSnapshot, Become
  <2>4. r.pc = "recordSnapshot" /\ r.snap = s
    BY <2>3 DEF WorkerStates
  <2>5. Pocket(r)' /\ Careful(r)'
    BY <2>2, <2>4 DEF Pocket, Careful
  <2> QED
    BY <2>2, <2>3, <2>4, <2>5, Moved
<1>4. CASE RecordTaken(w)
  <2>0. Untouched /\ wk[w].pc = "recordSnapshot" /\ source' = source
    BY <1>4, ReadsKeep DEF RecordTaken, LocalOnly, At, cloud
  <2>1. CASE Live(rec) /\ rec.snap = wk[w].seen.snap
    <3>1. PICK next : next = RecordSnapshot(rec, wk[w].snap)
      OBVIOUS
    <3>2. next.snap = wk[w].snap /\ next.state # "terminated"
      BY <2>1, <3>1 DEF RecordSnapshot, Records, Live
    <3>3. PICK r : /\ r = [wk[w] EXCEPT !.pc = "commit", !.op = "recordSnapshot", !.seen = rec,
                                        !.next = next]
                   /\ wk' = [wk EXCEPT ![w] = r]
      BY <1>4, <2>1, <3>1 DEF RecordTaken, Propose, Become
    <3>4. /\ r.pc = "commit" /\ r.op = "recordSnapshot" /\ r.next = next /\ r.snap = wk[w].snap
      BY <3>3 DEF WorkerStates
    <3>5. Pocket(r)' /\ Careful(r)'
      BY <2>0, <3>2, <3>4 DEF Pocket, Careful, Recording, Fresh
    <3>6. Fresh(r) => Fresh(wk[w])
      BY <2>0, <3>4 DEF Fresh
    <3> QED
      BY <2>0, <3>3, <3>4, <3>5, <3>6, Moved
  <2> QED
    BY <1>4, <2>0, <2>1, DoneMoved DEF RecordTaken
<1>5. CASE Stop(w)
  <2>0. Untouched /\ wk[w].snap = None
    BY <1>5, ReadsKeep, EmptyPocket DEF Stop, At
  <2>1. CASE Become(w, [Idle EXCEPT !.pc = "stopSnapshot", !.seen = rec, !.task = rec.task])
    <3>1. PICK r : /\ r = [Idle EXCEPT !.pc = "stopSnapshot", !.seen = rec, !.task = rec.task]
                   /\ wk' = [wk EXCEPT ![w] = r]
      BY <2>1 DEF Become
    <3>2. r.snap = None /\ r.pc = "stopSnapshot"
      BY <3>1 DEF Idle
    <3> QED
      BY <2>0, <3>1, <3>2, PlainMoved DEF Watched
  <2>2. CASE Propose(w, "stop", MarkStopped(rec, None))
    BY <2>0, <2>2, CarriesOver, ProposeMoved
  <2> QED
    BY <1>5, <2>0, <2>1, <2>2, DoneMoved DEF Stop
<1>6. CASE StopSnapshot(w) /\ ~VolumeGone(wk[w].seen.task)
  <2>1. CreateSnapshot(wk[w].seen.task, FALSE) /\ rec' = rec
    BY <1>6 DEF StopSnapshot
  <2>2. /\ Untouched /\ s \in Nat /\ s # None /\ s > Len(source) /\ s \in snaps' /\ s <= Len(source')
    BY <1>1, <1>6, <2>1, Taken
  <2>3. PICK next : next = MarkStopped(wk[w].seen, s)
    OBVIOUS
  <2>4. next.snap = s /\ next.state = "stopped"
    BY <2>2, <2>3 DEF MarkStopped, Records, Targets
  <2>5. PICK r : /\ r = [wk[w] EXCEPT !.pc = "commit", !.op = "stop", !.snap = s, !.next = next]
                 /\ wk' = [wk EXCEPT ![w] = r]
    BY <1>1, <1>6, <2>3 DEF StopSnapshot, Become
  <2>6. r.pc = "commit" /\ r.op = "stop" /\ r.snap = s /\ r.next = next
    BY <2>5 DEF WorkerStates
  <2>7. Pocket(r)' /\ Careful(r)'
    BY <2>2, <2>4, <2>6 DEF Pocket, Careful, Fresh, Recording
  <2> QED
    BY <2>2, <2>5, <2>6, <2>7, Moved
<1>7. CASE ReleaseTask(w)
  BY <1>7, DoneMoved DEF ReleaseTask, StopTask, Untouched, cloud
<1>8. CASE FinalSnapshot(w) /\ ~VolumeGone(wk[w].seen.task)
  <2>1. CreateSnapshot(wk[w].seen.task, FALSE) /\ rec' = rec
    BY <1>8 DEF FinalSnapshot
  <2>2. /\ Untouched /\ s \in Nat /\ s # None /\ s > Len(source) /\ s \in snaps' /\ s <= Len(source')
    BY <1>1, <1>8, <2>1, Taken
  <2>3. PICK r : /\ r = [wk[w] EXCEPT !.pc = "recheck", !.snap = s]
                 /\ wk' = [wk EXCEPT ![w] = r]
    BY <1>1, <1>8 DEF FinalSnapshot, Become
  <2>4. r.pc = "recheck" /\ r.snap = s
    BY <2>3 DEF WorkerStates
  <2>5. Pocket(r)' /\ Careful(r)'
    BY <2>2, <2>4 DEF Pocket, Careful
  <2> QED
    BY <2>2, <2>3, <2>4, <2>5, Moved
<1>9. CASE FinalSnapshot(w) /\ VolumeGone(wk[w].seen.task)
  <2>1. Untouched /\ wk[w].snap = None /\ Goto(w, "recheck")
    BY <1>9, EmptyPocket DEF FinalSnapshot, At, Untouched, cloud
  <2> QED
    BY <2>1, GotoMoved DEF Watched
<1>10. CASE (TakeSnapshot(w) \/ StopSnapshot(w)) /\ VolumeGone(wk[w].seen.task)
  BY <1>10, DoneMoved DEF TakeSnapshot, StopSnapshot, Untouched, cloud
<1>11. CASE RecheckStopping(w)
  <2>0. Untouched /\ wk[w].pc = "recheck" /\ source' = source
    BY <1>11, ReadsKeep DEF RecheckStopping, LocalOnly, At, cloud
  <2>1. CASE rec.state = "stopping"
    <3>1. PICK r : /\ r = [wk[w] EXCEPT !.pc = "kill", !.seen = rec, !.task = rec.task]
                   /\ wk' = [wk EXCEPT ![w] = r]
      BY <1>11, <2>1 DEF RecheckStopping, Become
    <3>2. r.pc = "kill" /\ r.snap = wk[w].snap
      BY <3>1 DEF WorkerStates
    <3>3. Pocket(r)' /\ Careful(r)' /\ (Fresh(r) => Fresh(wk[w]))
      BY <2>0, <3>2 DEF Pocket, Careful, Fresh
    <3> QED
      BY <2>0, <3>1, <3>2, <3>3, Moved
  <2> QED
    BY <1>11, <2>0, <2>1, DoneMoved DEF RecheckStopping
<1>12. CASE KillStopping(w)
  <2>0. Untouched /\ wk[w].pc = "kill" /\ source' = source
    BY <1>12 DEF KillStopping, StopTask, At, Untouched, cloud
  <2>1. PICK next : next = MarkStopped(wk[w].seen, wk[w].snap)
    OBVIOUS
  <2>2. /\ next.snap = wk[w].snap \/ (wk[w].snap = None /\ next.snap = wk[w].seen.snap)
        /\ next.state = "stopped"
    BY <2>1 DEF MarkStopped, Records, Targets
  <2>3. CASE Become(w, [wk[w] EXCEPT !.pc = "commit", !.op = "finishStop",
                                     !.next = MarkStopped(wk[w].seen, wk[w].snap)])
    <3>1. PICK r : /\ r = [wk[w] EXCEPT !.pc = "commit", !.op = "finishStop", !.next = next]
                   /\ wk' = [wk EXCEPT ![w] = r]
      BY <2>1, <2>3 DEF Become
    <3>2. /\ r.pc = "commit" /\ r.op = "finishStop" /\ r.snap = wk[w].snap
          /\ r.next = next /\ r.seen = wk[w].seen
      BY <3>1 DEF WorkerStates
    <3>3. Pocket(r)' /\ Careful(r)' /\ (Fresh(r) => Fresh(wk[w]))
      BY <2>0, <2>2, <3>2 DEF Pocket, Careful, Fresh, Recording
    <3> QED
      BY <2>0, <3>1, <3>2, <3>3, Moved
  <2> QED
    BY <1>12, <2>0, <2>3, DoneMoved DEF KillStopping
<1>13. CASE RecoverStuckProvisioning(w)
  <2>0. Untouched /\ wk[w].snap = None
    BY <1>13, ReadsKeep, EmptyPocket DEF RecoverStuckProvisioning, At
  <2>1. \/ Propose(w, "fail", MarkProvisioningFailed(rec))
        \/ Propose(w, "rollback", MarkStopped(rec, None)) \/ Done(w)
    BY <1>13 DEF RecoverStuckProvisioning
  <2> QED
    BY <2>0, <2>1, CarriesOver, ProposeMoved, DoneMoved
<1>14. CASE CompareSnapshots(w)
  <2>0. Untouched /\ wk[w].snap = None
    BY <1>14, ReadsKeep, EmptyPocket DEF CompareSnapshots, At
  <2> QED
    BY <1>14, <2>0, GotoMoved, DoneMoved DEF CompareSnapshots, Watched
<1>15. CASE MarkSnapshotLostFor(w)
  <2>0. Untouched /\ wk[w].snap = None
    BY <1>15, ReadsKeep, EmptyPocket DEF MarkSnapshotLostFor, At
  <2>1. Propose(w, "snapshotLost", MarkSnapshotLost(rec)) \/ Done(w)
    BY <1>15 DEF MarkSnapshotLostFor
  <2> QED
    BY <2>0, <2>1, CarriesOver, ProposeMoved, DoneMoved
<1> QED
  BY <1>2, <1>3, <1>4, <1>5, <1>6, <1>7, <1>8, <1>9, <1>10, <1>11, <1>12, <1>13, <1>14, <1>15
     DEF StopOrRecover

-----------------------------------------------------------------------------
(* Teardowns, collectors and the writes. *)

\* Once the row is gone nothing references a snapshot any more.
LEMMA RowGone ==
    ASSUME SInv, JInv', NEW w \in Worker, NEW r, wk' = [wk EXCEPT ![w] = r],
           r.snap = None, r.pc \in {"idle", "reapSnapshot"},
           rec'.state = Absent, rec' # NoRecord, rec'.snap = None,
           source' = source, retained' = retained
    PROVE  SInv'
<1>0. TypeOK /\ Len(source) \in Nat
  BY Watch
<1>1. \A v \in Worker : wk'[v] = IF v = w THEN r ELSE wk[v]
  BY <1>0 DEF TypeOK
<1>2. ASSUME NEW v \in Worker
      PROVE  Pocket(wk[v])' /\ Careful(wk[v])' /\ Guarded(wk[v])' /\ Sparing(wk[v])'
  <2>1. CASE v = w
    BY <1>0, <1>1, <2>1 DEF Pocket, Careful, Guarded, Sparing, Fresh, Safe, None
  <2>2. CASE v # w
    <3>1. wk'[v] = wk[v] /\ Pocket(wk[v]) /\ Careful(wk[v])
      BY <1>1, <1>2, <2>2, Watch
    <3> QED
      BY <3>1 DEF Pocket, Careful, Guarded, Sparing, Safe
  <2> QED
    BY <2>1, <2>2
<1> QED
  BY <1>2 DEF SInv, SnapshotPresent

\* The collector deletes no snapshot that is referenced or held.
LEMMA CollectKeeps ==
    ASSUME SInv, JInv', NEW w \in Worker, CollectGarbage(w)
    PROVE  SInv'
<1>0. /\ TypeOK /\ wk[w].pc = "collect" /\ rec' = rec /\ source' = source /\ retained' = retained
      /\ snaps' = snaps \ OrphanSnapshots(w) /\ Len(source) \in Nat
      /\ wk[w].snap \in Nat /\ rec.snap \in Nat
  BY Watch DEF CollectGarbage, At
<1>1. PICK r : r = Idle /\ wk' = [wk EXCEPT ![w] = r]
  BY DEF CollectGarbage, Done, Become
<1>2. r.snap = None /\ r.pc = "idle"
  BY <1>1 DEF Idle
<1>3. \A v \in Worker : wk'[v] = IF v = w THEN r ELSE wk[v]
  BY <1>0, <1>1 DEF TypeOK
<1>4. SnapshotPresent'
  <2>1. SnapshotPresent /\ Sparing(wk[w])
    BY Watch DEF SInv
  <2> QED
    BY <1>0, <2>1 DEF SnapshotPresent, Sparing, Safe, OrphanSnapshots
<1>5. ASSUME NEW v \in Worker
      PROVE  Pocket(wk[v])' /\ Careful(wk[v])' /\ Guarded(wk[v])' /\ Sparing(wk[v])'
  <2>1. CASE v = w
    BY <1>0, <1>2, <1>3, <2>1 DEF Pocket, Careful, Guarded, Sparing, Fresh, None
  <2>2. CASE v # w
    <3>1. /\ wk'[v] = wk[v] /\ Pocket(wk[v]) /\ Careful(wk[v]) /\ Guarded(wk[v])
          /\ Sparing(wk[v]) /\ wk[v].snap \in Nat
      BY <1>3, <1>5, <2>2, Watch
    <3>2. Pocket(wk[v])' /\ Careful(wk[v])' /\ Sparing(wk[v])'
      BY <1>0, <3>1 DEF Pocket, Careful, Sparing, Safe
    <3>3. Fresh(wk[v]) /\ rec.state # Absent =>
             wk[v].snap \in snaps /\ wk[w].snap < wk[v].snap
      BY <1>0, <3>1 DEF Guarded
    <3>4. Guarded(wk[v])'
      BY <1>0, <1>2, <1>3, <3>1, <3>3 DEF Guarded, OrphanSnapshots
    <3> QED
      BY <3>2, <3>4
  <2> QED
    BY <2>1, <2>2
<1> QED
  BY <1>0, <1>4, <1>5 DEF SInv

\* The steps of a teardown, of a purge and of the reapers.
LEMMA TeardownKeeps ==
    ASSUME SInv, JInv', NEW w \in Worker, TeardownOrReap(w)
    PROVE  SInv'
<1>0. /\ wk[w] \in WorkerStates /\ wk[w].seen \in Records /\ wk[w].snap \in Nat
      /\ Len(source) \in Nat /\ wk[w].snap <= Len(source) /\ rec \in Records
      /\ Careful(wk[w]) /\ Honest(wk[w])
  BY Watch, WorkerFields, Known DEF Pocket
<1> USE <1>0
<1>1. PICK s : s = Len(source) + 1
  OBVIOUS
<1>2. CASE TeardownSnapshot(w) /\ ~VolumeGone(wk[w].seen.task)
  <2>1. CreateSnapshot(wk[w].seen.task, TRUE) /\ rec' = rec /\ wk[w].seen.state = "deleting"
    BY <1>2 DEF TeardownSnapshot, At, Honest, Knows
  <2>2. /\ Untouched /\ s \in Nat /\ s # None /\ s > Len(source) /\ s \in snaps' /\ s <= Len(source')
        /\ s \in retained'
    BY <1>1, <1>2, <2>1, Taken
  <2>3. PICK next : next = RecordSnapshot(wk[w].seen, s)
    OBVIOUS
  <2>4. next.snap = s /\ next.state = "deleting"
    BY <2>1, <2>3 DEF RecordSnapshot, Records
  <2>5. PICK r : /\ r = [wk[w] EXCEPT !.pc = "commit", !.op = "recordTeardown", !.snap = s,
                                      !.next = next]
                 /\ wk' = [wk EXCEPT ![w] = r]
    BY <1>1, <1>2, <2>3 DEF TeardownSnapshot, Become
  <2>6. r.pc = "commit" /\ r.op = "recordTeardown" /\ r.snap = s /\ r.next = next
    BY <2>5 DEF WorkerStates
  <2>7. Pocket(r)' /\ Careful(r)'
    BY <2>2, <2>4, <2>6 DEF Pocket, Careful, Fresh, Recording, Safe
  <2> QED
    BY <2>2, <2>5, <2>6, <2>7, Moved
<1>3. CASE TeardownSnapshot(w) /\ VolumeGone(wk[w].seen.task)
  BY <1>3, DoneMoved DEF TeardownSnapshot, Untouched, cloud
<1>4. CASE TagRetained(w)
  <2>0. Untouched /\ wk[w].snap = None /\ source' = source
    BY <1>4, EmptyPocket DEF TagRetained, At, Untouched
  <2>1. CASE wk[w].seen.snap \in snaps
    <3>1. PICK r : r = [wk[w] EXCEPT !.pc = "tearTask"] /\ wk' = [wk EXCEPT ![w] = r]
      BY <1>4, <2>1 DEF TagRetained, Goto
    <3>2. r.pc = "tearTask" /\ r.snap = None /\ r.seen = wk[w].seen
      BY <2>0, <3>1 DEF WorkerStates
    <3>3. Pocket(r)' /\ Careful(r)' /\ ~Fresh(r)
      BY <1>4, <2>0, <2>1, <3>2 DEF Pocket, Careful, Fresh, Safe, TagRetained, None
    <3> QED
      BY <2>0, <3>1, <3>2, <3>3, Moved
  <2> QED
    BY <1>4, <2>0, <2>1, DoneMoved DEF TagRetained
<1>5. CASE TeardownTask(w)
  <2>0. Untouched /\ wk[w].pc = "tearTask" /\ source' = source /\ retained' = retained
    BY <1>5 DEF TeardownTask, StopTask, At, Untouched, cloud
  <2>1. PICK next : next = MarkTerminated(wk[w].seen)
    OBVIOUS
  <2>2. next.snap = wk[w].seen.snap /\ Safe(next.snap)
    BY <2>0, <2>1 DEF MarkTerminated, Records, Careful
  <2>3. PICK r : /\ r = [wk[w] EXCEPT !.pc = "commit", !.op = "terminate", !.next = next]
                 /\ wk' = [wk EXCEPT ![w] = r]
    BY <1>5, <2>1 DEF TeardownTask, Become
  <2>4. /\ r.pc = "commit" /\ r.op = "terminate" /\ r.snap = wk[w].snap
        /\ r.seen = wk[w].seen /\ r.next = next
    BY <2>3 DEF WorkerStates
  <2>5. Pocket(r)' /\ Careful(r)' /\ ~Fresh(r)
    BY <2>0, <2>2, <2>4 DEF Pocket, Careful, Fresh, Recording, Safe
  <2> QED
    BY <2>0, <2>3, <2>4, <2>5, Moved
<1>6. CASE PurgeTombstoneRecord(w) /\ Unchanged(w)
  <2>1. /\ rec' = [NoRecord EXCEPT !.version = rec.version + 1]
        /\ wk[w].pc = "purging" /\ source' = source /\ retained' = retained
    BY <1>6 DEF PurgeTombstoneRecord, RemoveThenReap, At
  <2>2. rec'.state = Absent /\ rec'.snap = None /\ rec' # NoRecord
    <3>1. rec.version \in Nat
      BY Watch DEF Records
    <3>2. rec'.state = Absent /\ rec'.snap = None /\ rec'.version = rec.version + 1
      BY <2>1 DEF NoRecord, Reserve
    <3>3. NoRecord.version = 0
      BY DEF NoRecord, Reserve
    <3> QED
      BY <3>1, <3>2, <3>3
  <2>3. PICK r : r = [wk[w] EXCEPT !.pc = "reapSnapshot"] /\ wk' = [wk EXCEPT ![w] = r]
    BY <1>6 DEF PurgeTombstoneRecord, RemoveThenReap, Goto
  <2>4. r.pc = "reapSnapshot" /\ r.snap = None
    BY <2>1, <2>3, EmptyPocket DEF WorkerStates
  <2> QED
    BY <2>1, <2>2, <2>3, <2>4, RowGone
<1>7. CASE PurgeTombstoneRecord(w) /\ ~Unchanged(w)
  BY <1>7, DoneMoved DEF PurgeTombstoneRecord, RemoveThenReap, Untouched
<1>8. CASE ReapSnapshot(w)
  <2>1. /\ rec.state = Absent /\ rec # NoRecord /\ rec' = rec /\ rec.snap = None
        /\ source' = source /\ retained' = retained
    BY <1>8 DEF ReapSnapshot, DeleteSnapshot, At, Careful, SInv
  <2>2. PICK r : r = Idle /\ wk' = [wk EXCEPT ![w] = r]
    BY <1>8 DEF ReapSnapshot, Done, Become
  <2>3. r.pc = "idle" /\ r.snap = None
    BY <2>2 DEF Idle
  <2> QED
    BY <2>1, <2>2, <2>3, RowGone
<1>9. CASE AdminDelete(w)
  BY <1>9 DEF AdminDelete, At, Careful
<1>10. CASE ReapOrphanTasks(w)
  <2>0. Untouched /\ wk[w].pc = "reap" /\ source' = source
    BY <1>10 DEF ReapOrphanTasks, At, Untouched
  <2>1. PICK r : r = [wk[w] EXCEPT !.pc = "collect"] /\ wk' = [wk EXCEPT ![w] = r]
    BY <1>10 DEF ReapOrphanTasks, Goto
  <2>2. r.pc = "collect" /\ r.snap = wk[w].snap /\ r.seen = wk[w].seen
    BY <2>1 DEF WorkerStates
  <2>3. Pocket(r)' /\ Careful(r)' /\ ~Fresh(r)
    BY <2>0, <2>2 DEF Pocket, Careful, Fresh
  <2>4. Sparing(r) /\ (rec.state # Absent => \A v \in Worker : Fresh(wk[v]) => r.snap < wk[v].snap)
    BY <2>0, <2>2, Watch DEF Sparing, Guarded
  <2> QED
    BY <2>0, <2>1, <2>3, <2>4, Moved
<1>11. CASE CollectGarbage(w)
  BY <1>11, CollectKeeps
<1> QED
  BY <1>2, <1>3, <1>4, <1>5, <1>6, <1>7, <1>8, <1>9, <1>10, <1>11 DEF TeardownOrReap

\* A write that wins.
LEMMA CommitKeeps ==
    ASSUME SInv, JInv', NEW w \in Worker, Commit(w)
    PROVE  SInv'
<1>0. /\ TypeOK /\ wk[w] \in WorkerStates /\ wk[w].next \in Records /\ rec \in Records
      /\ wk[w].seen = rec /\ Justified(wk[w]) /\ wk[w].snap \in Nat /\ rec.version \in Nat
      /\ Pocket(wk[w]) /\ Careful(wk[w]) /\ Guarded(wk[w]) /\ Len(source) \in Nat
  <2>1. wk[w].seen = rec /\ Justified(wk[w])
    BY CommitPromise DEF SInv, JInv
  <2> QED
    BY <2>1, Watch DEF WorkerStates, Records
<1>1. /\ wk[w].pc = "commit" /\ rec.state # Absent /\ rec' = Written(w)
      /\ UNCHANGED <<snaps, source, retained>>
  BY DEF Commit, At, WriteWins, Unchanged, cloud
<1>2. /\ rec'.version = rec.version + 1 /\ rec'.state = wk[w].next.state
      /\ rec'.snap = wk[w].next.snap
  BY <1>0, <1>1 DEF Written, Records
<1>3. PICK r : /\ wk' = [wk EXCEPT ![w] = r]
               /\ \/ r = Idle
                  \/ /\ AfterWrite(wk[w].op) # "idle"
                     /\ r = [wk[w] EXCEPT
                               !.pc = AfterWrite(wk[w].op), !.op = "none",
                               !.seen = IF wk[w].op \in {"wake", "stop"} THEN @ ELSE Written(w),
                               !.next = NoRecord]
  BY DEF Commit, Become, Done
<1>4. /\ r.pc \in {"idle", "launch", "reserved", "restart", "release", "tearTask"}
      /\ r.pc = "tearTask" => wk[w].op = "recordTeardown" /\ r.seen = rec'
      /\ r.pc \in {"idle", "launch", "reserved", "restart"} => r.snap = None
      /\ r.snap \in {None, wk[w].snap}
  <2>1. Idle.pc = "idle" /\ Idle.snap = None
    BY DEF Idle
  <2>2. CASE r = Idle
    BY <2>1, <2>2
  <2>3. CASE r # Idle
    BY <1>0, <1>1, <1>3, <2>3 DEF AfterWrite, WorkerStates, Pocket, Recording
  <2> QED
    BY <2>2, <2>3
<1>5. \A v \in Worker : wk'[v] = IF v = w THEN r ELSE wk[v]
  BY <1>0, <1>3 DEF TypeOK
<1>6. \/ rec'.snap \in {rec.snap, None}
      \/ Fresh(wk[w]) /\ rec'.snap = wk[w].snap
  BY <1>0, <1>1, <1>2 DEF Careful
<1>7. SnapshotPresent'
  <2>1. SnapshotPresent
    BY DEF SInv
  <2>2. rec'.snap # None => rec'.snap \in snaps
    BY <1>0, <1>1, <1>6, <2>1 DEF SnapshotPresent, Guarded
  <2>3. rec'.state = "terminated" => Safe(rec'.snap)
    BY <1>0, <1>1, <1>2 DEF Careful
  <2> QED
    BY <1>1, <2>2, <2>3 DEF SnapshotPresent, Safe
<1>8. rec' # NoRecord /\ (rec'.state = Absent => rec'.snap = None)
  <2>1. rec' # NoRecord
    BY <1>0, <1>2, NoRecordFields
  <2>2. PhaseOf(rec) # "none"
    BY <1>0, <1>1 DEF PhaseOf, Live, Records, WorkspaceStates, Absent
  <2>3. ASSUME rec'.state = Absent
        PROVE  wk[w].next.snap = None
    <3>1. PhaseOf(wk[w].next) = "none"
      BY <1>2, <2>3 DEF PhaseOf, Live, Absent
    <3>2. Lawful(rec, wk[w].next)
      BY <1>0, <1>1 DEF Justified
    <3> QED
      BY <2>2, <3>1, <3>2 DEF Lawful, Edge
  <2> QED
    BY <1>2, <2>1, <2>3
<1>9. ASSUME NEW v \in Worker
      PROVE  Pocket(wk[v])' /\ Careful(wk[v])' /\ Guarded(wk[v])' /\ Sparing(wk[v])'
  <2>1. CASE v = w
    <3>1. wk'[v] = r
      BY <1>5, <2>1
    <3>2. Pocket(wk[v])'
      BY <1>0, <1>1, <1>4, <3>1 DEF Pocket, None
    <3>3. Careful(wk[v])'
      BY <1>0, <1>1, <1>2, <1>4, <3>1 DEF Careful, Safe
    <3> QED
      BY <1>4, <3>1, <3>2, <3>3 DEF Guarded, Sparing, Fresh
  <2>2. CASE v # w
    <3>1. /\ wk'[v] = wk[v] /\ Pocket(wk[v]) /\ Careful(wk[v]) /\ Guarded(wk[v])
          /\ Sparing(wk[v])
      BY <1>5, <1>9, <2>2, Watch
    <3>2. Pocket(wk[v])' /\ Careful(wk[v])'
      BY <1>1, <3>1 DEF Pocket, Careful, Safe
    <3>3. Guarded(wk[v])'
      BY <1>1, <1>4, <1>5, <3>1 DEF Guarded
    <3>4. Sparing(wk[v])'
      BY <1>0, <1>1, <1>6, <1>9, <3>1 DEF Sparing, Guarded, Safe
    <3> QED
      BY <3>2, <3>3, <3>4
  <2> QED
    BY <2>1, <2>2
<1> QED
  BY <1>7, <1>8, <1>9 DEF SInv

\* A write that loses.
LEMMA ConflictKeeps ==
    ASSUME SInv, JInv', NEW w \in Worker, Conflict(w)
    PROVE  SInv'
<1>0. /\ wk[w] \in WorkerStates /\ wk[w].pc = "commit" /\ Untouched /\ source' = source
      /\ Pocket(wk[w])
  BY Watch, ReadsKeep DEF Conflict, LocalOnly, At, cloud
<1>1. CASE AfterConflict(wk[w].op, wk[w].tries) = "idle"
  BY <1>0, <1>1, DoneMoved DEF Conflict
<1>2. CASE AfterConflict(wk[w].op, wk[w].tries) # "idle"
  <2>1. PICK pc \in {"compensate", "beat", "recordSnapshot"} :
           /\ pc = AfterConflict(wk[w].op, wk[w].tries)
           /\ pc \in {"compensate", "beat"} => wk[w].op \notin Recording \cup {"terminate"}
           /\ pc = "recordSnapshot" => wk[w].op = "recordSnapshot"
    BY <1>2 DEF AfterConflict, Recording
  <2>2. PICK r : /\ r = [wk[w] EXCEPT !.pc = pc, !.tries = 1, !.next = NoRecord]
                 /\ wk' = [wk EXCEPT ![w] = r]
    BY <1>2, <2>1 DEF Conflict, Become
  <2>3. r.pc = pc /\ r.snap = wk[w].snap
    BY <1>0, <2>2 DEF WorkerStates
  <2>4. Pocket(r)' /\ Careful(r)' /\ (Fresh(r) => Fresh(wk[w]))
    BY <1>0, <2>1, <2>3 DEF Pocket, Careful, Fresh, Recording
  <2> QED
    BY <1>0, <2>1, <2>2, <2>3, <2>4, Moved
<1> QED
  BY <1>1, <1>2

\* Every step keeps the invariant.
LEMMA SnapshotStep == Unattended /\ SInv /\ [Next]_vars => SInv'
<1> SUFFICES ASSUME Unattended, SInv, [Next]_vars
             PROVE  SInv'
  OBVIOUS
<1>0. JInv'
  BY PromiseStep DEF SInv
<1>1. ASSUME NEW w \in Worker, Proceed(w)
      PROVE  SInv'
  BY <1>0, <1>1, CommitKeeps, ConflictKeeps, LaunchKeeps, StopKeeps, TeardownKeeps
     DEF Proceed, Launch, StopOrRecover, TeardownOrReap
<1>2. ASSUME NEW w \in Worker, Crash(w)
      PROVE  SInv'
  BY <1>0, <1>2, DoneMoved DEF Crash, Untouched, cloud
<1>3. CASE BecomeQuiet \/ TaskDies \/ UNCHANGED vars
  <2>1. rec' = rec /\ wk' = wk /\ snaps' = snaps /\ source' = source /\ retained' = retained
    BY <1>3 DEF BecomeQuiet, TaskDies, StopTask, vars, cloud
  <2> QED
    BY <1>0, <2>1 DEF SInv, SnapshotPresent, Pocket, Careful, Guarded, Sparing, Safe
<1> QED
  BY <1>0, <1>1, <1>2, <1>3, CallKeeps, PassKeeps DEF Next

\* It holds when nothing has been created yet.
LEMMA SnapshotInit == Init => SInv
<1> SUFFICES ASSUME Init
             PROVE  SInv
  OBVIOUS
<1>1. JInv
  BY PromiseInit
<1>2. rec = NoRecord /\ source = <<>> /\ \A v \in Worker : wk[v] = Idle
  BY DEF Init
<1>3. NoRecord.snap = None /\ Idle.pc = "idle" /\ Idle.snap = None /\ Len(source) = 0
  BY <1>2 DEF NoRecord, Reserve, Idle
<1>4. Pocket(Idle) /\ Careful(Idle) /\ Guarded(Idle) /\ Sparing(Idle)
  BY <1>3 DEF Pocket, Careful, Guarded, Sparing, Fresh, None
<1> QED
  BY <1>1, <1>2, <1>3, <1>4 DEF SInv, SnapshotPresent

\* The snapshot a record would be woken or restored from exists, whatever collectors,
\* purges, stops and teardowns interleave (collectGarbage, purgeTombstoneRecord and
\* finishDeleting), unless an owner restores a chosen snapshot or an admin deletes one.
THEOREM SnapshotIsPresent == Unattended => (Spec => []SnapshotPresent)
<1> SUFFICES ASSUME Unattended
             PROVE  Spec => []SnapshotPresent
  OBVIOUS
<1>1. Init => SInv
  BY SnapshotInit
<1>2. SInv /\ [Next]_vars => SInv'
  BY SnapshotStep
<1>3. SInv => SnapshotPresent
  BY DEF SInv
<1> QED
  BY <1>1, <1>2, <1>3, PTL DEF Spec
=============================================================================
