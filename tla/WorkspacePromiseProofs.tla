----------------------- MODULE WorkspacePromiseProofs -----------------------
(***************************************************************************)
(* WorkspaceService implements SessionPromise, an idle stop that can still *)
(* win is justified, stops and teardowns keep the work, and the reaper     *)
(* spares the bound task - for every set of workers, duties and budgets.   *)
(*                                                                         *)
(* All of it rests on the version-conditioned write: a record a worker has *)
(* read either is out of date or IS the row (Current), so whatever was     *)
(* true of what it read is true of the row when its write wins.  Honest    *)
(* says what each operation knows of the record it read and of the record  *)
(* it is about to write; Graced says what a reaper knows of younger tasks. *)
(***************************************************************************)
EXTENDS WorkspaceBindingProofs

\* The edges of SessionPromise!Change and the stutter, from phase p to phase q;
\* s and t say whether the work is saved before and after.
Edge(p, s, q, t) ==
    \/ p = q /\ (s <=> t)
    \/ p = "none" /\ q = "starting" /\ ~t
    \/ p = "off" /\ q = "starting" /\ s /\ t
    \/ p = "broken" /\ q = "starting" /\ ~s /\ ~t
    \/ p = "starting" /\ q = "on" /\ (s <=> t)
    \/ p \in {"starting", "saving"} /\ q = "off" /\ (s => t)
    \/ p \in {"starting", "on", "saving", "off"} /\ q = "broken" /\ (s <=> t)
    \/ p = "on" /\ q = "off" /\ t
    \/ p = "on" /\ q = "saving" /\ (s <=> t)
    \/ p = "saving" /\ q = "on" /\ (s <=> t)
    \/ p \in {"on", "off", "going"} /\ q = p /\ t
    \/ p \in {"off", "broken"} /\ q = "broken" /\ s /\ ~t
    \/ p = "broken" /\ q = "off" /\ s /\ t
    \/ p \in {"starting", "on", "saving", "off", "broken"} /\ q = "going" /\ (s <=> t)
    \/ p = "going" /\ q = "bin" /\ (s <=> t)
    \/ p = "bin" /\ q = "off" /\ s /\ t
    \/ p = "bin" /\ q = "none" /\ ~t

Lawful(ws, next) == Edge(PhaseOf(ws), ws.snap # None, PhaseOf(next), next.snap # None)

\* Snapshot s is a copy of the volume of task t.
Copy(s, t) == s \in 1..Len(source) /\ source[s] = t

\* `captured' is only ever set on a tombstone, and says what it is read to say.
Captured(ws) ==
    ws.captured => /\ ws.state \in {"deleting", "terminated"}
                   /\ ws.task # None => Copy(ws.snap, ws.task)

\* A record that was read is out of date, or is the row.
Current(x) == x.version = rec.version /\ x.state # Absent => x = rec

\* What a worker knows of the record it read, from the step it is at.
Knows(r) ==
    /\ r.pc \in {"tearVolume", "tag", "tearTask"} => r.seen.state = "deleting"
    /\ r.pc \in {"tag", "tearTask"} => r.seen.task = None \/ r.seen.captured
    /\ r.pc = "purging" => r.seen.state = "terminated"
    /\ r.pc = "kill" => r.seen.state = "stopping"
    /\ r.pc = "stopSnapshot" => Can(r.seen, "stop")
    /\ r.pc = "recordSnapshot" \/ (r.pc = "commit" /\ r.op = "recordSnapshot")
         => r.snap # None
    /\ r.pc = "commit" /\ r.op = "recordTeardown" => r.next.state = "deleting" /\ r.next.captured

\* What it is about to write follows from what it read.
Justified(r) ==
    r.pc = "commit" =>
        /\ r.seen.state # Absent
        /\ Lawful(r.seen, r.next)
        /\ Captured(r.next)
        /\ Live(r.seen) /\ r.next.state = "stopped"
             => r.seen.task \notin live \/ Copy(r.next.snap, r.seen.task)
        /\ r.seen.state = "deleting" /\ r.seen.task # None /\ r.next.state = "terminated"
             => Copy(r.next.snap, r.seen.task)

\* An idle stop under way has seen a quiet session, which is quiet as long as
\* nobody has written the row.
Quiet(r) ==
    r.pc = "stopSnapshot" \/ (r.pc = "commit" /\ r.op = "stop") =>
        /\ r.seen.state # Absent
        /\ ~r.seen.alwaysOn
        /\ r.seen.version = rec.version => quiet

Honest(r) ==
    /\ Captured(r.seen)
    /\ Current(r.seen)
    /\ Knows(r)
    /\ Justified(r)
    /\ Quiet(r)

\* A reaper's age threshold is below every task that is not bound yet and below
\* every task that was bound since it listed the references.
Graced(r) ==
    r.pc = "reap" =>
        /\ r.task <= Len(hydrated)
        /\ rec.task \in {r.seen.task, None} \/ rec.task > r.task
        /\ \A u \in Worker : Launching(wk[u]) => wk[u].task > r.task

JInv ==
    /\ IInv
    /\ Captured(rec)
    /\ \A v \in Worker : Honest(wk[v]) /\ Graced(wk[v])

-----------------------------------------------------------------------------
(* What stays true of the others while one worker moves. *)

\* Tasks that are gone stay gone, snapshots keep what they are a copy of, and the
\* row is left alone with its quiet, or gets a new version, or is created.
Evolves ==
    /\ \A t \in 0..Len(hydrated) : t \in live' => t \in live
    /\ \A s \in 1..Len(source) : s \in 1..Len(source') /\ source'[s] = source[s]
    /\ \/ rec' = rec /\ (quiet => quiet')
       \/ rec'.version > rec.version
       \/ rec = NoRecord

\* A copy stays a copy.
LEMMA CopyStays ==
    ASSUME Evolves, NEW s, NEW t, Copy(s, t)
    PROVE  Copy(s, t)'
BY DEF Evolves, Copy

\* So a captured record stays one.
LEMMA CapturedStays ==
    ASSUME Evolves, NEW ws, Captured(ws)
    PROVE  Captured(ws)'
<1>1. CASE ~ws.captured
  BY <1>1 DEF Captured
<1>2. CASE ws.captured
  BY <1>2, CopyStays DEF Captured
<1> QED
  BY <1>1, <1>2

\* What was read stays out of date, or the row.
LEMMA CurrentStays ==
    ASSUME TypeOK, TypeOK', Evolves, NEW x \in Records, x.version <= rec.version, Current(x)
    PROVE  Current(x)'
<1>1. /\ x.version \in Nat /\ rec.version \in Nat /\ rec'.version \in Nat
  BY DEF TypeOK, Records
<1>2. NoRecord.state = Absent /\ NoRecord.version = 0
  BY DEF NoRecord, Reserve, Absent
<1>3. CASE rec' = rec
  BY <1>3 DEF Current
<1>4. CASE rec'.version > rec.version
  BY <1>1, <1>4 DEF Current
<1>5. CASE rec = NoRecord
  BY <1>1, <1>2, <1>5 DEF Current
<1> QED
  BY <1>3, <1>4, <1>5 DEF Evolves

\* An honest worker that does not move stays honest.
LEMMA HonestStays ==
    ASSUME TypeOK, TypeOK', Evolves, NEW r \in WorkerStates, Honest(r),
           r.seen.version <= rec.version, r.seen.task <= Len(hydrated)
    PROVE  Honest(r)'
<1>0. /\ r.seen \in Records /\ r.seen.task \in Nat /\ r.seen.version \in Nat
      /\ rec.version \in Nat /\ rec'.version \in Nat
  BY WorkerFields DEF TypeOK, Records
<1>1. Captured(r.seen)'
  BY CapturedStays DEF Honest
<1>2. Current(r.seen)'
  BY <1>0, CurrentStays DEF Honest
<1>3. Knows(r)'
  BY DEF Honest, Knows
<1>4. Justified(r)'
  <2> SUFFICES ASSUME r.pc = "commit"
               PROVE  Justified(r)'
    BY DEF Justified
  <2>1. /\ r.seen.state # Absent /\ Lawful(r.seen, r.next) /\ Captured(r.next)
        /\ Live(r.seen) /\ r.next.state = "stopped"
             => r.seen.task \notin live \/ Copy(r.next.snap, r.seen.task)
        /\ r.seen.state = "deleting" /\ r.seen.task # None /\ r.next.state = "terminated"
             => Copy(r.next.snap, r.seen.task)
    BY DEF Honest, Justified
  <2>2. Captured(r.next)'
    BY <2>1, CapturedStays
  <2>3. r.seen.task \notin live => r.seen.task \notin live'
    BY <1>0 DEF Evolves, TypeOK
  <2>4. Copy(r.next.snap, r.seen.task) => Copy(r.next.snap, r.seen.task)'
    BY CopyStays
  <2> QED
    BY <2>1, <2>2, <2>3, <2>4 DEF Justified
<1>5. Quiet(r)'
  <2>1. NoRecord.state = Absent /\ NoRecord.version = 0
    BY DEF NoRecord, Reserve, Absent
  <2>2. CASE rec' = rec /\ (quiet => quiet')
    BY <2>2 DEF Honest, Quiet
  <2>3. CASE rec'.version > rec.version
    BY <1>0, <2>3 DEF Honest, Quiet
  <2>4. CASE rec = NoRecord
    BY <1>0, <2>1, <2>4 DEF Honest, Quiet, Current
  <2> QED
    BY <2>2, <2>3, <2>4 DEF Evolves
<1> QED
  BY <1>1, <1>2, <1>3, <1>4, <1>5 DEF Honest

-----------------------------------------------------------------------------
(* The functions of the core move a record along an edge of the promise. *)

\* The ones that launch, fail and recover.
LEMMA LawfulLaunch ==
    ASSUME NEW ws \in Records, NEW id \in Nat
    PROVE  /\ CanDeferPlacement(ws) => Lawful(ws, DeferPlacement(ws))
           /\ Can(ws, "wake") /\ ws.snap # None => Lawful(ws, MarkWaking(ws))
           /\ Can(ws, "provisioned") => Lawful(ws, MarkProvisioned(ws, id))
           /\ Can(ws, "fail") => Lawful(ws, MarkProvisioningFailed(ws))
           /\ Can(ws, "retry") /\ ws.snap = None => Lawful(ws, RetryProvisioning(ws))
           /\ CanMarkRecovered(ws) => Lawful(ws, MarkRecovered(ws))
           /\ Live(ws) => Lawful(ws, MarkTaskLost(ws))
           /\ CanMarkSnapshotLost(ws) => Lawful(ws, MarkSnapshotLost(ws))
           /\ ws.state = "provisioning" => Lawful(ws, MarkStopped(ws, None))
<1> USE DEF Lawful, Edge, PhaseOf, Live, Can, Sources, Targets, Records, WorkspaceStates, Absent, None
<1>0. CanDeferPlacement(ws) => Lawful(ws, DeferPlacement(ws))
  BY ZenonT(60) DEF CanDeferPlacement, DeferPlacement
<1>1. Can(ws, "wake") /\ ws.snap # None => Lawful(ws, MarkWaking(ws))
  BY SMTT(30) DEF MarkWaking
<1>2. Can(ws, "provisioned") => Lawful(ws, MarkProvisioned(ws, id))
  BY ZenonT(60) DEF MarkProvisioned
<1>3. Can(ws, "fail") => Lawful(ws, MarkProvisioningFailed(ws))
  BY ZenonT(60) DEF MarkProvisioningFailed
<1>4. Can(ws, "retry") /\ ws.snap = None => Lawful(ws, RetryProvisioning(ws))
  BY SMTT(30) DEF RetryProvisioning
<1>5. CanMarkRecovered(ws) => Lawful(ws, MarkRecovered(ws))
  BY SMTT(30) DEF CanMarkRecovered, MarkRecovered
<1>6. Live(ws) => Lawful(ws, MarkTaskLost(ws))
  BY SMTT(30) DEF MarkTaskLost
<1>7. CanMarkSnapshotLost(ws) => Lawful(ws, MarkSnapshotLost(ws))
  BY SMTT(30) DEF CanMarkSnapshotLost, MarkSnapshotLost
<1>8. ws.state = "provisioning" => Lawful(ws, MarkStopped(ws, None))
  BY SMTT(30) DEF MarkStopped
<1> QED
  BY <1>0, <1>1, <1>2, <1>3, <1>4, <1>5, <1>6, <1>7, <1>8

\* The ones that report, set, save, stop and delete.
LEMMA LawfulStop ==
    ASSUME NEW ws \in Records, NEW id \in Nat, NEW b \in BOOLEAN
    PROVE  /\ Live(ws) => Lawful(ws, MarkActivity(ws))
           /\ Lawful(ws, ws)
           /\ Lawful(ws, [ws EXCEPT !.alwaysOn = b])
           /\ Lawful(ws, SetShare(ws, b))
           /\ (Live(ws) \/ ws.state = "deleting") /\ id # None => Lawful(ws, RecordSnapshot(ws, id))
           /\ CanRestoreToSnapshot(ws) /\ id # None => Lawful(ws, RestoreToSnapshot(ws, id))
           /\ Can(ws, "stop") /\ id # None => Lawful(ws, MarkStopped(ws, id))
           /\ ws.state = "stopping" => Lawful(ws, MarkStopped(ws, id))
           /\ Can(ws, "requestStop") => Lawful(ws, MarkStopping(ws))
           /\ Can(ws, "cancelStop") => Lawful(ws, CancelStopping(ws))
           /\ Can(ws, "requestDelete") => Lawful(ws, MarkDeleting(ws))
           /\ ws.state = "deleting" => Lawful(ws, MarkTerminated(ws))
           /\ CanUndelete(ws) => Lawful(ws, UndeleteWorkspace(ws))
<1> USE DEF Lawful, Edge, PhaseOf, Live, Can, Sources, Targets, Records, WorkspaceStates, Absent, None
<1>1. Live(ws) => Lawful(ws, MarkActivity(ws))
  BY SMTT(30) DEF MarkActivity
<1>2. /\ Lawful(ws, ws)
      /\ Lawful(ws, [ws EXCEPT !.alwaysOn = b])
      /\ Lawful(ws, SetShare(ws, b))
  BY ZenonT(60) DEF SetShare
<1>3. (Live(ws) \/ ws.state = "deleting") /\ id # None => Lawful(ws, RecordSnapshot(ws, id))
  BY SMTT(30) DEF RecordSnapshot
<1>4. CanRestoreToSnapshot(ws) /\ id # None => Lawful(ws, RestoreToSnapshot(ws, id))
  BY SMTT(30) DEF CanRestoreToSnapshot, RestoreToSnapshot
<1>5. /\ Can(ws, "stop") /\ id # None => Lawful(ws, MarkStopped(ws, id))
      /\ ws.state = "stopping" => Lawful(ws, MarkStopped(ws, id))
  BY SMTT(30) DEF MarkStopped
<1>6. Can(ws, "requestStop") => Lawful(ws, MarkStopping(ws))
  BY ZenonT(60) DEF MarkStopping
<1>7. Can(ws, "cancelStop") => Lawful(ws, CancelStopping(ws))
  BY ZenonT(60) DEF CancelStopping
<1>8. Can(ws, "requestDelete") => Lawful(ws, MarkDeleting(ws))
  BY ZenonT(60) DEF MarkDeleting
<1>9. ws.state = "deleting" => Lawful(ws, MarkTerminated(ws))
  BY SMTT(30) DEF MarkTerminated
<1>10. CanUndelete(ws) => Lawful(ws, UndeleteWorkspace(ws))
  BY SMTT(30) DEF CanUndelete, UndeleteWorkspace
<1> QED
  BY <1>1, <1>2, <1>3, <1>4, <1>5, <1>6, <1>7, <1>8, <1>9, <1>10

-----------------------------------------------------------------------------
(* Steps that move one worker and leave the row alone. *)

\* What the invariant says of one worker.
LEMMA Known ==
    ASSUME JInv, NEW v \in Worker
    PROVE  /\ TypeOK /\ IInv /\ wk[v] \in WorkerStates /\ wk[v].seen \in Records /\ rec \in Records
           /\ wk[v].seen.version <= rec.version /\ wk[v].seen.task <= Len(hydrated)
           /\ wk[v].seen.version = rec.version => wk[v].seen.task = rec.task
           /\ rec.task <= Len(hydrated) /\ Bound(rec) /\ Bound(wk[v].seen)
           /\ Honest(wk[v]) /\ Graced(wk[v]) /\ Captured(rec)
BY Before DEF JInv, IInv, IdsOK, SeenOK, BoundOK

\* The moved worker is honest, its launch (if any) is its own or brand new, and a
\* reaper that begins respects the grace: then the step keeps the invariant.
LEMMA Advance ==
    ASSUME JInv, IInv', Evolves, rec' = rec, Len(hydrated) <= Len(hydrated'),
           NEW w \in Worker, NEW r, wk' = [wk EXCEPT ![w] = r], Honest(r)',
           Launching(r) => \/ Launching(wk[w]) /\ r.task = wk[w].task
                           \/ r.task > Len(hydrated),
           r.pc = "reap" => Graced(r)
    PROVE  JInv'
<1>0. TypeOK /\ TypeOK' /\ Captured(rec)
  BY DEF JInv, IInv
<1>1. \A v \in Worker : wk'[v] = IF v = w THEN r ELSE wk[v]
  BY <1>0 DEF TypeOK
<1>2. Captured(rec)'
  BY <1>0, CapturedStays
<1>3. Len(hydrated) \in Nat /\ Len(hydrated') \in Nat
  BY <1>0 DEF TypeOK
<1>4. \A v \in Worker : wk'[v].task \in Nat /\ wk[v].task \in Nat
  BY <1>0 DEF TypeOK, WorkerStates
<1>5. ASSUME NEW v \in Worker
      PROVE  Honest(wk[v])' /\ Graced(wk[v])'
  <2>1. Honest(wk[v])'
    <3>1. CASE v = w
      <4>1. wk'[v] = r
        BY <1>1, <3>1
      <4> QED
        BY <4>1 DEF Honest, Captured, Copy, Current, Knows, Justified, Quiet
    <3>2. CASE v # w
      <4>1. wk'[v] = wk[v]
        BY <1>1, <1>5, <3>2
      <4>2. PICK q : q = wk[v]
        OBVIOUS
      <4>3. Honest(q)'
        BY <1>0, <1>5, <4>2, Known, HonestStays
      <4> QED
        BY <4>1, <4>2, <4>3 DEF Honest, Captured, Copy, Current, Knows, Justified, Quiet
    <3> QED
      BY <3>1, <3>2
  <2>2. Graced(wk[v])'
    <3> SUFFICES ASSUME wk'[v].pc = "reap"
                 PROVE  /\ wk'[v].task <= Len(hydrated')
                        /\ rec.task \in {wk'[v].seen.task, None} \/ rec.task > wk'[v].task
                        /\ \A u \in Worker : Launching(wk'[u]) => wk'[u].task > wk'[v].task
      BY <1>5 DEF Graced
    <3>1. Graced(wk'[v])
      BY <1>1, <1>5, Known
    <3>2. /\ wk'[v].task <= Len(hydrated)
          /\ rec.task \in {wk'[v].seen.task, None} \/ rec.task > wk'[v].task
          /\ \A u \in Worker : Launching(wk[u]) => wk[u].task > wk'[v].task
      BY <3>1 DEF Graced
    <3>3. wk'[v].task <= Len(hydrated')
      BY <1>3, <1>4, <1>5, <3>2
    <3>4. ASSUME NEW u \in Worker, Launching(wk'[u])
          PROVE  wk'[u].task > wk'[v].task
      <4>1. CASE u = w
        BY <1>1, <1>3, <1>4, <1>5, <3>2, <3>4, <4>1
      <4>2. CASE u # w
        BY <1>1, <3>2, <3>4, <4>2
      <4> QED
        BY <4>1, <4>2
    <3> QED
      BY <3>2, <3>3, <3>4
  <2> QED
    BY <2>1, <2>2
<1> QED
  BY <1>2, <1>5 DEF JInv

\* The row is left alone; tasks are only stopped; at most a snapshot is added.
Tame ==
    /\ rec' = rec /\ quiet' = quiet
    /\ hydrated' = hydrated /\ live' \subseteq live
    /\ source' = source \/ \E t : source' = Append(source, t)

\* That is an evolution.
LEMMA TameEvolves ==
    ASSUME TypeOK, Tame
    PROVE  Evolves /\ Len(hydrated) <= Len(hydrated')
<1>1. source \in Seq(Nat) /\ Len(hydrated) \in Nat
  BY DEF TypeOK
<1>2. \A s \in 1..Len(source) : s \in 1..Len(source') /\ source'[s] = source[s]
  <2>1. CASE source' = source
    BY <2>1
  <2>2. CASE \E t : source' = Append(source, t)
    BY <1>1, <2>2
  <2> QED
    BY <2>1, <2>2 DEF Tame
<1>3. hydrated' = hydrated /\ live' \subseteq live /\ rec' = rec /\ quiet' = quiet
  BY DEF Tame
<1>4. Len(hydrated) <= Len(hydrated')
  BY <1>1, <1>3
<1> QED
  BY <1>2, <1>3, <1>4 DEF Evolves

\* A tame step whose worker is honest already now.
LEMMA Tamed ==
    ASSUME JInv, IInv', Tame, NEW w \in Worker, NEW r \in WorkerStates, Become(w, r),
           Honest(r), r.seen \in {rec, wk[w].seen, NoRecord}, r.pc # "reap",
           Launching(r) => Launching(wk[w]) /\ r.task = wk[w].task
    PROVE  JInv'
<1>1. TypeOK /\ TypeOK' /\ Evolves /\ Len(hydrated) <= Len(hydrated') /\ rec' = rec
  BY Known, TameEvolves DEF IInv, Tame
<1>2. r.seen.version <= rec.version /\ r.seen.task <= Len(hydrated)
  <2>1. NoRecord.version = 0 /\ NoRecord.task = 0
    BY DEF NoRecord, Reserve, None
  <2>2. rec.version \in Nat /\ Len(hydrated) \in Nat
    BY <1>1 DEF TypeOK, Records
  <2> QED
    BY <2>1, <2>2, Known
<1>3. Honest(r)'
  BY <1>1, <1>2, HonestStays
<1> QED
  BY <1>1, <1>3, Advance DEF Become

\* Steps at which the invariant knows something.
Telling ==
    {"commit", "tearVolume", "tag", "tearTask", "purging", "kill", "stopSnapshot",
     "recordSnapshot", "reap"}

\* Everywhere else a worker is honest whatever it has read.
LEMMA PlainHonest ==
    ASSUME JInv, NEW w \in Worker, NEW r \in WorkerStates, r.pc \notin Telling,
           r.seen \in {rec, wk[w].seen, NoRecord}
    PROVE  Honest(r)
<1>1. Captured(NoRecord) /\ Current(NoRecord)
  BY DEF NoRecord, Reserve, Captured, Current, Absent
<1>2. Captured(rec) /\ Current(rec) /\ Captured(wk[w].seen) /\ Current(wk[w].seen)
  BY Known DEF Honest, Current
<1> QED
  BY <1>1, <1>2 DEF Honest, Knows, Justified, Quiet, Telling

\* An operation that ends.
LEMMA DoneTamed ==
    ASSUME JInv, IInv', Tame, NEW w \in Worker, Done(w)
    PROVE  JInv'
<1>1. Idle \in WorkerStates /\ Idle.pc = "idle" /\ Idle.seen = NoRecord
  BY IdleWorker DEF Idle
<1>2. Honest(Idle)
  BY <1>1, PlainHonest DEF Telling
<1> QED
  BY <1>1, <1>2, Tamed DEF Done, Launching

\* One that goes on at a step where nothing is known.
LEMMA PlainTamed ==
    ASSUME JInv, IInv', Tame, NEW w \in Worker, NEW r \in WorkerStates, Become(w, r),
           r.pc \notin Telling \cup {"launched", "compensate"},
           r.seen \in {rec, wk[w].seen, NoRecord}
    PROVE  JInv'
BY PlainHonest, Tamed DEF Launching, Telling

\* The same with Goto.
LEMMA GotoTamed ==
    ASSUME JInv, IInv', Tame, NEW w \in Worker,
           NEW pc \in Steps \ (Telling \cup {"launched", "compensate"}), Goto(w, pc)
    PROVE  JInv'
<1> DEFINE r == [wk[w] EXCEPT !.pc = pc]
<1>1. wk[w] \in WorkerStates
  BY Known
<1>2. r \in WorkerStates /\ r.pc = pc /\ r.seen = wk[w].seen
  BY <1>1 DEF WorkerStates
<1>3. Become(w, r)
  BY DEF Goto, Become
<1> HIDE DEF r
<1> QED
  BY <1>2, <1>3, PlainTamed

\* One that goes on to write what follows from the record it has just read.
LEMMA ProposeTamed ==
    ASSUME JInv, IInv', Tame, NEW w \in Worker, NEW op \in Writes \ {"bind", "recordTeardown"},
           NEW next \in Records, Propose(w, op, next),
           rec.state # Absent, Lawful(rec, next), Captured(next),
           Live(rec) /\ next.state = "stopped" => rec.task \notin live,
           next.state = "terminated" => rec.state = "terminated",
           op = "stop" => quiet /\ ~rec.alwaysOn,
           op = "recordSnapshot" => wk[w].snap # None
    PROVE  JInv'
<1> DEFINE r == [wk[w] EXCEPT !.pc = "commit", !.op = op, !.seen = rec, !.next = next]
<1>1. wk[w] \in WorkerStates /\ rec \in Records /\ Captured(rec)
  BY Known
<1>2. /\ r \in WorkerStates /\ r.pc = "commit" /\ r.op = op /\ r.seen = rec /\ r.next = next
      /\ r.snap = wk[w].snap
  BY <1>1 DEF WorkerStates, Steps
<1>3. Become(w, r)
  BY DEF Propose
<1> HIDE DEF r
<1>4. Honest(r)
  BY <1>1, <1>2 DEF Honest, Current, Knows, Justified, Quiet
<1> QED
  BY <1>2, <1>3, <1>4, Tamed DEF Launching

-----------------------------------------------------------------------------
(* The other facts about the functions of the core that a write needs. *)

\* The state each leaves a record in.
LEMMA StateAfter ==
    ASSUME NEW ws \in Records, NEW id \in Nat, NEW b \in BOOLEAN
    PROVE  /\ MarkStopping(ws).state = "stopping"
           /\ CancelStopping(ws).state = "running"
           /\ MarkStopped(ws, id).state = "stopped"
           /\ MarkWaking(ws).state = "provisioning"
           /\ MarkProvisioned(ws, id).state = "running"
           /\ DeferPlacement(ws).state = ws.state
           /\ MarkProvisioningFailed(ws).state = "error"
           /\ RetryProvisioning(ws).state = "provisioning"
           /\ RecordSnapshot(ws, id).state = ws.state
           /\ RestoreToSnapshot(ws, id).state = ws.state
           /\ MarkTaskLost(ws).state \in {"error", "stopped"}
           /\ MarkActivity(ws).state \in {ws.state, "running"}
           /\ MarkDeleting(ws).state = "deleting"
           /\ MarkRecovered(ws).state = "stopped"
           /\ MarkSnapshotLost(ws).state = "error"
           /\ UndeleteWorkspace(ws).state = "stopped"
           /\ SetShare(ws, b).state = ws.state
           /\ [ws EXCEPT !.alwaysOn = b].state = ws.state
           /\ MarkTerminated(ws).state = "terminated"
<1> USE DEF Records, Targets
<1>1. /\ MarkStopping(ws).state = "stopping" /\ CancelStopping(ws).state = "running"
      /\ MarkStopped(ws, id).state = "stopped" /\ MarkWaking(ws).state = "provisioning"
      /\ MarkProvisioned(ws, id).state = "running" /\ DeferPlacement(ws).state = ws.state
  BY DEF MarkStopping, CancelStopping, MarkStopped, MarkWaking, MarkProvisioned, DeferPlacement
<1>2. /\ MarkProvisioningFailed(ws).state = "error" /\ RetryProvisioning(ws).state = "provisioning"
      /\ RecordSnapshot(ws, id).state = ws.state /\ RestoreToSnapshot(ws, id).state = ws.state
      /\ MarkTaskLost(ws).state \in {"error", "stopped"}
      /\ MarkActivity(ws).state \in {ws.state, "running"}
  BY DEF MarkProvisioningFailed, RetryProvisioning, RecordSnapshot, RestoreToSnapshot,
         MarkTaskLost, MarkActivity
<1>3. /\ MarkDeleting(ws).state = "deleting" /\ MarkRecovered(ws).state = "stopped"
      /\ MarkSnapshotLost(ws).state = "error" /\ UndeleteWorkspace(ws).state = "stopped"
      /\ SetShare(ws, b).state = ws.state /\ [ws EXCEPT !.alwaysOn = b].state = ws.state
      /\ MarkTerminated(ws).state = "terminated"
  BY DEF MarkDeleting, MarkRecovered, MarkSnapshotLost, UndeleteWorkspace, SetShare, MarkTerminated
<1> QED
  BY <1>1, <1>2, <1>3

\* None of them leaves a live record captured.
LEMMA CapturedAfter ==
    ASSUME NEW ws \in Records, NEW id \in Nat, NEW b \in BOOLEAN, Captured(ws)
    PROVE  /\ ws.state \notin {"deleting", "terminated"} =>
                /\ Captured(MarkStopping(ws))
                /\ Captured(CancelStopping(ws))
                /\ Captured(MarkStopped(ws, id))
                /\ Captured(MarkWaking(ws))
                /\ Captured(MarkProvisioned(ws, id))
                /\ Captured(DeferPlacement(ws))
                /\ Captured(MarkProvisioningFailed(ws))
                /\ Captured(RetryProvisioning(ws))
                /\ Captured(RecordSnapshot(ws, id))
                /\ Captured(RestoreToSnapshot(ws, id))
                /\ Captured(MarkTaskLost(ws))
                /\ Captured(MarkActivity(ws))
                /\ Captured(MarkRecovered(ws))
                /\ Captured(MarkSnapshotLost(ws))
           /\ Captured(MarkDeleting(ws))
           /\ Captured(UndeleteWorkspace(ws))
           /\ Captured(SetShare(ws, b))
           /\ Captured([ws EXCEPT !.alwaysOn = b])
           /\ ws.state = "deleting" => Captured(MarkTerminated(ws))
<1>1. ASSUME ws.state \notin {"deleting", "terminated"}
      PROVE  /\ ~MarkStopping(ws).captured /\ ~CancelStopping(ws).captured
             /\ ~MarkStopped(ws, id).captured /\ ~MarkWaking(ws).captured
             /\ ~MarkProvisioned(ws, id).captured /\ ~DeferPlacement(ws).captured
             /\ ~MarkProvisioningFailed(ws).captured /\ ~RetryProvisioning(ws).captured
             /\ ~RecordSnapshot(ws, id).captured /\ ~RestoreToSnapshot(ws, id).captured
             /\ ~MarkTaskLost(ws).captured /\ ~MarkActivity(ws).captured
             /\ ~MarkRecovered(ws).captured /\ ~MarkSnapshotLost(ws).captured
  <2>1. ~ws.captured
    BY <1>1 DEF Captured
  <2>2. /\ ~MarkStopping(ws).captured /\ ~CancelStopping(ws).captured
        /\ ~MarkStopped(ws, id).captured /\ ~MarkWaking(ws).captured
        /\ ~MarkProvisioned(ws, id).captured /\ ~DeferPlacement(ws).captured
        /\ ~MarkProvisioningFailed(ws).captured
    BY <2>1 DEF Records, MarkStopping, CancelStopping, MarkStopped, MarkWaking,
                MarkProvisioned, DeferPlacement, MarkProvisioningFailed
  <2>3. /\ ~RetryProvisioning(ws).captured
        /\ ~RecordSnapshot(ws, id).captured /\ ~RestoreToSnapshot(ws, id).captured
        /\ ~MarkTaskLost(ws).captured /\ ~MarkActivity(ws).captured
        /\ ~MarkRecovered(ws).captured /\ ~MarkSnapshotLost(ws).captured
    BY <1>1, <2>1 DEF Records, RetryProvisioning, RecordSnapshot, RestoreToSnapshot,
                MarkTaskLost, MarkActivity, MarkRecovered, MarkSnapshotLost
  <2> QED
    BY <2>2, <2>3
<1>2. ~MarkDeleting(ws).captured /\ ~UndeleteWorkspace(ws).captured
  BY DEF Records, MarkDeleting, UndeleteWorkspace
<1>3. Captured(SetShare(ws, b)) /\ Captured([ws EXCEPT !.alwaysOn = b])
  BY DEF Records, SetShare, Captured
<1>4. ws.state = "deleting" => Captured(MarkTerminated(ws))
  BY DEF Records, MarkTerminated, Captured, Targets
<1> QED
  BY <1>1, <1>2, <1>3, <1>4 DEF Captured

-----------------------------------------------------------------------------
(* The steps themselves. *)

\* Reading the row is tame, and so is a step that only moves its worker.
LEMMA ReadsAreTame == (ReadOnly \/ LocalOnly) => Tame
BY DEF ReadOnly, LocalOnly, Tame, cloud

\* What every step may use.
LEMMA Given ==
    ASSUME JInv, NEW w \in Worker
    PROVE  /\ rec \in Records /\ wk[w] \in WorkerStates /\ wk[w].seen \in Records
           /\ Captured(rec) /\ None \in Nat /\ TRUE \in BOOLEAN
           /\ Idle \in WorkerStates /\ Idle.seen = NoRecord /\ Idle.task = None
BY Known, Before

\* A wake that is claimed.
LEMMA WakeTamed ==
    ASSUME JInv, IInv', Tame, NEW w \in Worker, ProposeWake(w), CanStart
    PROVE  JInv'
<1>0. /\ rec \in Records /\ Captured(rec) /\ Idle \in WorkerStates
  BY Given
<1>1. PICK next : next = MarkWaking(rec)
  OBVIOUS
<1>2. rec.state = "stopped" /\ rec.snap # None /\ Can(rec, "wake")
  BY DEF CanStart, Can, Sources
<1>3. 0 \in Nat /\ TRUE \in BOOLEAN
  OBVIOUS
<1>4. next \in Records /\ Lawful(rec, next) /\ Captured(next) /\ next.state = "provisioning"
  BY <1>0, <1>1, <1>2, <1>3, MarkedRecords, LawfulLaunch, CapturedAfter, StateAfter
<1>5. PICK r : /\ r = [Idle EXCEPT !.pc = "commit", !.op = "wake", !.wake = TRUE,
                                   !.seen = rec, !.next = next]
               /\ Become(w, r)
  BY <1>1 DEF ProposeWake
<1>6. r \in WorkerStates /\ r.pc = "commit" /\ r.op = "wake" /\ r.seen = rec /\ r.next = next
  BY <1>0, <1>4, <1>5 DEF WorkerStates, Steps, Writes
<1>7. Honest(r)
  BY <1>0, <1>2, <1>4, <1>6 DEF Honest, Current, Knows, Justified, Quiet, Absent
<1> QED
  BY <1>5, <1>6, <1>7, Tamed DEF Launching

\* The row that reserveWorkspace creates is the only one that gets no new version:
\* nobody can have read anything to write over it.
LEMMA ReservePromise ==
    ASSUME JInv, IInv', NEW w \in Worker, ReserveWorkspace(w)
    PROVE  JInv'
<1>0. TypeOK /\ TypeOK' /\ wk[w] \in WorkerStates
  BY Known DEF IInv
<1>1. /\ rec = NoRecord /\ rec' = Reserve /\ UNCHANGED <<live, hydrated, source>>
      /\ wk' = [wk EXCEPT ![w].pc = "reserved"] /\ wk[w].pc = "idle"
  BY DEF ReserveWorkspace, cloud, Goto, Request, At
<1>2. PICK r : r = [wk[w] EXCEPT !.pc = "reserved"] /\ wk' = [wk EXCEPT ![w] = r]
  BY <1>1
<1>3. r \in WorkerStates /\ r.pc = "reserved" /\ r.seen = wk[w].seen
  BY <1>0, <1>2 DEF WorkerStates, Steps
<1>4. Evolves
  BY <1>1 DEF Evolves
<1>5. Captured(rec)'
  BY <1>1 DEF Captured, Reserve
<1>6. /\ \A v \in Worker : wk'[v] = IF v = w THEN r ELSE wk[v]
      /\ Reserve.task = None /\ NoRecord.task = None
  BY <1>0, <1>2 DEF TypeOK, Reserve, NoRecord
<1>7. ASSUME NEW v \in Worker
      PROVE  Honest(wk[v])' /\ Graced(wk[v])'
  <2>1. PICK q : q = wk'[v]
    OBVIOUS
  <2>2. q \in WorkerStates /\ Honest(q)
    BY <1>3, <1>6, <1>7, <2>1, Known, PlainHonest DEF Telling
  <2>3. q.seen = wk[v].seen
    BY <1>3, <1>6, <1>7, <2>1
  <2>4. Honest(q)'
    BY <1>0, <1>4, <1>7, <2>2, <2>3, Known, HonestStays
  <2>5. Honest(wk[v])'
    BY <2>1, <2>4 DEF Honest, Captured, Copy, Current, Knows, Justified, Quiet
  <2>6. Graced(wk[v])'
    BY <1>1, <1>3, <1>6, <1>7, Known DEF Graced, Launching
  <2> QED
    BY <2>5, <2>6
<1> QED
  BY <1>5, <1>7 DEF JInv

\* Client and agent calls.
LEMMA CallPromise ==
    ASSUME JInv, IInv', NEW w \in Worker, Call(w)
    PROVE  JInv'
<1>0. /\ rec \in Records /\ wk[w] \in WorkerStates
      /\ Captured(rec) /\ None \in Nat /\ TRUE \in BOOLEAN
      /\ Idle \in WorkerStates /\ Idle.seen = NoRecord
  BY Given
<1> USE <1>0
<1>1. CASE ReserveWorkspace(w)
  BY <1>1, ReservePromise
<1>2. CASE Start(w)
  BY <1>2, ReadsAreTame, WakeTamed DEF Start
<1>3. CASE Retry(w)
  <2>1. rec.state = "error" /\ Tame
    BY <1>3, ReadsAreTame DEF Retry, CanMarkRecovered, Can, Sources
  <2>2. CASE rec.snap # None
    <3>1. CanMarkRecovered(rec) /\ Propose(w, "recoverThenStart", MarkRecovered(rec))
      BY <1>3, <2>2 DEF Retry
    <3> QED
      BY <2>1, <3>1, MarkedRecords, LawfulLaunch, CapturedAfter, StateAfter, ProposeTamed
         DEF Writes, Live, Absent
  <2>3. CASE rec.snap = None
    <3>1. Can(rec, "retry") /\ Propose(w, "retry", RetryProvisioning(rec))
      BY <1>3, <2>3 DEF Retry
    <3> QED
      BY <2>1, <2>3, <3>1, MarkedRecords, LawfulLaunch, CapturedAfter, StateAfter, ProposeTamed
         DEF Writes, Live, Absent
  <2> QED
    BY <2>2, <2>3
<1>4. CASE Heartbeat(w)
  <2>1. CASE CanMarkActivity(rec) /\ ProposeBeat(w, "heartbeat")
    <3>1. Live(rec) /\ Propose(w, "heartbeat", MarkActivity(rec)) /\ Tame
      BY <1>4, <2>1, ReadsAreTame DEF Heartbeat, CanMarkActivity, ProposeBeat
    <3> QED
      BY <3>1, MarkedRecords, LawfulStop, CapturedAfter, StateAfter, ProposeTamed
         DEF Writes, Live, Absent
  <2>2. CASE (Live(rec) \/ rec.state = "provisioning") /\ ProposeBeat(w, "report")
    <3>1. Propose(w, "report", rec) /\ Tame
      BY <1>4, <2>2, ReadsAreTame DEF Heartbeat, ProposeBeat
    <3> QED
      BY <2>2, <3>1, LawfulStop, ProposeTamed DEF Writes, Live, Absent
  <2> QED
    BY <1>4, <2>1, <2>2 DEF Heartbeat
<1>5. CASE UpdateSettings(w)
  <2>1. PICK b \in BOOLEAN : Propose(w, "settings", [rec EXCEPT !.alwaysOn = b])
    BY <1>5 DEF UpdateSettings
  <2>2. Tame /\ rec.state # Absent
    BY <1>5, ReadsAreTame DEF UpdateSettings
  <2>3. PICK next : next = [rec EXCEPT !.alwaysOn = b]
    OBVIOUS
  <2>4. next \in Records /\ Lawful(rec, next) /\ Captured(next) /\ next.state = rec.state
    BY <2>3, MarkedWithFlag, LawfulStop, CapturedAfter, StateAfter
  <2> QED
    BY <2>1, <2>2, <2>3, <2>4, ProposeTamed DEF Writes, Live
<1>6. CASE ShareSession(w)
  <2>1. PICK b \in BOOLEAN : Propose(w, "share", SetShare(rec, b))
    BY <1>6 DEF ShareSession
  <2>2. Tame /\ rec.state # Absent
    BY <1>6, ReadsAreTame DEF ShareSession
  <2>3. PICK next : next = SetShare(rec, b)
    OBVIOUS
  <2>4. next \in Records /\ Lawful(rec, next) /\ Captured(next) /\ next.state = rec.state
    <3>1. SetShare(rec, b) \in Records
      BY MarkedWithFlag
    <3>2. Lawful(rec, SetShare(rec, b))
      BY LawfulStop
    <3>3. Captured(SetShare(rec, b))
      BY CapturedAfter, Zenon
    <3>4. SetShare(rec, b).state = rec.state
      BY DEF SetShare, Records
    <3> QED
      BY <2>3, <3>1, <3>2, <3>3, <3>4
  <2> QED
    BY <2>1, <2>2, <2>3, <2>4, ProposeTamed DEF Writes, Live
<1>7. CASE Snapshot(w)
  <2>1. PICK r : r = [Idle EXCEPT !.pc = "snapshotting", !.seen = rec] /\ Become(w, r)
    BY <1>7 DEF Snapshot
  <2>2. r \in WorkerStates /\ r.pc = "snapshotting" /\ r.seen = rec
    BY <2>1 DEF WorkerStates, Steps
  <2> QED
    BY <1>7, <2>1, <2>2, ReadsAreTame, PlainTamed DEF Snapshot, Telling
<1>8. CASE RestoreSnapshot(w)
  <2>1. PICK s \in snaps : Propose(w, "restore", RestoreToSnapshot(rec, s))
    BY <1>8 DEF RestoreSnapshot
  <2>2. s \in Nat /\ s # None
    BY Known DEF TypeOK, None
  <2>3. Tame /\ rec.state = "stopped" /\ CanRestoreToSnapshot(rec)
    BY <1>8, ReadsAreTame DEF RestoreSnapshot, CanRestoreToSnapshot
  <2>4. PICK next : next = RestoreToSnapshot(rec, s)
    OBVIOUS
  <2>5. next \in Records /\ Lawful(rec, next) /\ Captured(next) /\ next.state = rec.state
    BY <2>2, <2>3, <2>4, MarkedWithId, LawfulStop, CapturedAfter, StateAfter, ZenonT(60)
  <2> QED
    BY <2>1, <2>3, <2>4, <2>5, ProposeTamed DEF Writes, Live, Absent
<1>9. CASE RequestStop(w)
  <2>1. Tame /\ Live(rec) /\ Can(rec, "requestStop")
    BY <1>9, ReadsAreTame DEF RequestStop, Can, Sources, Live
  <2> QED
    BY <1>9, <2>1, MarkedRecords, LawfulStop, CapturedAfter, StateAfter, ProposeTamed
       DEF RequestStop, Writes, Live, Absent
<1>10. CASE CancelStop(w)
  <2>1. Tame /\ rec.state = "stopping" /\ Can(rec, "cancelStop")
    BY <1>10, ReadsAreTame DEF CancelStop, Can, Sources
  <2> QED
    BY <1>10, <2>1, MarkedRecords, LawfulStop, CapturedAfter, StateAfter, ProposeTamed
       DEF CancelStop, Writes, Live, Absent
<1>11. CASE Remove(w)
  <2>1. Tame /\ rec.state # Absent /\ Can(rec, "requestDelete")
    BY <1>11, ReadsAreTame DEF Remove, Can, Sources, WorkspaceStates, Absent
  <2> QED
    BY <1>11, <2>1, MarkedRecords, LawfulStop, CapturedAfter, StateAfter, ProposeTamed
       DEF Remove, Writes, Live
<1>12. CASE Undelete(w)
  <2>1. Tame /\ rec.state = "terminated" /\ CanUndelete(rec)
    BY <1>12, ReadsAreTame DEF Undelete, CanUndelete, Can, Sources
  <2> QED
    BY <1>12, <2>1, MarkedRecords, LawfulStop, CapturedAfter, StateAfter, ProposeTamed
       DEF Undelete, Writes, Live, Absent
<1>13. CASE Purge(w)
  <2>1. PICK r : r = [Idle EXCEPT !.pc = "purging", !.seen = rec] /\ Become(w, r)
    BY <1>13 DEF Purge
  <2>2. r \in WorkerStates /\ r.pc = "purging" /\ r.seen = rec
    BY <2>1 DEF WorkerStates, Steps
  <2>3. Honest(r)
    BY <1>13, <2>2 DEF Honest, Current, Knows, Justified, Quiet, Purge
  <2> QED
    BY <1>13, <2>1, <2>2, <2>3, ReadsAreTame, Tamed DEF Purge, Launching
<1>14. CASE DeleteSnapshotById(w)
  <2>1. PICK s \in snaps : Become(w, [Idle EXCEPT !.pc = "adminDelete", !.snap = s])
    BY <1>14 DEF DeleteSnapshotById
  <2>2. s \in Nat
    BY Known DEF TypeOK
  <2>3. PICK r : r = [Idle EXCEPT !.pc = "adminDelete", !.snap = s] /\ Become(w, r)
    BY <2>1
  <2>4. r \in WorkerStates /\ r.pc = "adminDelete" /\ r.seen = NoRecord
    BY <2>2, <2>3 DEF WorkerStates, Steps
  <2> QED
    BY <1>14, <2>3, <2>4, ReadsAreTame, PlainTamed DEF DeleteSnapshotById, Telling
<1> QED
  BY <1>1, <1>2, <1>3, <1>4, <1>5, <1>6, <1>7, <1>8, <1>9, <1>10, <1>11, <1>12,
     <1>13, <1>14 DEF Call

\* Sweeps that pick the record up.
LEMMA PassPromise ==
    ASSUME JInv, IInv', NEW w \in Worker, Pass(w)
    PROVE  JInv'
<1>0. /\ rec \in Records /\ wk[w] \in WorkerStates
      /\ Captured(rec) /\ None \in Nat /\ TRUE \in BOOLEAN
      /\ Idle \in WorkerStates /\ Idle.seen = NoRecord
  BY Given
<1> USE <1>0
<1>1. CASE RetryPlacement(w)
  <2>0. Tame
    BY <1>1, ReadsAreTame DEF RetryPlacement
  <2>1. CASE rec.snap = None
    BY <1>1, <2>0, <2>1, GotoTamed DEF RetryPlacement, Steps, Telling
  <2>2. CASE rec.snap # None
    <3>1. PICK r : /\ r = [Idle EXCEPT !.pc = "launch", !.wake = TRUE, !.seen = rec]
                   /\ Become(w, r)
      BY <1>1, <2>2 DEF RetryPlacement
    <3>2. r \in WorkerStates /\ r.pc = "launch" /\ r.seen = rec
      BY <3>1 DEF WorkerStates, Steps
    <3> QED
      BY <2>0, <3>1, <3>2, PlainTamed DEF Telling
  <2> QED
    BY <2>1, <2>2
<1>2. CASE FinishStop(w)
  <2>1. PICK r : r = [Idle EXCEPT !.pc = "finalSnapshot", !.seen = rec] /\ Become(w, r)
    BY <1>2 DEF FinishStop
  <2>2. r \in WorkerStates /\ r.pc = "finalSnapshot" /\ r.seen = rec
    BY <2>1 DEF WorkerStates, Steps
  <2> QED
    BY <1>2, <2>1, <2>2, ReadsAreTame, PlainTamed DEF FinishStop, Telling
<1>3. CASE ReconcileTaskLoss(w)
  <2>1. Tame /\ Live(rec) /\ rec.task \notin live /\ Propose(w, "taskLost", MarkTaskLost(rec))
    BY <1>3, ReadsAreTame DEF ReconcileTaskLoss
  <2>2. PICK next : next = MarkTaskLost(rec)
    OBVIOUS
  <2>3. next \in Records /\ Lawful(rec, next) /\ Captured(next) /\ next.state # "terminated"
    BY <2>1, <2>2, MarkedRecords, LawfulLaunch, CapturedAfter, StateAfter DEF Live
  <2> QED
    BY <2>1, <2>2, <2>3, ProposeTamed DEF Writes, Live, Absent
<1>4. CASE ListStuckProvisioning(w)
  BY <1>4, ReadsAreTame, GotoTamed DEF ListStuckProvisioning, Steps, Telling
<1>5. CASE RecoverError(w)
  <2>1. /\ Tame /\ rec.state = "error" /\ CanMarkRecovered(rec)
        /\ Propose(w, "recover", MarkRecovered(rec))
    BY <1>5, ReadsAreTame DEF RecoverError, CanMarkRecovered
  <2> QED
    BY <2>1, MarkedRecords, LawfulLaunch, CapturedAfter, StateAfter, ProposeTamed
       DEF Writes, Live, Absent
<1>6. CASE FinishDeleting(w)
  <2>1. PICK pc \in {"tearVolume", "tag", "tearTask"} : pc = RetainFirst(rec)
    BY DEF RetainFirst
  <2>2. pc \in {"tag", "tearTask"} => rec.task = None \/ rec.captured
    BY <2>1 DEF RetainFirst, NeedsFreshTeardownSnapshot
  <2>3. PICK r : r = [Idle EXCEPT !.pc = pc, !.seen = rec] /\ Become(w, r)
    BY <1>6, <2>1 DEF FinishDeleting
  <2>4. r \in WorkerStates /\ r.pc = pc /\ r.seen = rec
    BY <2>3 DEF WorkerStates, Steps
  <2>5. Honest(r)
    BY <1>6, <2>2, <2>4 DEF Honest, Current, Knows, Justified, Quiet, FinishDeleting
  <2> QED
    BY <1>6, <2>3, <2>4, <2>5, ReadsAreTame, Tamed DEF FinishDeleting, Launching
<1>7. CASE ListIdle(w)
  BY <1>7, ReadsAreTame, GotoTamed DEF ListIdle, Steps, Telling
<1>8. CASE ListSnapshotReference(w)
  <2>1. PICK r : r = [Idle EXCEPT !.pc = "listedRef", !.seen = rec] /\ Become(w, r)
    BY <1>8 DEF ListSnapshotReference
  <2>2. r \in WorkerStates /\ r.pc = "listedRef" /\ r.seen = rec
    BY <2>1 DEF WorkerStates, Steps
  <2> QED
    BY <1>8, <2>1, <2>2, ReadsAreTame, PlainTamed DEF ListSnapshotReference, Telling
<1>9. CASE ListFleetReferences(w)
  <2>1. TypeOK /\ Tame /\ Len(hydrated) \in Nat
    BY <1>9, Known, ReadsAreTame DEF ListFleetReferences, TypeOK
  <2>2. PICK t : t = OutOfGrace(Len(hydrated), UnrecordedTasks)
    OBVIOUS
  <2>3. UnrecordedTasks \in SUBSET (Nat \ {0})
    BY <2>1, UnrecordedType, TypeParts
  <2>4. t \in 0..Len(hydrated) /\ \A id \in UnrecordedTasks : t < id
    BY <2>1, <2>2, <2>3, GraceType
  <2>5. PICK r : /\ r = [Idle EXCEPT !.pc = "reap", !.seen = rec, !.task = t,
                            !.snap = OutOfGrace(Len(source), UnrecordedSnapshots)]
                 /\ wk' = [wk EXCEPT ![w] = r]
    BY <1>9, <2>2 DEF ListFleetReferences, Become
  <2>6. r.pc = "reap" /\ r.seen = rec /\ r.task = t
    BY <2>5 DEF WorkerStates
  <2>7. Honest(r)
    BY <2>6 DEF Honest, Current, Knows, Justified, Quiet
  <2>8. r \in WorkerStates
    BY <2>5 DEF IInv, TypeOK
  <2>9. Evolves /\ rec' = rec /\ TypeOK' /\ Len(hydrated) <= Len(hydrated')
    BY <2>1, TameEvolves DEF Tame, IInv
  <2>10. Honest(r)'
    <3>1. rec.version \in Nat /\ rec.task <= Len(hydrated)
      BY Known DEF Records
    <3> QED
      BY <2>1, <2>6, <2>7, <2>8, <2>9, <3>1, HonestStays
  <2>11. Graced(r)
    <3>1. \A u \in Worker : Launching(wk[u]) => wk[u].task \in UnrecordedTasks
      <4>1. \A u \in Worker : Launching(wk[u]) => wk[u].task # None
        BY DEF JInv, IInv, FreshOK
      <4> QED
        BY <4>1 DEF UnrecordedTasks, Launching, At
    <3>2. \A u \in Worker : wk[u].task \in Nat
      BY <2>1 DEF TypeOK, WorkerStates
    <3> QED
      BY <2>1, <2>4, <2>6, <3>1, <3>2 DEF Graced
  <2> QED
    BY <2>5, <2>6, <2>9, <2>10, <2>11, Advance DEF Launching
<1> QED
  BY <1>1, <1>2, <1>3, <1>4, <1>5, <1>6, <1>7, <1>8, <1>9 DEF Pass, Converge

\* A launch that is rolled back.
LEMMA RolledBack ==
    ASSUME NEW ws \in Records, Captured(ws), ws.state = "provisioning"
    PROVE  /\ MarkStopped(ws, None) \in Records /\ Lawful(ws, MarkStopped(ws, None))
           /\ Captured(MarkStopped(ws, None)) /\ MarkStopped(ws, None).state = "stopped"
<1>1. None \in Nat /\ TRUE \in BOOLEAN
  BY DEF None
<1>2. MarkStopped(ws, None) \in Records /\ Lawful(ws, MarkStopped(ws, None))
  BY <1>1, MarkedWithId, LawfulLaunch
<1>3. ws.state \notin {"deleting", "terminated"}
  OBVIOUS
<1>4. Captured(MarkStopped(ws, None))
  BY <1>1, <1>3, CapturedAfter, Zenon
<1>5. MarkStopped(ws, None).state = "stopped"
  BY DEF MarkStopped, Records, Targets
<1> QED
  BY <1>2, <1>4, <1>5

\* A task that is run, or leaks, is younger than every threshold.
LEMMA RunPromise ==
    ASSUME JInv, IInv', NEW w \in Worker, RunTask(w) \/ RunTaskFailed(w)
    PROVE  JInv'
<1>0. TypeOK /\ TypeOK' /\ wk[w] \in WorkerStates
  BY Known DEF IInv
<1>00. hydrated \in Seq(Nat) /\ Len(hydrated) \in Nat /\ Len(hydrated) + 1 \in Nat
  BY <1>0 DEF TypeOK
<1>1. /\ rec' = rec /\ quiet' = quiet /\ source' = source
      /\ \/ hydrated' = hydrated /\ live' = live
         \/ /\ \E h : hydrated' = Append(hydrated, h)
            /\ live' = live \cup {Len(hydrated) + 1}
  BY DEF RunTask, RunTaskFailed, cloud
<1>2. Evolves /\ Len(hydrated) <= Len(hydrated')
  BY <1>00, <1>1 DEF Evolves
<1>3. PICK r : /\ \/ r = [wk[w] EXCEPT !.pc = "launched", !.task = Len(hydrated) + 1]
                  \/ r = [wk[w] EXCEPT !.pc = "launchFailed"]
               /\ wk' = [wk EXCEPT ![w] = r]
  BY DEF RunTask, RunTaskFailed, Become, Goto
<1>4. /\ r \in WorkerStates /\ r.pc \in {"launched", "launchFailed"} /\ r.seen = wk[w].seen
      /\ r.pc = "launched" => r.task = Len(hydrated) + 1
  <2>1. PICK t \in Nat : t = Len(hydrated) + 1
    BY <1>00
  <2>2. CASE r = [wk[w] EXCEPT !.pc = "launched", !.task = t]
    BY <1>0, <2>1, <2>2 DEF WorkerStates, Steps
  <2>3. CASE r = [wk[w] EXCEPT !.pc = "launchFailed"]
    BY <1>0, <2>3 DEF WorkerStates, Steps
  <2> QED
    BY <1>3, <2>1, <2>2, <2>3
<1>5. Honest(r)
  BY <1>4, PlainHonest DEF Telling
<1>6. Honest(r)'
  BY <1>0, <1>2, <1>4, <1>5, Known, HonestStays
<1>7. Launching(r) => r.task > Len(hydrated)
  BY <1>00, <1>4 DEF Launching
<1> QED
  BY <1>1, <1>2, <1>3, <1>4, <1>6, <1>7, Advance

\* The steps of a launch.
LEMMA LaunchPromise ==
    ASSUME JInv, IInv', NEW w \in Worker, Launch(w)
    PROVE  JInv'
<1>0. /\ rec \in Records /\ wk[w] \in WorkerStates
      /\ Captured(rec) /\ None \in Nat /\ TRUE \in BOOLEAN
      /\ Idle \in WorkerStates /\ Idle.seen = NoRecord
  BY Given
<1> USE <1>0
<1>1. CASE LaunchReserved(w)
  <2>0. Tame
    BY <1>1, ReadsAreTame DEF LaunchReserved
  <2>1. CASE rec.state = "provisioning" /\ rec.task = None
    <3>1. PICK r : r = [Idle EXCEPT !.pc = "launch", !.seen = rec] /\ Become(w, r)
      BY <1>1, <2>1 DEF LaunchReserved
    <3>2. r \in WorkerStates /\ r.pc = "launch" /\ r.seen = rec
      BY <3>1 DEF WorkerStates, Steps
    <3> QED
      BY <2>0, <3>1, <3>2, PlainTamed DEF Telling
  <2>2. CASE ~(rec.state = "provisioning" /\ rec.task = None)
    BY <1>1, <2>0, <2>2, DoneTamed DEF LaunchReserved
  <2> QED
    BY <2>1, <2>2
<1>2. CASE StartAfterRecover(w)
  BY <1>2, ReadsAreTame, WakeTamed, DoneTamed DEF StartAfterRecover
<1>3. CASE RunTask(w) \/ RunTaskFailed(w)
  BY <1>3, RunPromise
<1>4. CASE RunTaskRefused(w)
  BY <1>4, GotoTamed DEF RunTaskRefused, Steps, Telling, Tame, cloud
<1>6. CASE BindTask(w)
  <2>0. wk[w].pc = "launched" /\ Launching(wk[w]) /\ Tame
    BY <1>6, ReadsAreTame DEF BindTask, At, Launching
  <2>1. CASE Can(rec, "provisioned") /\ (wk[w].wake \/ rec.task = None)
    <3>0. rec.state = "provisioning" /\ wk[w].task \in Nat
      BY <2>1, WorkerFields DEF Can, Sources
    <3>1. PICK next : next = MarkProvisioned(rec, wk[w].task)
      OBVIOUS
    <3>2. next \in Records /\ Lawful(rec, next) /\ Captured(next) /\ next.state = "running"
      <4>1. next \in Records /\ Lawful(rec, next)
        BY <2>1, <3>0, <3>1, MarkedWithId, LawfulLaunch
      <4>2. Captured(next) /\ next.state = "running"
        BY <3>0, <3>1, CapturedAfter, StateAfter, ZenonT(60)
      <4> QED
        BY <4>1, <4>2
    <3>3. PICK r : /\ r = [wk[w] EXCEPT !.pc = "commit", !.op = "bind", !.seen = rec,
                                        !.next = next]
                   /\ Become(w, r)
      BY <1>6, <2>1, <3>1 DEF BindTask, Propose
    <3>4. /\ r \in WorkerStates /\ r.pc = "commit" /\ r.op = "bind" /\ r.seen = rec
          /\ r.next = next /\ r.task = wk[w].task
      BY <3>2, <3>3 DEF WorkerStates, Steps, Writes
    <3>5. Honest(r)
      BY <3>0, <3>2, <3>4 DEF Honest, Current, Knows, Justified, Quiet, Absent
    <3> QED
      BY <2>0, <3>3, <3>4, <3>5, Tamed
  <2>2. CASE ~(Can(rec, "provisioned") /\ (wk[w].wake \/ rec.task = None))
    <3>1. PICK r : r = [wk[w] EXCEPT !.pc = "compensate"] /\ Become(w, r)
      BY <1>6, <2>2 DEF BindTask, Goto, Become
    <3>2. /\ r \in WorkerStates /\ r.pc = "compensate" /\ r.seen = wk[w].seen
          /\ r.task = wk[w].task
      BY <3>1 DEF WorkerStates, Steps
    <3> QED
      BY <2>0, <3>1, <3>2, PlainHonest, Tamed DEF Telling
  <2> QED
    BY <2>1, <2>2
<1>7. CASE Compensate(w)
  BY <1>7, DoneTamed DEF Compensate, Tame, StopTask, cloud
<1>8. CASE WaitForCapacity(w)
  <2>0. Tame
    BY <1>8, ReadsAreTame DEF WaitForCapacity
  <2>1. CASE rec.state = Absent
    BY <1>8, <2>0, <2>1, DoneTamed DEF WaitForCapacity, CanDeferPlacement, Absent
  <2>2. CASE rec.state # Absent /\ CanDeferPlacement(rec)
    <3>1. Propose(w, "defer", DeferPlacement(rec)) /\ rec.state = "provisioning"
      BY <1>8, <2>2 DEF WaitForCapacity, CanDeferPlacement
    <3> QED
      BY <2>0, <2>2, <3>1, MarkedRecords, LawfulLaunch, CapturedAfter, StateAfter, ProposeTamed
         DEF Writes, Live
  <2>3. CASE rec.state # Absent /\ ~CanDeferPlacement(rec)
    <3>1. PICK r : /\ r = [wk[w] EXCEPT !.pc = "launchFailed", !.wake = (rec.snap # None)]
                   /\ Become(w, r)
      BY <1>8, <2>3 DEF WaitForCapacity
    <3>2. r \in WorkerStates /\ r.pc = "launchFailed" /\ r.seen = wk[w].seen
      BY <3>1 DEF WorkerStates, Steps
    <3> QED
      BY <2>0, <3>1, <3>2, PlainTamed DEF Telling
  <2> QED
    BY <2>1, <2>2, <2>3
<1>9. CASE LaunchFailed(w)
  <2>0. Tame
    BY <1>9, ReadsAreTame DEF LaunchFailed
  <2>1. CASE wk[w].wake /\ rec.state = "provisioning"
    <3>1. PICK next : next = MarkStopped(rec, None)
      OBVIOUS
    <3>2. next \in Records /\ Lawful(rec, next) /\ Captured(next) /\ next.state = "stopped"
      BY <2>1, <3>1, RolledBack
    <3>3. Propose(w, "rollback", next)
      BY <1>9, <2>1, <3>1 DEF LaunchFailed
    <3> QED
      BY <2>0, <2>1, <3>2, <3>3, ProposeTamed DEF Writes, Live, Absent
  <2>2. CASE ~wk[w].wake /\ Can(rec, "fail")
    <3>1. Propose(w, "fail", MarkProvisioningFailed(rec))
      BY <1>9, <2>2 DEF LaunchFailed
    <3>2. rec.state \notin {Absent, "deleting", "terminated"}
      BY <2>2 DEF Can, Sources, Absent
    <3> QED
      BY <2>0, <2>2, <3>1, <3>2, MarkedRecords, LawfulLaunch, CapturedAfter, StateAfter,
         ProposeTamed DEF Writes
  <2>3. CASE ~(wk[w].wake /\ rec.state = "provisioning") /\ ~(~wk[w].wake /\ Can(rec, "fail"))
    BY <1>9, <2>0, <2>3, DoneTamed DEF LaunchFailed
  <2> QED
    BY <2>1, <2>2, <2>3
<1> QED
  BY <1>1, <1>2, <1>3, <1>4, <1>6, <1>7, <1>8, <1>9 DEF Launch

\* CreateSnapshot adds a copy of the volume and touches nothing else of the invariant.
LEMMA SnapshotTaken ==
    ASSUME TypeOK, NEW t, NEW b, NEW s, CreateSnapshot(t, b), s = Len(source) + 1,
           rec' = rec, quiet' = quiet
    PROVE  Tame /\ Copy(s, t)' /\ s \in Nat \ {0}
<1>1. source \in Seq(Nat) /\ Len(source) \in Nat /\ source' = Append(source, t)
  BY DEF TypeOK, CreateSnapshot
<1>2. Copy(s, t)'
  BY <1>1 DEF Copy
<1>3. Tame
  BY <1>1 DEF Tame, CreateSnapshot
<1> QED
  BY <1>1, <1>2, <1>3

\* The write that an idle stop or a teardown prepares after its snapshot.
LEMMA CopyPromise ==
    ASSUME JInv, IInv', NEW w \in Worker,
           \/ StopSnapshot(w) /\ ~VolumeGone(wk[w].seen.task)
           \/ TeardownSnapshot(w) /\ ~VolumeGone(wk[w].seen.task)
    PROVE  JInv'
<1>0. /\ TypeOK /\ TypeOK' /\ wk[w] \in WorkerStates /\ wk[w].seen \in Records
      /\ Honest(wk[w]) /\ rec' = rec
  BY Known DEF IInv, StopSnapshot, TeardownSnapshot
<1>1. PICK s, x : s = Len(source) + 1 /\ x = wk[w].seen
  OBVIOUS
<1>2. /\ Tame /\ Copy(s, x.task)' /\ s \in Nat /\ s # None
  <2>1. quiet' = quiet /\ \E b : CreateSnapshot(x.task, b)
    BY <1>1 DEF StopSnapshot, TeardownSnapshot
  <2>2. Tame /\ Copy(s, x.task)' /\ s \in Nat \ {0}
    BY <1>0, <1>1, <2>1, SnapshotTaken
  <2> QED
    BY <2>2 DEF None
<1>3. Evolves /\ Len(hydrated) <= Len(hydrated')
  BY <1>0, <1>2, TameEvolves
<1>4. Captured(wk[w].seen) /\ Current(wk[w].seen)
  BY <1>0 DEF Honest
<1>5. x \in Records /\ x = wk[w].seen
  BY <1>0, <1>1
<1>6. Captured(x)' /\ Current(x)' /\ Captured(x)
  BY <1>0, <1>3, <1>4, <1>5, Known, CapturedStays, CurrentStays
<1>7. CASE StopSnapshot(w)
  <2>1. /\ Can(x, "stop") /\ x.state # Absent /\ ~x.alwaysOn
        /\ x.version = rec.version => quiet
    BY <1>0, <1>5, <1>7 DEF StopSnapshot, At, Honest, Knows, Quiet
  <2>2. x.state \notin {"deleting", "terminated"} /\ ~x.captured
    BY <1>6, <2>1 DEF Can, Sources, Captured
  <2>3. PICK next : next = MarkStopped(x, s)
    OBVIOUS
  <2>4. next \in Records /\ Lawful(x, next)
    <3>1. TRUE \in BOOLEAN
      OBVIOUS
    <3> QED
      BY <1>2, <1>5, <2>1, <2>3, <3>1, MarkedWithId, LawfulStop
  <2>5. ~next.captured /\ next.state = "stopped" /\ next.snap = s
    BY <1>2, <2>2, <2>3 DEF MarkStopped, Records, Targets
  <2>6. PICK r : /\ r = [wk[w] EXCEPT !.pc = "commit", !.op = "stop", !.snap = s, !.next = next]
                 /\ Become(w, r)
    BY <1>1, <1>5, <1>7, <2>3 DEF StopSnapshot
  <2>7. r.pc = "commit" /\ r.op = "stop" /\ r.seen = x /\ r.next = next
    BY <1>0, <1>5, <2>6 DEF WorkerStates
  <2>8. Captured(next)'
    BY <2>5 DEF Captured
  <2>9. quiet' = quiet
    BY <1>2 DEF Tame
  <2>10. Honest(r)'
    BY <1>0, <1>2, <1>6, <2>1, <2>4, <2>5, <2>7, <2>8, <2>9
       DEF Honest, Knows, Justified, Quiet
  <2> QED
    BY <1>0, <1>3, <2>6, <2>7, <2>10, Advance DEF Become, Launching
<1>8. CASE TeardownSnapshot(w)
  <2>1. x.state = "deleting"
    BY <1>0, <1>5, <1>8 DEF TeardownSnapshot, At, Honest, Knows
  <2>3. PICK next : next = RecordSnapshot(x, s)
    OBVIOUS
  <2>4. next \in Records /\ Lawful(x, next)
    <3>1. TRUE \in BOOLEAN
      OBVIOUS
    <3> QED
      BY <1>2, <1>5, <2>1, <2>3, <3>1, MarkedWithId, LawfulStop
  <2>5. next.state = "deleting" /\ next.snap = s /\ next.task = x.task /\ next.captured
    BY <1>5, <2>1, <2>3 DEF RecordSnapshot, Records
  <2>6. PICK r : /\ r = [wk[w] EXCEPT !.pc = "commit", !.op = "recordTeardown", !.snap = s,
                                      !.next = next]
                 /\ Become(w, r)
    BY <1>1, <1>5, <1>8, <2>3 DEF TeardownSnapshot
  <2>7. r.pc = "commit" /\ r.op = "recordTeardown" /\ r.seen = x /\ r.next = next
    BY <1>0, <1>5, <2>6 DEF WorkerStates
  <2>8. Captured(next)'
    BY <1>2, <2>5 DEF Captured
  <2>10. Honest(r)'
    BY <1>6, <2>1, <2>4, <2>5, <2>7, <2>8 DEF Honest, Knows, Justified, Quiet, Live, Absent
  <2> QED
    BY <1>0, <1>3, <2>6, <2>7, <2>10, Advance DEF Become, Launching
<1> QED
  BY <1>7, <1>8

\* The steps of a report, a snapshot, a stop and the recovery sweeps.
LEMMA StopPromise ==
    ASSUME JInv, IInv', NEW w \in Worker, StopOrRecover(w)
    PROVE  JInv'
<1>0. /\ rec \in Records /\ wk[w] \in WorkerStates /\ wk[w].seen \in Records
      /\ Captured(rec) /\ None \in Nat /\ TRUE \in BOOLEAN
      /\ Idle \in WorkerStates /\ Idle.seen = NoRecord
  BY Given
<1> USE <1>0
<1>00. TypeOK /\ wk[w].snap \in Nat /\ Len(source) + 1 \in Nat
  <2>1. TypeOK
    BY Known
  <2>2. Len(source) + 1 \in Nat
    BY <2>1 DEF TypeOK
  <2>3. wk[w].snap \in Nat
    BY WorkerFields
  <2> QED
    BY <2>1, <2>2, <2>3
<1>1. CASE HeartbeatAgain(w)
  <2>0. Tame
    BY <1>1, ReadsAreTame DEF HeartbeatAgain
  <2>1. CASE Live(rec) /\ Propose(w, "heartbeat", MarkActivity(rec))
    BY <2>0, <2>1, MarkedRecords, LawfulStop, CapturedAfter, StateAfter, ProposeTamed
       DEF Writes, Live, Absent
  <2>2. CASE (Live(rec) \/ rec.state = "provisioning") /\ Propose(w, "report", rec)
    BY <2>0, <2>2, LawfulStop, ProposeTamed DEF Writes, Live, Absent
  <2>3. CASE Done(w)
    BY <2>0, <2>3, DoneTamed
  <2> QED
    BY <1>1, <2>1, <2>2, <2>3 DEF HeartbeatAgain, ProposeBeat, CanMarkActivity
<1>2. CASE TakeSnapshot(w)
  <2>1. CASE VolumeGone(wk[w].seen.task)
    BY <1>2, <2>1, DoneTamed DEF TakeSnapshot, Tame, cloud
  <2>2. CASE ~VolumeGone(wk[w].seen.task)
    <3>0. Tame /\ Len(source) + 1 # None
      BY <1>2, <1>00, <2>2, SnapshotTaken DEF TakeSnapshot, None
    <3>1. PICK r : /\ r = [wk[w] EXCEPT !.pc = "recordSnapshot", !.snap = Len(source) + 1]
                   /\ Become(w, r)
      BY <1>2, <2>2 DEF TakeSnapshot
    <3>2. /\ r \in WorkerStates /\ r.pc = "recordSnapshot" /\ r.seen = wk[w].seen
          /\ r.snap # None
      BY <1>00, <3>0, <3>1 DEF WorkerStates, Steps
    <3>3. Honest(r)
      BY <3>2, Known DEF Honest, Knows, Justified, Quiet
    <3> QED
      BY <3>0, <3>1, <3>2, <3>3, Tamed DEF Launching
  <2> QED
    BY <2>1, <2>2
<1>3. CASE RecordTaken(w)
  <2>0. Tame
    BY <1>3, ReadsAreTame DEF RecordTaken
  <2>1. CASE Live(rec) /\ rec.snap = wk[w].seen.snap
    <3>1. PICK next : next = RecordSnapshot(rec, wk[w].snap)
      OBVIOUS
    <3>0. wk[w].snap # None
      BY <1>3, Known DEF RecordTaken, At, Honest, Knows
    <3>2. next \in Records /\ Lawful(rec, next)
      BY <1>00, <2>1, <3>0, <3>1, MarkedWithId, LawfulStop
    <3>3. Captured(next) /\ next.state = rec.state
      BY <2>1, <3>1 DEF RecordSnapshot, Records, Captured, Live
    <3>4. Propose(w, "recordSnapshot", next)
      BY <1>3, <2>1, <3>1 DEF RecordTaken
    <3> QED
      BY <2>0, <2>1, <3>0, <3>2, <3>3, <3>4, ProposeTamed DEF Writes, Live, Absent
  <2>2. CASE ~(Live(rec) /\ rec.snap = wk[w].seen.snap)
    BY <1>3, <2>0, <2>2, DoneTamed DEF RecordTaken
  <2> QED
    BY <2>1, <2>2
<1>4. CASE Stop(w)
  <2>0. Tame
    BY <1>4, ReadsAreTame DEF Stop
  <2>1. CASE ~(Can(rec, "stop") /\ IdleGuard)
    BY <1>4, <2>0, <2>1, DoneTamed DEF Stop
  <2>2. CASE Can(rec, "stop") /\ IdleGuard /\ rec.task # None
    <3>1. PICK r : /\ r = [Idle EXCEPT !.pc = "stopSnapshot", !.seen = rec, !.task = rec.task]
                   /\ Become(w, r)
      BY <1>4, <2>2 DEF Stop
    <3>2. r \in WorkerStates /\ r.pc = "stopSnapshot" /\ r.seen = rec
      BY <3>1 DEF WorkerStates, Steps, Records
    <3>3. rec.state # Absent /\ quiet /\ ~rec.alwaysOn
      BY <2>2 DEF IdleGuard, StillIdle, Can, Sources, Absent
    <3>4. Honest(r)
      BY <2>2, <3>2, <3>3 DEF Honest, Current, Knows, Justified, Quiet
    <3> QED
      BY <2>0, <3>1, <3>2, <3>4, Tamed DEF Launching
  <2>3. CASE Can(rec, "stop") /\ IdleGuard /\ rec.task = None
    <3>1. quiet /\ ~rec.alwaysOn
      BY <2>3 DEF IdleGuard, StillIdle
    <3>2. rec.state = "provisioning"
      BY <2>3, Known DEF Can, Sources, Bound, None
    <3>3. PICK next : next = MarkStopped(rec, None)
      OBVIOUS
    <3>4. next \in Records /\ Lawful(rec, next) /\ Captured(next) /\ next.state = "stopped"
      BY <3>2, <3>3, RolledBack
    <3>5. Propose(w, "stop", next)
      BY <1>4, <2>3, <3>3 DEF Stop
    <3> QED
      BY <2>0, <3>1, <3>2, <3>4, <3>5, ProposeTamed DEF Writes, Live, Absent
  <2> QED
    BY <2>1, <2>2, <2>3
<1>5. CASE StopSnapshot(w)
  <2>1. CASE VolumeGone(wk[w].seen.task)
    BY <1>5, <2>1, DoneTamed DEF StopSnapshot, Tame, cloud
  <2>2. CASE ~VolumeGone(wk[w].seen.task)
    BY <1>5, <2>2, CopyPromise
  <2> QED
    BY <2>1, <2>2
<1>6. CASE ReleaseTask(w)
  BY <1>6, DoneTamed DEF ReleaseTask, Tame, StopTask, cloud
<1>7. CASE FinalSnapshot(w)
  <2>1. CASE VolumeGone(wk[w].seen.task)
    BY <1>7, <2>1, GotoTamed DEF FinalSnapshot, Steps, Telling, Tame, cloud
  <2>2. CASE ~VolumeGone(wk[w].seen.task)
    <3>0. Tame
      BY <1>7, <1>00, <2>2, SnapshotTaken DEF FinalSnapshot
    <3>1. PICK r : /\ r = [wk[w] EXCEPT !.pc = "recheck", !.snap = Len(source) + 1]
                   /\ Become(w, r)
      BY <1>7, <2>2 DEF FinalSnapshot
    <3>2. r \in WorkerStates /\ r.pc = "recheck" /\ r.seen = wk[w].seen
      BY <1>00, <3>1 DEF WorkerStates, Steps
    <3> QED
      BY <3>0, <3>1, <3>2, PlainTamed DEF Telling
  <2> QED
    BY <2>1, <2>2
<1>8. CASE RecheckStopping(w)
  <2>0. Tame
    BY <1>8, ReadsAreTame DEF RecheckStopping
  <2>1. CASE rec.state = "stopping"
    <3>1. PICK r : /\ r = [wk[w] EXCEPT !.pc = "kill", !.seen = rec, !.task = rec.task]
                   /\ Become(w, r)
      BY <1>8, <2>1 DEF RecheckStopping
    <3>2. r \in WorkerStates /\ r.pc = "kill" /\ r.seen = rec
      BY <3>1 DEF WorkerStates, Steps, Records
    <3>3. Honest(r)
      BY <2>1, <3>2 DEF Honest, Current, Knows, Justified, Quiet
    <3> QED
      BY <2>0, <3>1, <3>2, <3>3, Tamed DEF Launching
  <2>2. CASE rec.state # "stopping"
    BY <1>8, <2>0, <2>2, DoneTamed DEF RecheckStopping
  <2> QED
    BY <2>1, <2>2
<1>9. CASE KillStopping(w)
  <2>0. Tame
    BY <1>9 DEF KillStopping, Tame, StopTask, cloud
  <2>1. CASE Done(w)
    BY <2>0, <2>1, DoneTamed
  <2>2. CASE ~Done(w)
    <3>0. /\ wk[w].seen.state = "stopping" /\ Captured(wk[w].seen) /\ Current(wk[w].seen)
      BY <1>9, Known DEF KillStopping, At, Honest, Knows
    <3>1. PICK next : next = MarkStopped(wk[w].seen, wk[w].snap)
      OBVIOUS
    <3>2. next \in Records /\ Lawful(wk[w].seen, next)
      BY <1>00, <3>0, <3>1, MarkedWithId, LawfulStop
    <3>3. ~next.captured /\ next.state = "stopped"
      BY <3>0, <3>1 DEF MarkStopped, Records, Targets, Captured
    <3>4. PICK r : /\ r = [wk[w] EXCEPT !.pc = "commit", !.op = "finishStop", !.next = next]
                   /\ Become(w, r)
      BY <1>9, <2>2, <3>1 DEF KillStopping
    <3>5. /\ r \in WorkerStates /\ r.pc = "commit" /\ r.op = "finishStop"
          /\ r.seen = wk[w].seen /\ r.next = next
      BY <3>2, <3>4 DEF WorkerStates, Steps, Writes
    <3>6. Captured(next)
      BY <3>3 DEF Captured
    <3>7. Honest(r)
      BY <3>0, <3>2, <3>3, <3>5, <3>6 DEF Honest, Knows, Justified, Quiet, Live, Absent
    <3> QED
      BY <2>0, <3>4, <3>5, <3>7, Tamed DEF Launching
  <2> QED
    BY <2>1, <2>2
<1>10. CASE RecoverStuckProvisioning(w)
  <2>0. Tame
    BY <1>10, ReadsAreTame DEF RecoverStuckProvisioning
  <2>1. CASE rec.state # "provisioning"
    BY <1>10, <2>0, <2>1, DoneTamed DEF RecoverStuckProvisioning
  <2>2. CASE rec.state = "provisioning" /\ rec.snap = None
    <3>1. Propose(w, "fail", MarkProvisioningFailed(rec)) /\ Can(rec, "fail")
      BY <1>10, <2>2 DEF RecoverStuckProvisioning, Can, Sources
    <3> QED
      BY <2>0, <2>2, <3>1, MarkedRecords, LawfulLaunch, CapturedAfter, StateAfter, ProposeTamed
         DEF Writes, Absent
  <2>3. CASE rec.state = "provisioning" /\ rec.snap # None
    <3>1. PICK next : next = MarkStopped(rec, None)
      OBVIOUS
    <3>2. next \in Records /\ Lawful(rec, next) /\ Captured(next) /\ next.state = "stopped"
      BY <2>3, <3>1, RolledBack
    <3>3. Propose(w, "rollback", next)
      BY <1>10, <2>3, <3>1 DEF RecoverStuckProvisioning
    <3> QED
      BY <2>0, <2>3, <3>2, <3>3, ProposeTamed DEF Writes, Live, Absent
  <2> QED
    BY <2>1, <2>2, <2>3
<1>11. CASE CompareSnapshots(w)
  BY <1>11, ReadsAreTame, GotoTamed, DoneTamed DEF CompareSnapshots, Steps, Telling
<1>12. CASE MarkSnapshotLostFor(w)
  <2>0. Tame
    BY <1>12, ReadsAreTame DEF MarkSnapshotLostFor
  <2>1. CASE CanMarkSnapshotLost(rec)
    <3>1. /\ Propose(w, "snapshotLost", MarkSnapshotLost(rec))
          /\ rec.state \in {"stopped", "error"}
      BY <1>12, <2>1 DEF MarkSnapshotLostFor, CanMarkSnapshotLost
    <3> QED
      BY <2>0, <2>1, <3>1, MarkedRecords, LawfulLaunch, CapturedAfter, StateAfter, ProposeTamed, ZenonT(60)
         DEF Writes, Absent
  <2>2. CASE ~CanMarkSnapshotLost(rec)
    BY <1>12, <2>0, <2>2, DoneTamed DEF MarkSnapshotLostFor
  <2> QED
    BY <2>1, <2>2
<1> QED
  BY <1>1, <1>2, <1>3, <1>4, <1>5, <1>6, <1>7, <1>8, <1>9, <1>10, <1>11, <1>12
     DEF StopOrRecover

\* The steps of a teardown and of the collectors that leave the row alone.
LEMMA TeardownPromise ==
    ASSUME JInv, IInv', NEW w \in Worker, TeardownOrReap(w), ~PurgeTombstoneRecord(w)
    PROVE  JInv'
<1>0. /\ rec \in Records /\ wk[w] \in WorkerStates /\ wk[w].seen \in Records
      /\ None \in Nat /\ TRUE \in BOOLEAN
  BY Given
<1> USE <1>0
<1>1. CASE TeardownSnapshot(w)
  <2>1. CASE VolumeGone(wk[w].seen.task)
    BY <1>1, <2>1, DoneTamed DEF TeardownSnapshot, Tame, cloud
  <2>2. CASE ~VolumeGone(wk[w].seen.task)
    BY <1>1, <2>2, CopyPromise
  <2> QED
    BY <2>1, <2>2
<1>2. CASE TagRetained(w)
  <2>0. Tame
    BY <1>2 DEF TagRetained, Tame
  <2>1. CASE wk[w].seen.snap \in snaps
    <3>1. PICK r : r = [wk[w] EXCEPT !.pc = "tearTask"] /\ Become(w, r)
      BY <1>2, <2>1 DEF TagRetained, Goto, Become
    <3>2. r \in WorkerStates /\ r.pc = "tearTask" /\ r.seen = wk[w].seen
      BY <3>1 DEF WorkerStates, Steps
    <3>3. Honest(r)
      BY <1>2, <3>2, Known DEF TagRetained, At, Honest, Knows, Justified, Quiet
    <3> QED
      BY <2>0, <3>1, <3>2, <3>3, Tamed DEF Launching
  <2>2. CASE wk[w].seen.snap \notin snaps
    BY <1>2, <2>0, <2>2, DoneTamed DEF TagRetained
  <2> QED
    BY <2>1, <2>2
<1>3. CASE TeardownTask(w)
  <2>0. Tame
    BY <1>3 DEF TeardownTask, Tame, StopTask, cloud
  <2>1. /\ wk[w].seen.state = "deleting" /\ (wk[w].seen.task = None \/ wk[w].seen.captured)
        /\ Captured(wk[w].seen) /\ Current(wk[w].seen)
    BY <1>3, Known DEF TeardownTask, At, Honest, Knows
  <2>2. PICK next : next = MarkTerminated(wk[w].seen)
    OBVIOUS
  <2>3. next \in Records
    BY <2>2, MarkedRecords
  <2>4. Lawful(wk[w].seen, next)
    BY <2>1, <2>2, LawfulStop
  <2>5. /\ next.state = "terminated" /\ next.task = None
        /\ next.snap = wk[w].seen.snap /\ next.captured = wk[w].seen.captured
    BY <2>2 DEF MarkTerminated, Records, Targets
  <2>6. Captured(next)
    BY <2>5 DEF Captured
  <2>7. wk[w].seen.task # None => Copy(next.snap, wk[w].seen.task)
    BY <2>1, <2>5 DEF Captured
  <2>8. PICK r : /\ r = [wk[w] EXCEPT !.pc = "commit", !.op = "terminate", !.next = next]
                 /\ Become(w, r)
    BY <1>3, <2>2 DEF TeardownTask
  <2>9. /\ r \in WorkerStates /\ r.pc = "commit" /\ r.op = "terminate"
        /\ r.seen = wk[w].seen /\ r.next = next
    BY <2>3, <2>8 DEF WorkerStates, Steps, Writes
  <2>10. Honest(r)
    BY <2>1, <2>4, <2>5, <2>6, <2>7, <2>9 DEF Honest, Knows, Justified, Quiet, Live, Absent
  <2> QED
    BY <2>0, <2>8, <2>9, <2>10, Tamed DEF Launching
<1>5. CASE ReapSnapshot(w)
  BY <1>5, DoneTamed DEF ReapSnapshot, DeleteSnapshot, Tame
<1>6. CASE AdminDelete(w)
  BY <1>6, DoneTamed DEF AdminDelete, DeleteSnapshot, Tame
<1>7. CASE ReapOrphanTasks(w)
  BY <1>7, GotoTamed DEF ReapOrphanTasks, Steps, Telling, Tame
<1>8. CASE CollectGarbage(w)
  BY <1>8, DoneTamed DEF CollectGarbage, Tame
<1> QED
  BY <1>1, <1>2, <1>3, <1>5, <1>6, <1>7, <1>8 DEF TeardownOrReap

-----------------------------------------------------------------------------
(* Steps that write the row. *)

\* The row gets a new version and a task nobody else is about to bind.
LEMMA RowMoves ==
    ASSUME JInv, IInv', Evolves, hydrated' = hydrated, Captured(rec)',
           NEW w \in Worker, NEW r, wk' = [wk EXCEPT ![w] = r], Honest(r)',
           ~Launching(r), r.pc # "reap", wk[w].pc # "reap",
           \/ rec'.task \in {rec.task, None}
           \/ Launching(wk[w]) /\ rec'.task = wk[w].task
    PROVE  JInv'
<1>0. TypeOK /\ TypeOK'
  BY DEF JInv, IInv
<1>1. \A v \in Worker : wk'[v] = IF v = w THEN r ELSE wk[v]
  BY <1>0 DEF TypeOK
<1>2. ASSUME NEW v \in Worker
      PROVE  Honest(wk[v])' /\ Graced(wk[v])'
  <2>1. CASE v = w
    <3>1. wk'[v] = r
      BY <1>1, <2>1
    <3> QED
      BY <3>1 DEF Honest, Captured, Copy, Current, Knows, Justified, Quiet, Graced
  <2>2. CASE v # w
    <3>1. wk'[v] = wk[v]
      BY <1>1, <1>2, <2>2
    <3>2. PICK q : q = wk[v]
      OBVIOUS
    <3>3. Honest(q)'
      BY <1>0, <1>2, <3>2, Known, HonestStays
    <3>4. Honest(wk[v])'
      BY <3>1, <3>2, <3>3 DEF Honest, Captured, Copy, Current, Knows, Justified, Quiet
    <3>5. Graced(wk[v])'
      BY <1>1, <1>2, <3>1, Known DEF Graced
    <3> QED
      BY <3>4, <3>5
  <2> QED
    BY <2>1, <2>2
<1> QED
  BY <1>2 DEF JInv

\* A write that wins.
LEMMA CommitPromise ==
    ASSUME JInv, IInv', NEW w \in Worker, Commit(w)
    PROVE  JInv' /\ wk[w].seen = rec /\ Justified(wk[w])
<1>0. /\ TypeOK /\ TypeOK' /\ wk[w] \in WorkerStates /\ wk[w].seen \in Records
      /\ rec \in Records /\ Honest(wk[w]) /\ rec.version \in Nat
  BY Known DEF IInv, Records
<1>1. /\ wk[w].pc = "commit" /\ rec.version = wk[w].seen.version /\ rec' = Written(w)
      /\ UNCHANGED <<live, hydrated, source>>
  BY DEF Commit, At, WriteWins, Unchanged, cloud
<1>2. wk[w].seen = rec /\ Justified(wk[w])
  BY <1>0, <1>1 DEF Honest, Justified, Current
<1>3. /\ rec'.version = rec.version + 1 /\ rec'.task = wk[w].next.task
      /\ rec'.state = wk[w].next.state /\ rec'.snap = wk[w].next.snap
      /\ rec'.captured = wk[w].next.captured
  BY <1>0, <1>1 DEF Written, WorkerStates, Records
<1>4. Evolves
  BY <1>0, <1>1, <1>3 DEF Evolves
<1>5. Captured(wk[w].next) /\ Captured(rec)'
  <2>1. Captured(wk[w].next)
    BY <1>1, <1>2 DEF Justified
  <2> QED
    BY <1>1, <1>3, <2>1 DEF Captured, Copy
<1>6. PICK r : /\ wk' = [wk EXCEPT ![w] = r]
               /\ \/ r = Idle
                  \/ /\ AfterWrite(wk[w].op) # "idle"
                     /\ r = [wk[w] EXCEPT
                               !.pc = AfterWrite(wk[w].op), !.op = "none",
                               !.seen = IF wk[w].op \in {"wake", "stop"} THEN @ ELSE Written(w),
                               !.next = NoRecord]
  BY DEF Commit, Become, Done
<1>7. /\ r.pc \in {"idle", "launch", "reserved", "restart", "release", "tearTask"}
      /\ r.pc = "tearTask" => wk[w].op = "recordTeardown" /\ r.seen = rec'
      /\ r.seen \in {NoRecord, wk[w].seen, rec'}
  <2>1. Idle.pc = "idle" /\ Idle.seen = NoRecord
    BY DEF Idle
  <2> QED
    BY <1>0, <1>1, <1>6, <2>1 DEF AfterWrite, WorkerStates
<1>8. Honest(r)'
  <2>1. PICK x, y : x = wk[w].seen /\ y = rec'
    OBVIOUS
  <2>2. Captured(x)' /\ Current(x)'
    BY <1>0, <1>4, <2>1, Known, CapturedStays, CurrentStays DEF Honest
  <2>3. Captured(y)' /\ Current(y)'
    BY <1>5, <2>1 DEF Captured, Copy, Current
  <2>4. Captured(NoRecord)' /\ Current(NoRecord)'
    BY DEF NoRecord, Reserve, Captured, Current, Absent
  <2>5. Captured(r.seen)' /\ Current(r.seen)'
    <3>1. r.seen \in {NoRecord, x, y}
      BY <1>7, <2>1
    <3> QED
      BY <2>2, <2>3, <2>4, <3>1
  <2>6. r.pc = "tearTask" => r.seen.state = "deleting" /\ r.seen.captured
    BY <1>0, <1>1, <1>3, <1>7 DEF Honest, Knows
  <2> QED
    BY <1>7, <2>5, <2>6 DEF Honest, Knows, Justified, Quiet
<1>9. \/ rec'.task \in {rec.task, None}
      \/ Launching(wk[w]) /\ rec'.task = wk[w].task
  BY <1>1, <1>2, <1>3 DEF JInv, IInv, NextOK, Writable, Launching
<1>10. ~Launching(r) /\ r.pc # "reap" /\ wk[w].pc # "reap" /\ hydrated' = hydrated
  BY <1>1, <1>7 DEF Launching
<1> QED
  BY <1>2, <1>4, <1>5, <1>6, <1>8, <1>9, <1>10, RowMoves

\* A write that loses.
LEMMA ConflictPromise ==
    ASSUME JInv, IInv', NEW w \in Worker, Conflict(w)
    PROVE  JInv'
<1>0. wk[w] \in WorkerStates /\ wk[w].pc = "commit" /\ Tame /\ Honest(wk[w])
  BY Known, ReadsAreTame DEF Conflict, At
<1>1. CASE AfterConflict(wk[w].op, wk[w].tries) = "idle"
  BY <1>0, <1>1, DoneTamed DEF Conflict
<1>2. CASE AfterConflict(wk[w].op, wk[w].tries) # "idle"
  <2>1. PICK pc \in {"compensate", "beat", "recordSnapshot"} :
           /\ pc = AfterConflict(wk[w].op, wk[w].tries)
           /\ pc = "compensate" => wk[w].op = "bind"
           /\ pc = "recordSnapshot" => wk[w].op = "recordSnapshot"
    BY <1>2 DEF AfterConflict
  <2>2. PICK r : r = [wk[w] EXCEPT !.pc = pc, !.tries = 1, !.next = NoRecord] /\ Become(w, r)
    BY <1>2, <2>1 DEF Conflict
  <2>3. r \in WorkerStates
    BY <1>0, <2>1, <2>2, RetriedType DEF Steps
  <2>4. r.pc = pc /\ r.seen = wk[w].seen /\ r.task = wk[w].task /\ r.snap = wk[w].snap
    BY <1>0, <2>2 DEF WorkerStates
  <2>5. Honest(r)
    BY <1>0, <2>1, <2>4 DEF Honest, Knows, Justified, Quiet
  <2>6. Launching(r) => Launching(wk[w])
    BY <1>0, <2>1, <2>4 DEF Launching
  <2> QED
    BY <1>0, <2>1, <2>2, <2>3, <2>4, <2>5, <2>6, Tamed
<1> QED
  BY <1>1, <1>2

\* A row that is removed.
LEMMA PurgePromise ==
    ASSUME JInv, IInv', NEW w \in Worker, PurgeTombstoneRecord(w)
    PROVE  JInv'
<1>0. /\ TypeOK /\ TypeOK' /\ wk[w] \in WorkerStates /\ wk[w].pc = "purging"
      /\ rec.version \in Nat
  BY Known DEF IInv, Records, PurgeTombstoneRecord, At
<1>1. CASE ~Unchanged(w)
  BY <1>1, DoneTamed DEF PurgeTombstoneRecord, RemoveThenReap, Tame
<1>2. CASE Unchanged(w)
  <2>1. /\ rec' = [NoRecord EXCEPT !.version = rec.version + 1]
        /\ UNCHANGED <<live, hydrated, source>>
    BY <1>2 DEF PurgeTombstoneRecord, RemoveThenReap
  <2>2. rec'.version = rec.version + 1 /\ rec'.task = None /\ ~rec'.captured
    BY <2>1 DEF NoRecord, Reserve, None
  <2>3. Evolves /\ Captured(rec)'
    BY <1>0, <2>1, <2>2 DEF Evolves, Captured
  <2>4. PICK r : r = [wk[w] EXCEPT !.pc = "reapSnapshot"] /\ wk' = [wk EXCEPT ![w] = r]
    BY <1>2 DEF PurgeTombstoneRecord, RemoveThenReap, Goto
  <2>5. r \in WorkerStates /\ r.pc = "reapSnapshot" /\ r.seen = wk[w].seen
    BY <1>0, <2>4 DEF WorkerStates, Steps
  <2>6. Honest(r)'
    BY <1>0, <2>3, <2>5, Known, PlainHonest, HonestStays DEF Telling
  <2> QED
    BY <1>0, <2>1, <2>2, <2>3, <2>4, <2>5, <2>6, RowMoves DEF Launching
<1> QED
  BY <1>1, <1>2

\* A step of the environment.
LEMMA NobodyPromise ==
    ASSUME JInv, IInv', Evolves, rec' = rec, wk' = wk, hydrated' = hydrated
    PROVE  JInv'
<1>0. TypeOK /\ TypeOK' /\ Captured(rec)
  BY DEF JInv, IInv
<1>1. Captured(rec)'
  BY <1>0, CapturedStays
<1>2. ASSUME NEW v \in Worker
      PROVE  Honest(wk[v])' /\ Graced(wk[v])'
  <2>1. PICK q : q = wk[v]
    OBVIOUS
  <2>2. Honest(q)'
    BY <1>0, <1>2, <2>1, Known, HonestStays
  <2>3. Honest(wk[v])'
    BY <2>1, <2>2 DEF Honest, Captured, Copy, Current, Knows, Justified, Quiet
  <2>4. Graced(wk[v])'
    BY <1>2, Known DEF Graced
  <2> QED
    BY <2>3, <2>4
<1> QED
  BY <1>1, <1>2 DEF JInv

-----------------------------------------------------------------------------
\* Every step keeps the invariant.
LEMMA PromiseStep == JInv /\ [Next]_vars => JInv'
<1> SUFFICES ASSUME JInv, [Next]_vars
             PROVE  JInv'
  OBVIOUS
<1>0. IInv' /\ TypeOK
  BY BindingStep DEF JInv, IInv
<1>1. ASSUME NEW w \in Worker, Proceed(w)
      PROVE  JInv'
  BY <1>0, <1>1, CommitPromise, ConflictPromise, LaunchPromise, StopPromise, TeardownPromise,
     PurgePromise DEF Proceed, Launch, StopOrRecover, TeardownOrReap
<1>2. ASSUME NEW w \in Worker, Crash(w)
      PROVE  JInv'
  BY <1>0, <1>2, DoneTamed DEF Crash, Tame, cloud
<1>3. CASE BecomeQuiet
  <2>1. Evolves /\ rec' = rec /\ wk' = wk /\ hydrated' = hydrated
    BY <1>3 DEF BecomeQuiet, cloud, Evolves
  <2> QED
    BY <1>0, <2>1, NobodyPromise
<1>4. CASE TaskDies
  <2>1. Evolves /\ rec' = rec /\ wk' = wk /\ hydrated' = hydrated
    BY <1>4 DEF TaskDies, StopTask, Evolves
  <2> QED
    BY <1>0, <2>1, NobodyPromise
<1>5. CASE UNCHANGED vars
  <2>1. Evolves /\ rec' = rec /\ wk' = wk /\ hydrated' = hydrated
    BY <1>5 DEF vars, cloud, Evolves
  <2> QED
    BY <1>0, <2>1, NobodyPromise
<1> QED
  BY <1>0, <1>1, <1>2, <1>3, <1>4, <1>5, CallPromise, PassPromise DEF Next

\* It holds when nothing has been created yet.
LEMMA PromiseInit == Init => JInv
<1> SUFFICES ASSUME Init
             PROVE  JInv
  OBVIOUS
<1>1. IInv
  BY BindingInit
<1>2. rec = NoRecord /\ \A v \in Worker : wk[v] = Idle
  BY DEF Init
<1>3. Idle.pc = "idle" /\ Idle.seen = NoRecord
  BY DEF Idle
<1>4. Captured(NoRecord) /\ Current(NoRecord)
  BY DEF NoRecord, Reserve, Captured, Current, Absent
<1>5. Honest(Idle) /\ Graced(Idle)
  BY <1>3, <1>4 DEF Honest, Knows, Justified, Quiet, Graced
<1> QED
  BY <1>1, <1>2, <1>4, <1>5 DEF JInv

\* A step that changes the row creates it, removes the tombstone it has read, or
\* wins a write that follows from the row itself.
LEMMA RowChanges ==
    ASSUME JInv, [Next]_vars, rec' # rec
    PROVE  \/ rec = NoRecord /\ rec' = Reserve
           \/ /\ rec.state = "terminated"
              /\ rec' = [NoRecord EXCEPT !.version = rec.version + 1]
           \/ \E w \in Worker : /\ Commit(w) /\ wk[w].seen = rec /\ Justified(wk[w])
                                /\ wk[w].pc = "commit" /\ wk[w].next \in Records
                                /\ rec' = Written(w)
<1>0. IInv' /\ TypeOK
  BY BindingStep DEF JInv, IInv
<1>1. ~BecomeQuiet /\ ~TaskDies /\ ~UNCHANGED vars /\ \A w \in Worker : ~Crash(w)
  BY DEF BecomeQuiet, TaskDies, vars, Crash
<1>2. ASSUME NEW w \in Worker, Call(w)
      PROVE  rec = NoRecord /\ rec' = Reserve
  BY <1>2 DEF Call, ReserveWorkspace, Start, Retry, Heartbeat, UpdateSettings, ShareSession,
     Snapshot, RestoreSnapshot, RequestStop, CancelStop, Remove, Undelete, Purge,
     DeleteSnapshotById, ReadOnly
<1>3. \A w \in Worker : ~Pass(w)
  BY DEF Pass, Converge, RetryPlacement, FinishStop, ReconcileTaskLoss, ListStuckProvisioning,
     RecoverError, FinishDeleting, ListIdle, ListSnapshotReference, ListFleetReferences, ReadOnly
<1>4. ASSUME NEW w \in Worker, Proceed(w)
      PROVE  Commit(w) \/ PurgeTombstoneRecord(w)
  BY <1>4 DEF Proceed, Conflict, LaunchReserved, StartAfterRecover, RunTask, RunTaskRefused,
     RunTaskFailed, BindTask, Compensate, WaitForCapacity, LaunchFailed, HeartbeatAgain,
     TakeSnapshot, RecordTaken, Stop, StopSnapshot, ReleaseTask, FinalSnapshot,
     RecheckStopping, KillStopping, RecoverStuckProvisioning, CompareSnapshots,
     MarkSnapshotLostFor, TeardownSnapshot, TagRetained, TeardownTask, ReapSnapshot,
     AdminDelete, ReapOrphanTasks, CollectGarbage, LocalOnly
<1>5. ASSUME NEW w \in Worker, PurgeTombstoneRecord(w)
      PROVE  /\ rec.state = "terminated"
             /\ rec' = [NoRecord EXCEPT !.version = rec.version + 1]
  <2>1. /\ Unchanged(w) /\ wk[w].pc = "purging"
        /\ rec' = [NoRecord EXCEPT !.version = rec.version + 1]
    BY <1>5 DEF PurgeTombstoneRecord, RemoveThenReap, At
  <2>2. wk[w].seen.state = "terminated" /\ Current(wk[w].seen)
    BY <1>5, <2>1, Known DEF Honest, Knows
  <2> QED
    BY <2>1, <2>2 DEF Current, Unchanged, Absent
<1>6. ASSUME NEW w \in Worker, Commit(w)
      PROVE  /\ Commit(w) /\ wk[w].seen = rec /\ Justified(wk[w])
             /\ wk[w].pc = "commit" /\ wk[w].next \in Records
             /\ rec' = Written(w)
  <2>1. wk[w].seen = rec /\ Justified(wk[w])
    BY <1>0, <1>6, CommitPromise
  <2>2. wk[w].pc = "commit" /\ rec' = Written(w)
    BY <1>6 DEF Commit, At
  <2>3. wk[w].next \in Records
    BY <1>0, <1>6 DEF TypeOK, WorkerStates
  <2> QED
    BY <1>6, <2>1, <2>2, <2>3
<1> QED
  BY <1>1, <1>2, <1>3, <1>4, <1>5, <1>6 DEF Next

-----------------------------------------------------------------------------
\* An edge is a step of the promise, or a stutter.
LEMMA EdgeIsChange ==
    ASSUME Edge(PhaseOf(rec), rec.snap # None, PhaseOf(rec'), rec'.snap # None)
    PROVE  [Session!Change]_(Session!promise)
BY DEF Edge, Session!Change, Session!promise, Session!Create, Session!Wake,
     Session!TryAgain, Session!ComeUp, Session!GiveUp, Session!Fail, Session!Sleep,
     Session!AskStop, Session!CancelStop, Session!EndStop, Session!Save, Session!Lose,
     Session!Recover, Session!Delete, Session!Deleted, Session!Undelete, Session!Purge

\* Every step of the service shows the owner one step of the promise, or none.
LEMMA ShowsOneStep == JInv /\ [Next]_vars => [Session!Change]_(Session!promise)
<1> SUFFICES ASSUME JInv, [Next]_vars
             PROVE  Edge(PhaseOf(rec), rec.snap # None, PhaseOf(rec'), rec'.snap # None)
  BY EdgeIsChange
<1>1. CASE rec' = rec
  BY <1>1 DEF Edge
<1>2. CASE rec' # rec
  <2>1. CASE rec = NoRecord /\ rec' = Reserve
    <3>1. rec.state = Absent /\ rec'.state = "provisioning" /\ rec'.snap = None
      BY <2>1 DEF NoRecord, Reserve, Absent
    <3>2. PhaseOf(rec) = "none" /\ PhaseOf(rec') = "starting"
      BY <3>1 DEF PhaseOf, Live, Absent
    <3> QED
      BY <3>1, <3>2 DEF Edge
  <2>2. CASE /\ rec.state = "terminated"
             /\ rec' = [NoRecord EXCEPT !.version = rec.version + 1]
    BY <2>2 DEF NoRecord, Reserve, PhaseOf, Edge, Absent, None, Live
  <2>3. ASSUME NEW w \in Worker, wk[w].seen = rec, Justified(wk[w]), wk[w].pc = "commit",
               wk[w].next \in Records, rec' = Written(w)
        PROVE  Edge(PhaseOf(rec), rec.snap # None, PhaseOf(rec'), rec'.snap # None)
    <3>1. PICK next \in Records : next = wk[w].next
      BY <2>3
    <3>2. Lawful(rec, next)
      BY <2>3, <3>1 DEF Justified
    <3>3. rec'.state = next.state /\ rec'.snap = next.snap
      BY <2>3, <3>1 DEF Written, Records
    <3>4. PhaseOf(rec') = PhaseOf(next)
      BY <3>3 DEF PhaseOf, Live
    <3> QED
      BY <3>2, <3>3, <3>4 DEF Lawful
  <2> QED
    BY <1>2, <2>1, <2>2, <2>3, RowChanges
<1> QED
  BY <1>1, <1>2

\* The service implements SessionPromise: the row shows the owner one step of the
\* session's life at a time, whatever the workers of workspace-service.ts interleave.
THEOREM PromiseIsKept == Spec => PromiseKept
<1>1. Init => Session!Begin
  <2> SUFFICES ASSUME Init
               PROVE  Session!Begin
    OBVIOUS
  <2>1. rec.state = Absent /\ rec.snap = None
    BY DEF Init, NoRecord, Reserve
  <2>2. PhaseOf(rec) = "none"
    BY <2>1 DEF PhaseOf, Live, Absent
  <2> QED
    BY <2>1, <2>2 DEF Session!Begin
<1> QED
  BY <1>1, PromiseInit, PromiseStep, ShowsOneStep, PTL DEF Spec, PromiseKept, Session!Promise

\* The write of an idle stop that can still win stops an idle session (stop and its
\* recency guard, through the minutes-long snapshot).
THEOREM IdleStopIsJustified == Spec => []IdleStopJustified
<1>1. JInv => IdleStopJustified
  <2> SUFFICES ASSUME JInv, NEW w \in Worker, At(w, "commit"), wk[w].op = "stop", WriteWins(w)
               PROVE  quiet /\ ~rec.alwaysOn
    BY DEF IdleStopJustified
  <2>1. Current(wk[w].seen) /\ Quiet(wk[w])
    BY Known DEF Honest
  <2> QED
    BY <2>1 DEF Current, Quiet, At, WriteWins, Unchanged
<1> QED
  BY <1>1, PromiseInit, PromiseStep, PTL DEF Spec

\* A session that is scaled to zero leaves a copy of the volume it ran on (stop:
\* snapshot, conditional write, release).
THEOREM IdleStopSavesWork == Spec => IdleStopKeepsWork
<1>1. ASSUME JInv, [Next]_vars, Live(rec), rec.task \in live, rec'.state = "stopped"
      PROVE  rec'.snap # None /\ source[rec'.snap] = rec.task
  <2>1. rec' # rec /\ rec # NoRecord /\ rec.state # "terminated"
    BY <1>1 DEF Live, NoRecord, Absent, Reserve
  <2>2. PICK w \in Worker : /\ wk[w].seen = rec /\ Justified(wk[w]) /\ wk[w].pc = "commit"
                            /\ wk[w].next \in Records /\ rec' = Written(w)
    BY <1>1, <2>1, RowChanges
  <2>3. rec'.state = wk[w].next.state /\ rec'.snap = wk[w].next.snap
    BY <2>2 DEF Written, Records
  <2>4. Copy(rec'.snap, rec.task)
    BY <1>1, <2>2, <2>3 DEF Justified
  <2>5. Len(source) \in Nat
    BY <1>1 DEF JInv, IInv, TypeOK
  <2> QED
    BY <2>4, <2>5 DEF Copy, None
<1> QED
  BY <1>1, PromiseInit, PromiseStep, PTL DEF Spec, IdleStopKeepsWork

\* The tombstone of a workspace that had a volume references a copy of that volume,
\* across interrupted and concurrent teardowns (finishDeleting).
THEOREM TeardownSavesWork == Spec => TeardownKeepsWork
<1>1. ASSUME JInv, [Next]_vars, rec.state = "deleting", rec.task # None,
             rec'.state = "terminated"
      PROVE  rec'.snap # None /\ source[rec'.snap] = rec.task
  <2>1. rec' # rec /\ rec # NoRecord /\ rec.state # "terminated"
    BY <1>1 DEF NoRecord, Absent, Reserve
  <2>2. PICK w \in Worker : /\ wk[w].seen = rec /\ Justified(wk[w]) /\ wk[w].pc = "commit"
                            /\ wk[w].next \in Records /\ rec' = Written(w)
    BY <1>1, <2>1, RowChanges
  <2>3. rec'.state = wk[w].next.state /\ rec'.snap = wk[w].next.snap
    BY <2>2 DEF Written, Records
  <2>4. Copy(rec'.snap, rec.task)
    BY <1>1, <2>2, <2>3 DEF Justified
  <2>5. Len(source) \in Nat
    BY <1>1 DEF JInv, IInv, TypeOK
  <2> QED
    BY <2>4, <2>5 DEF Copy, None
<1> QED
  BY <1>1, PromiseInit, PromiseStep, PTL DEF Spec, TeardownKeepsWork

\* The orphan reaper, working from references it listed earlier, never reaps the
\* task the record is bound to by then (selectOrphanTasks and its grace window).
THEOREM ReaperIsSafe == Spec => []ReaperSparesBound
<1>1. JInv => ReaperSparesBound
  <2> SUFFICES ASSUME JInv, NEW w \in Worker, wk[w].pc = "reap", rec.task \in OrphanTasks(w)
               PROVE  FALSE
    BY DEF ReaperSparesBound, At
  <2>1. /\ rec.task \in {wk[w].seen.task, None} \/ rec.task > wk[w].task
        /\ rec.task \in live /\ rec.task # wk[w].seen.task /\ rec.task <= wk[w].task
    BY Known DEF Graced, OrphanTasks
  <2>2. live \subseteq 1..Len(hydrated) /\ Len(hydrated) \in Nat /\ wk[w].task \in Nat
        /\ rec.task \in Nat
    BY SMTT(30) DEF JInv, IInv, TypeOK, WorkerStates, Records
  <2> QED
    BY <2>1, <2>2 DEF None
<1> QED
  BY <1>1, PromiseInit, PromiseStep, PTL DEF Spec
=============================================================================
