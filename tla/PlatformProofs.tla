--------------------------- MODULE PlatformProofs ---------------------------
(***************************************************************************)
(* What surrounds the sessions, for any number of calls, requests, entries *)
(* and workspaces: the storage provider's waits, the snapshot console's    *)
(* purges, the health report, the image catalog, the idle control plane,   *)
(* the maintenance round and the cost reports.  Each component has an      *)
(* invariant of its own.                                                   *)
(***************************************************************************)
EXTENDS HealthBoard, SessionCreate, EbsSettle, SnapshotConsole, ControlPlaneScale,
        MaintenanceSweep, CostLedger, FiniteSetTheorems, SequenceTheorems,
        WellFoundedInduction, TLAPS

-----------------------------------------------------------------------------
(* Creating storage *)

\* What makes the promise inductive: a resource exists from the moment the
\* request returned, a snapshot is only given up once it has failed, what was
\* handed out is never deleted by the call, and a tag that was read back stays.
CallOK(c) ==
  /\ ebs[c].at = "idle" => made[c].state = "none" /\ ebs[c].op = "none"
  /\ ebs[c].op = "snapshot" /\ ebs[c].at # "threw" => made[c].state # "deleted"
  /\ ebs[c].op = "snapshot" /\ ebs[c].at = "cleanup" => made[c].state = "error"
  /\ ebs[c].op = "snapshot" /\ ebs[c].at = "threw" =>
       made[c].state \in {"none", "error", "deleted"}
  /\ made[c].state = "error" => made[c].failed = TRUE
  /\ ebs[c].at = "retained" => made[c].tag = "shown"
  /\ ebs[c].op = "snapshot" /\ made[c].state = "deleted" => made[c].failed = TRUE
  /\ ebs[c].at = "threw" /\ ebs[c].leak = FALSE => made[c].state \in {"none", "deleted"}

EbsInv == EbsTypeOK /\ \A c \in EbsCall : CallOK(c)

LEMMA EbsInitial == EbsInit => EbsInv
  BY DEF EbsInit, EbsInv, EbsTypeOK, CallOK, NoResource, NoCall

\* A step of one call leaves the others as they were.
LEMMA EbsFrame ==
  ASSUME EbsInv, NEW c \in EbsCall, EbsTypeOK', CallOK(c)',
         \A d \in EbsCall \ {c} : made'[d] = made[d] /\ ebs'[d] = ebs[d]
  PROVE  EbsInv'
  BY DEF EbsInv, CallOK

LEMMA EbsStep == EbsInv /\ [EbsNext]_ebsVars => EbsInv'
<1> SUFFICES ASSUME EbsInv, [EbsNext]_ebsVars PROVE EbsInv'
  OBVIOUS
<1>1. CASE UNCHANGED ebsVars
  BY <1>1 DEF EbsInv, EbsTypeOK, CallOK, ebsVars
<1>2. CASE EbsNext
  <2> PICK c \in EbsCall :
        \/ \E op \in {"volume", "snapshot", "copy"} : CreateResource(c, op)
        \/ WaitUntilSettled(c) \/ Unsettled(c) \/ DeleteOrSurfaceLeak(c)
        \/ TagRetained(c) \/ ConfirmTag(c)
        \/ Settles(c) \/ ReadsCatchUp(c) \/ CollectorDeletes(c)
    BY <1>2 DEF EbsNext
  <2> EbsTypeOK /\ CallOK(c)
    BY DEF EbsInv
  <2>1. ASSUME NEW op \in {"volume", "snapshot", "copy"}, CreateResource(c, op) PROVE EbsInv'
    <3>1. EbsTypeOK' /\ CallOK(c)'
      <4>1. CASE /\ ebs' = [ebs EXCEPT ![c] = [at |-> "threw", op |-> op, leak |-> FALSE]]
                 /\ UNCHANGED made
        BY <2>1, <4>1 DEF CreateResource, EbsTypeOK, CallOK
      <4>2. ASSUME ebs' = [ebs EXCEPT ![c] = [at |-> "wait", op |-> op, leak |-> FALSE]],
                   NEW tag \in {"none", "shown"},
                   made' = [made EXCEPT ![c] = [state |-> "pending", shown |-> FALSE,
                                                failed |-> FALSE, tag |-> tag]]
            PROVE  EbsTypeOK' /\ CallOK(c)'
        BY <4>2 DEF EbsTypeOK, CallOK
      <4> QED BY <2>1, <4>1, <4>2 DEF CreateResource
    <3> QED BY <2>1, <3>1, EbsFrame DEF CreateResource, EbsTypeOK
  <2>2. CASE WaitUntilSettled(c)
    <3>1. EbsTypeOK' /\ CallOK(c)'
      BY <2>2 DEF WaitUntilSettled, EbsTypeOK, CallOK
    <3> QED BY <2>2, <3>1, EbsFrame DEF WaitUntilSettled, EbsTypeOK
  <2>3. CASE Unsettled(c)
    <3>1. EbsTypeOK' /\ CallOK(c)'
      BY <2>3 DEF Unsettled, SnapshotStates, AfterTimeout, EbsTypeOK, CallOK
    <3> QED BY <2>3, <3>1, EbsFrame DEF Unsettled, EbsTypeOK
  <2>4. CASE DeleteOrSurfaceLeak(c)
    <3>1. EbsTypeOK' /\ CallOK(c)'
      <4>1. CASE /\ made' = [made EXCEPT ![c].state = "deleted"]
                 /\ ebs' = [ebs EXCEPT ![c].at = "threw"]
        <5>1. /\ made'[c] = [made[c] EXCEPT !.state = "deleted"]
              /\ ebs'[c] = [ebs[c] EXCEPT !.at = "threw"]
          BY <4>1 DEF EbsTypeOK
        <5>2. CallOK(c)'
          BY <2>4, <5>1 DEF DeleteOrSurfaceLeak, EbsTypeOK, CallOK
        <5> QED BY <4>1, <5>2, SMTT(30) DEF EbsTypeOK
      <4>2. CASE ebs' = CleanupFails(c) /\ UNCHANGED made
        <5>1. made' = made /\ ebs'[c] = [ebs[c] EXCEPT !.at = "threw", !.leak = TRUE]
          BY <4>2 DEF EbsTypeOK, CleanupFails
        <5>2. CallOK(c)'
          BY <2>4, <5>1 DEF DeleteOrSurfaceLeak, EbsTypeOK, CallOK
        <5> QED BY <4>2, <5>2, ZenonT(60) DEF EbsTypeOK, CleanupFails
      <4> QED BY <2>4, <4>1, <4>2 DEF DeleteOrSurfaceLeak
    <3> QED BY <2>4, <3>1, EbsFrame DEF DeleteOrSurfaceLeak, CleanupFails, EbsTypeOK
  <2>5. CASE TagRetained(c)
    <3>1. EbsTypeOK' /\ CallOK(c)'
      BY <2>5 DEF TagRetained, Exists, EbsTypeOK, CallOK
    <3> QED BY <2>5, <3>1, EbsFrame DEF TagRetained, EbsTypeOK
  <2>6. CASE ConfirmTag(c)
    <3>1. EbsTypeOK' /\ CallOK(c)'
      <4>1. CASE TagVisible(c) /\ ebs' = [ebs EXCEPT ![c].at = "retained"]
        BY <2>6, <4>1 DEF ConfirmTag, TagVisible, EbsTypeOK, CallOK
      <4>2. CASE ebs' = [ebs EXCEPT ![c].at = "returned"]
        BY <2>6, <4>2 DEF ConfirmTag, EbsTypeOK, CallOK
      <4> QED BY <2>6, <4>1, <4>2 DEF ConfirmTag
    <3> QED BY <2>6, <3>1, EbsFrame DEF ConfirmTag, EbsTypeOK
  <2>7. CASE Settles(c)
    <3>1. EbsTypeOK' /\ CallOK(c)'
      BY <2>7 DEF Settles, EbsTypeOK, CallOK
    <3> QED BY <2>7, <3>1, EbsFrame DEF Settles, EbsTypeOK
  <2>8. CASE ReadsCatchUp(c)
    <3>1. EbsTypeOK' /\ CallOK(c)'
      <4>1. CASE made' = [made EXCEPT ![c].shown = TRUE]
        BY <2>8, <4>1, ZenonT(60) DEF ReadsCatchUp, Exists, EbsTypeOK, CallOK
      <4>2. CASE made' = [made EXCEPT ![c].tag = "shown"]
        BY <2>8, <4>2 DEF ReadsCatchUp, Exists, EbsTypeOK, CallOK
      <4> QED BY <2>8, <4>1, <4>2 DEF ReadsCatchUp
    <3> QED BY <2>8, <3>1, EbsFrame DEF ReadsCatchUp, EbsTypeOK
  <2>9. CASE CollectorDeletes(c)
    <3>1. EbsTypeOK' /\ CallOK(c)'
      BY <2>9 DEF CollectorDeletes, Exists, EbsTypeOK, CallOK
    <3> QED BY <2>9, <3>1, EbsFrame DEF CollectorDeletes, EbsTypeOK
  <2> QED BY <2>1, <2>2, <2>3, <2>4, <2>5, <2>6, <2>7, <2>8, <2>9
<1> QED BY <1>1, <1>2 DEF EbsNext

\* However the waits, the describes and the deletes of any number of calls turn
\* out, no snapshot that may still complete is deleted, and a call that throws
\* leaves nothing behind unnamed (createSnapshot, deleteOrSurfaceLeak,
\* tagSnapshotRetained).
THEOREM SnapshotsAreSafe == EbsSpec => []SnapshotsSurviveTimeouts
<1>1. EbsInv => SnapshotsSurviveTimeouts
  BY DEF EbsInv, EbsTypeOK, CallOK, SnapshotsSurviveTimeouts, Exists
<1> QED BY EbsInitial, EbsStep, <1>1, PTL DEF EbsSpec

-----------------------------------------------------------------------------
(* Purging snapshots *)

Request == [at : {"idle", "reading", "deleting", "ok", "failed"},
            op : {"none", "list", "one", "all"}, target : 0..MaxSnapshots,
            left : SUBSET State, listed : BOOLEAN, list : SUBSET Snap,
            refs : SUBSET Snap, moved : SUBSET Desk]

Pages == [shown : SUBSET Snap, inUse : SUBSET Snap, armed : 0..MaxSnapshots,
          bulk : BOOLEAN, pending : Seq(Req)]

Row == [state : State \cup {"gone"}, snap : 0..MaxSnapshots]

\* What a purge has read so far holds for every record that stood still since it
\* was sent: the index shows it as it is, and once the query of its state has
\* been answered its snapshot is among the references.
ReadSoFar(r) ==
  /\ r.at = "reading" => r.op # "none"
  /\ r.at = "deleting" => r.op \in {"one", "all"} /\ r.left = {}
  /\ r.op \in {"one", "all"} /\ r.at \in {"reading", "deleting"} =>
       \A w \in Desk \ r.moved :
         /\ byState[w] = records[w]
         /\ records[w].state \in State \ r.left /\ records[w].snap # 0 =>
              records[w].snap \in r.refs

ConsoleInv ==
  /\ ConsoleTypeOK
  /\ \A w \in Desk : records[w].state = "gone" => records[w].snap = 0
  /\ \A q \in Req : ReadSoFar(request[q])

LEMMA IdleTyped == Idle \in Request /\ ReadSoFar(Idle)
  BY ConsoleAssumption DEF Idle, Request, ReadSoFar, State, Snap

LEMMA AnswerTyped ==
  ASSUME NEW r \in Request, NEW at \in {"ok", "failed"}
  PROVE  Answer(r, at) \in Request /\ ReadSoFar(Answer(r, at)) /\ Answer(r, at).at = at
  BY ConsoleAssumption DEF Answer, Idle, Request, ReadSoFar

LEMMA ConsoleTypes ==
  ConsoleTypeOK <=>
    /\ records \in [Desk -> Row] /\ byState \in [Desk -> Row]
    /\ take \in [Desk -> [snap : 0..MaxSnapshots, current : BOOLEAN]]
    /\ held \subseteq Snap /\ taken \in 0..MaxSnapshots
    /\ request \in [Req -> Request] /\ page \in Pages
  BY DEF ConsoleTypeOK, Row, Request, Pages

LEMMA ConsoleInitial == ConsoleInit => ConsoleInv
<1> SUFFICES ASSUME ConsoleInit PROVE ConsoleInv
  OBVIOUS
<1>1. \A q \in Req : request[q] = Idle /\ Idle \in Request /\ ReadSoFar(Idle)
  BY IdleTyped DEF ConsoleInit
<1>2. <<>> \in Seq(Req)
  OBVIOUS
<1>3. page \in Pages
  BY <1>2, ConsoleAssumption DEF ConsoleInit, Pages
<1>4. ConsoleTypeOK
  BY <1>1, <1>3, ConsoleTypes, ConsoleAssumption DEF ConsoleInit, NoTake, Row, State
<1> QED BY <1>1, <1>4 DEF ConsoleInv, ConsoleInit

\* A step of one request, with the records and the index as they were.
LEMMA RequestStep ==
  ASSUME ConsoleInv, UNCHANGED <<records, byState, take, taken>>,
         held' \subseteq Snap, page' \in Pages,
         NEW q \in Req, NEW r \in Request, ReadSoFar(r),
         request' = [request EXCEPT ![q] = r]
  PROVE  ConsoleInv'
<1>0. ConsoleTypeOK
  BY DEF ConsoleInv
<1>1. ConsoleTypeOK'
  <2>1. request' \in [Req -> Request]
    BY <1>0, ConsoleTypes
  <2> QED BY <1>0, <2>1, ConsoleTypes DEF ConsoleTypeOK, Request, Pages
<1>2. ASSUME NEW p \in Req PROVE ReadSoFar(request[p])'
  <2> PICK n : n = request'[p]
    OBVIOUS
  <2>1. ReadSoFar(n)
    BY <1>0, ConsoleTypes DEF ConsoleInv
  <2>2. ReadSoFar(n)'
    BY <2>1 DEF ReadSoFar
  <2> QED BY <2>2 DEF ReadSoFar
<1> QED BY <1>1, <1>2 DEF ConsoleInv

\* A conditional write of a record marks it as moved in every purge under way.
LEMMA RewriteStep ==
  ASSUME ConsoleInv, NEW w \in Desk, NEW state \in State \cup {"gone"},
         NEW snap \in 0..MaxSnapshots, state = "gone" => snap = 0,
         take' \in [Desk -> [snap : 0..MaxSnapshots, current : BOOLEAN]],
         Rewrite(w, state, snap)
  PROVE  ConsoleInv'
<1>0. ConsoleTypeOK
  BY DEF ConsoleInv
<1> PICK n : n = [state |-> state, snap |-> snap]
  OBVIOUS
<1>1. n \in Row /\ records' = [records EXCEPT ![w] = n]
  BY DEF Row, Rewrite
<1>2. UNCHANGED <<byState, held, taken, page>>
  BY DEF Rewrite
<1>3. ASSUME NEW q \in Req
      PROVE  /\ request'[q] \in Request
             /\ request'[q].at = request[q].at /\ request'[q].op = request[q].op
             /\ request'[q].left = request[q].left /\ request'[q].refs = request[q].refs
             /\ request[q].op \in {"one", "all"} /\ request[q].at \in {"reading", "deleting"} =>
                  request'[q].moved = request[q].moved \cup {w}
  BY <1>0, ConsoleTypes, ZenonT(60) DEF Rewrite, Request
<1>4. request' \in [Req -> Request]
  BY <1>3 DEF Rewrite
<1>5. ConsoleTypeOK'
  BY <1>0, <1>1, <1>2, <1>4, ConsoleTypes DEF ConsoleTypeOK, Request, Pages, Row
<1>6. ASSUME NEW q \in Req PROVE ReadSoFar(request[q])'
  <2>0. PICK a, b : a = request[q] /\ b = request'[q]
    OBVIOUS
  <2>1. ReadSoFar(a)
    BY <2>0 DEF ConsoleInv
  <2>2. /\ b.at = a.at /\ b.op = a.op /\ b.left = a.left /\ b.refs = a.refs
        /\ a.op \in {"one", "all"} /\ a.at \in {"reading", "deleting"} => b.moved = a.moved \cup {w}
    BY <1>3, <2>0
  <2>3. \A v \in Desk \ {w} : records'[v] = records[v] /\ byState'[v] = byState[v]
    BY <1>0, <1>1, <1>2, ConsoleTypes
  <2>4. ASSUME b.op \in {"one", "all"}, b.at \in {"reading", "deleting"}, NEW v \in Desk \ b.moved
        PROVE  /\ byState'[v] = records'[v]
               /\ records'[v].state \in State \ b.left /\ records'[v].snap # 0 => records'[v].snap \in b.refs
    <3>1. v \in Desk \ {w} /\ v \in Desk \ a.moved
      BY <2>2, <2>4
    <3> QED BY <2>1, <2>2, <2>3, <2>4, <3>1 DEF ReadSoFar
  <2> QED BY <2>0, <2>1, <2>2, <2>4 DEF ReadSoFar
<1>7. ASSUME NEW v \in Desk, records'[v].state = "gone" PROVE records'[v].snap = 0
  BY <1>0, <1>1, <1>7, ConsoleTypes DEF ConsoleInv, Row
<1> QED BY <1>5, <1>6, <1>7 DEF ConsoleInv

LEMMA SessionStep ==
  ASSUME ConsoleInv, NEW w \in Desk,
         \/ SnapshotForTransition(w) \/ RecordSnapshot(w) \/ ChangeState(w)
         \/ Purge(w) \/ IndexCatchesUp(w)
  PROVE  ConsoleInv'
<1>0. /\ records \in [Desk -> Row] /\ byState \in [Desk -> Row]
      /\ take \in [Desk -> [snap : 0..MaxSnapshots, current : BOOLEAN]]
      /\ held \subseteq Snap /\ taken \in 0..MaxSnapshots
      /\ request \in [Req -> Request] /\ page \in Pages
  BY ConsoleTypes DEF ConsoleInv
<1>1. CASE SnapshotForTransition(w)
  <2>1. /\ taken' \in 0..MaxSnapshots /\ held' \subseteq Snap
        /\ take' \in [Desk -> [snap : 0..MaxSnapshots, current : BOOLEAN]]
    BY <1>0, <1>1, ConsoleAssumption DEF SnapshotForTransition, Snap
  <2>2. ConsoleTypeOK'
    BY <1>0, <1>1, <2>1 DEF SnapshotForTransition, ConsoleTypeOK, Request, Pages, Row
  <2> QED BY <1>1, <2>2 DEF SnapshotForTransition, ConsoleInv, ReadSoFar
<1>2. CASE RecordSnapshot(w)
  <2>1. take' \in [Desk -> [snap : 0..MaxSnapshots, current : BOOLEAN]]
    BY <1>0, <1>2, ConsoleAssumption DEF RecordSnapshot, NoTake
  <2>2. ASSUME NEW state \in {"running", "stopped"}, Rewrite(w, state, take[w].snap)
        PROVE  ConsoleInv'
    <3>1. take[w].snap \in 0..MaxSnapshots /\ state \in State \cup {"gone"} /\ state # "gone"
      BY <1>0 DEF State
    <3> QED BY <2>1, <2>2, <3>1, RewriteStep
  <2>3. ASSUME UNCHANGED <<records, byState, held, taken, request, page>> PROVE ConsoleInv'
    <3>1. ConsoleTypeOK'
      BY <1>0, <2>1, <2>3 DEF ConsoleTypeOK, Request, Pages, Row
    <3> QED BY <2>3, <3>1 DEF ConsoleInv, ReadSoFar
  <2> QED BY <1>2, <2>2, <2>3 DEF RecordSnapshot
<1>3. CASE ChangeState(w)
  <2>1. take' \in [Desk -> [snap : 0..MaxSnapshots, current : BOOLEAN]]
    BY <1>0, <1>3 DEF ChangeState
  <2>2. PICK state \in State : Rewrite(w, state, records[w].snap)
    BY <1>3 DEF ChangeState, State
  <2>3. records[w].snap \in 0..MaxSnapshots /\ state # "gone"
    BY <1>0 DEF Row, State
  <2> QED BY <2>1, <2>2, <2>3, RewriteStep
<1>4. CASE Purge(w)
  <2>1. 0 \in 0..MaxSnapshots
    BY ConsoleAssumption
  <2> QED BY <1>0, <1>4, <2>1, RewriteStep DEF Purge
<1>5. CASE IndexCatchesUp(w)
  <2>1. byState' \in [Desk -> Row]
    BY <1>0, <1>5 DEF IndexCatchesUp
  <2>2. ConsoleTypeOK'
    BY <1>0, <1>5, <2>1 DEF IndexCatchesUp, ConsoleTypeOK, Request, Pages, Row
  <2> QED BY <1>0, <1>5, <2>2 DEF IndexCatchesUp, ConsoleInv, ReadSoFar
<1> QED BY <1>1, <1>2, <1>3, <1>4, <1>5

LEMMA SentTyped ==
  ASSUME ConsoleInv, NEW op \in {"one", "all"}, NEW target \in 0..MaxSnapshots
  PROVE  /\ Sent("list", 0) \in Request /\ ReadSoFar(Sent("list", 0))
         /\ Sent(op, target) \in Request /\ ReadSoFar(Sent(op, target))
<1>0. \A w \in Desk : records[w].state \in State \cup {"gone"}
  BY ConsoleTypes DEF ConsoleInv, Row
<1>1. Sent("list", 0) \in Request /\ ReadSoFar(Sent("list", 0))
  BY IdleTyped DEF Sent, Request, ReadSoFar, Idle
<1>2. PICK m \in SUBSET Desk : m = {w \in Desk : byState[w] # records[w]}
  OBVIOUS
<1>3. Sent(op, target) = [Idle EXCEPT !.at = "reading", !.op = op, !.target = target,
                             !.left = State, !.listed = (op = "one"), !.moved = m]
  BY <1>2 DEF Sent, QueriedStates
<1>4. Sent(op, target) \in Request
  BY <1>3, IdleTyped DEF Request, Idle
<1>5. ReadSoFar(Sent(op, target))
  BY <1>2, <1>3 DEF ReadSoFar, Idle
<1> QED BY <1>1, <1>4, <1>5

\* A request's reads and deletes.
LEMMA ServiceStep ==
  ASSUME ConsoleInv, NEW q \in Req,
         \/ ListSnapshots(q) \/ ReadFails(q) \/ ReadDone(q) \/ PurgeDone(q)
         \/ \E state \in State : QueryState(q, state)
         \/ \E s \in Snap : DeleteSnapshot(q, s)
  PROVE  ConsoleInv'
<1>0. /\ records \in [Desk -> Row] /\ byState \in [Desk -> Row]
      /\ held \subseteq Snap /\ request \in [Req -> Request] /\ page \in Pages
      /\ ReadSoFar(request[q])
  BY ConsoleTypes DEF ConsoleInv
<1> PICK r \in Request : r = request[q]
  BY <1>0
<1>f. PICK f \in Request : f = Answer(r, "failed") /\ ReadSoFar(f)
  BY AnswerTyped
<1>k. PICK k \in Request : k = Answer(r, "ok") /\ ReadSoFar(k) /\ k.at = "ok"
  BY AnswerTyped
<1>1. CASE ListSnapshots(q)
  <2> PICK n : n = [r EXCEPT !.listed = TRUE, !.list = held]
    OBVIOUS
  <2>1. n \in Request /\ ReadSoFar(n)
    BY <1>0 DEF Request, ReadSoFar
  <2>2. request' = [request EXCEPT ![q] = n]
    BY <1>0, <1>1 DEF ListSnapshots
  <2> QED BY <1>0, <1>1, <2>1, <2>2, RequestStep DEF ListSnapshots
<1>2. CASE ReadFails(q)
  <2>1. request' = [request EXCEPT ![q] = f]
    BY <1>0, <1>2, <1>f DEF ReadFails
  <2> QED BY <1>0, <1>2, <1>f, <2>1, RequestStep DEF ReadFails
<1>3. CASE ReadDone(q)
  <2> PICK n : n = CASE r.op = "list" -> [k EXCEPT !.list = r.list]
                     [] r.op = "one" /\ Purgeable(r) = {} -> f
                     [] OTHER -> [r EXCEPT !.at = "deleting"]
    OBVIOUS
  <2>1. request' = [request EXCEPT ![q] = n]
    BY <1>0, <1>3, <1>f, <1>k DEF ReadDone
  <2>2. ASSUME r.op = "list" PROVE n \in Request /\ ReadSoFar(n)
    <3>1. n = [k EXCEPT !.list = r.list]
      BY <2>2
    <3> QED BY <1>k, <3>1 DEF Request, ReadSoFar
  <2>3. ASSUME r.op # "list", n = f PROVE n \in Request /\ ReadSoFar(n)
    BY <1>f, <2>3
  <2>4. ASSUME r.op # "list", n # f PROVE n \in Request /\ ReadSoFar(n)
    <3>0. r.at = "reading" /\ r.left = {} /\ r.op \in {"one", "all", "none"}
      BY <1>3, <2>4 DEF ReadDone, Request
    <3>1. n = [r EXCEPT !.at = "deleting"]
      BY <2>4
    <3>2. n \in Request
      BY <3>1 DEF Request
    <3>3. r.op # "none"
      BY <1>0, <3>0 DEF ReadSoFar
    <3> QED BY <1>0, <3>0, <3>1, <3>2, <3>3 DEF ReadSoFar, Request
  <2>5. n \in Request /\ ReadSoFar(n)
    BY <2>2, <2>3, <2>4
  <2> QED BY <1>0, <1>3, <2>1, <2>5, RequestStep DEF ReadDone
<1>4. CASE PurgeDone(q)
  <2>1. request' = [request EXCEPT ![q] = k]
    BY <1>0, <1>4, <1>k DEF PurgeDone
  <2> QED BY <1>0, <1>4, <1>k, <2>1, RequestStep DEF PurgeDone
<1>5. ASSUME NEW state \in State, QueryState(q, state) PROVE ConsoleInv'
  <2> PICK found : found = {byState[w].snap : w \in {v \in Desk : byState[v].state = state}} \ {0}
    OBVIOUS
  <2>0. found \subseteq Snap
    BY <1>0 DEF Row, Snap
  <2> PICK n : n = [r EXCEPT !.left = @ \ {state}, !.refs = @ \cup found]
    OBVIOUS
  <2>1. n \in Request
    BY <2>0 DEF Request
  <2>2. ReadSoFar(n)
    <3>1. /\ n.at = "reading" /\ r.at = "reading" /\ n.op = r.op /\ n.moved = r.moved
          /\ n.left = r.left \ {state} /\ n.refs = r.refs \cup found
      BY <1>5 DEF QueryState, Request
    <3> QED BY <1>0, <3>1 DEF ReadSoFar
  <2>3. request' = [request EXCEPT ![q] = n]
    BY <1>0, <1>5 DEF QueryState
  <2> QED BY <1>0, <1>5, <2>1, <2>2, <2>3, RequestStep DEF QueryState
<1>6. ASSUME NEW s \in Snap, DeleteSnapshot(q, s) PROVE ConsoleInv'
  <2>0. held' \subseteq Snap
    BY <1>0, <1>6 DEF DeleteSnapshot
  <2>1. ASSUME request' = [request EXCEPT ![q].refs = @ \cup {s}] PROVE ConsoleInv'
    <3> PICK n : n = [r EXCEPT !.refs = @ \cup {s}]
      OBVIOUS
    <3>1. n \in Request /\ ReadSoFar(n)
      BY <1>0 DEF Request, ReadSoFar
    <3>2. request' = [request EXCEPT ![q] = n]
      BY <1>0, <2>1
    <3> QED BY <1>0, <1>6, <2>0, <3>1, <3>2, RequestStep DEF DeleteSnapshot
  <2>2. ASSUME request' = [request EXCEPT ![q] = Answer(@, "failed")] PROVE ConsoleInv'
    <3>1. request' = [request EXCEPT ![q] = f]
      BY <1>0, <1>f, <2>2
    <3> QED BY <1>0, <1>6, <1>f, <2>0, <3>1, RequestStep DEF DeleteSnapshot
  <2> QED BY <1>6, <2>1, <2>2 DEF DeleteSnapshot
<1> QED BY <1>1, <1>2, <1>3, <1>4, <1>5, <1>6

\* Dropping the loads an answer overtook leaves a sequence of requests.
LEMMA LaterTyped ==
  ASSUME page \in Pages, NEW q \in Req
  PROVE  Later(q) \in Seq(Req)
<1> PICK s \in Seq(Req) : s = page.pending
  BY DEF Pages
<1>1. CASE Contains(s, q)
  <2>1. PICK i \in 1..Len(s) : i = CHOOSE j \in 1..Len(s) : s[j] = q
    BY <1>1 DEF Contains
  <2>2. Later(q) = SubSeq(s, i + 1, Len(s))
    BY <1>1, <2>1 DEF Later
  <2>3. \A j \in (i + 1)..Len(s) : s[j] \in Req
    BY LenProperties, ElementOfSeq
  <2>4. Len(s) \in Int /\ i + 1 \in Int
    BY LenProperties
  <2> QED BY <2>2, <2>3, <2>4, SubSeqProperties
<1>2. CASE ~Contains(s, q)
  BY <1>2 DEF Later
<1> QED BY <1>1, <1>2

\* What the page does: it sends requests, takes answers and arms its buttons.
LEMMA PageStep ==
  ASSUME ConsoleInv, NEW q \in Req,
         \/ StartLoad(q) \/ LoadAnswered(q) \/ ConfirmPurge(q) \/ ConfirmPurgeAll(q)
         \/ \E next \in Req : PurgeAnswered(q, next)
  PROVE  ConsoleInv'
<1>0. /\ held \subseteq Snap /\ request \in [Req -> Request] /\ page \in Pages
  BY ConsoleTypes DEF ConsoleInv
<1>z. 0 \in 0..MaxSnapshots
  BY ConsoleAssumption
<1>l. PICK l \in Request : l = Sent("list", 0) /\ ReadSoFar(l)
  BY <1>z, SentTyped
<1>i. PICK i \in Request : i = Idle /\ ReadSoFar(i)
  BY IdleTyped
<1>1. CASE StartLoad(q)
  <2>1. Append(page.pending, q) \in Seq(Req)
    BY <1>0, AppendProperties DEF Pages
  <2>2. page' \in Pages
    BY <1>0, <1>1, <2>1 DEF StartLoad, Pages
  <2>3. request' = [request EXCEPT ![q] = l]
    BY <1>1, <1>l DEF StartLoad
  <2> QED BY <1>0, <1>1, <1>l, <2>2, <2>3, RequestStep DEF StartLoad
<1>2. CASE LoadAnswered(q)
  <2>1. PICK p \in Seq(Req) : p = Later(q)
    BY <1>0, LaterTyped
  <2>2. PICK list \in SUBSET Snap : list = request[q].list
    BY <1>0 DEF Request
  <2>3. PICK inUse \in SUBSET Snap :
          page' = IF ~Applies(q) THEN page
                  ELSE IF request[q].at = "failed" THEN [page EXCEPT !.pending = p]
                  ELSE [page EXCEPT !.pending = p, !.shown = list, !.inUse = inUse]
    BY <1>2, <2>1, <2>2 DEF LoadAnswered
  <2>4. page' \in Pages
    BY <1>0, <2>3 DEF Pages
  <2>5. request' = [request EXCEPT ![q] = i]
    BY <1>2, <1>i DEF LoadAnswered
  <2> QED BY <1>0, <1>2, <1>i, <2>4, <2>5, RequestStep DEF LoadAnswered
<1>3. CASE ConfirmPurge(q)
  <2>1. PICK s \in 0..MaxSnapshots : s = page.armed
    BY <1>0 DEF Pages
  <2>2. PICK n \in Request : n = Sent("one", s) /\ ReadSoFar(n)
    BY SentTyped
  <2>3. request' = [request EXCEPT ![q] = n]
    BY <1>3, <2>1, <2>2 DEF ConfirmPurge
  <2> QED BY <1>0, <1>3, <2>2, <2>3, RequestStep DEF ConfirmPurge
<1>4. CASE ConfirmPurgeAll(q)
  <2>1. PICK n \in Request : n = Sent("all", 0) /\ ReadSoFar(n)
    BY <1>z, SentTyped
  <2>2. request' = [request EXCEPT ![q] = n]
    BY <1>4, <2>1 DEF ConfirmPurgeAll
  <2> QED BY <1>0, <1>4, <2>1, <2>2, RequestStep DEF ConfirmPurgeAll
<1>5. ASSUME NEW next \in Req, PurgeAnswered(q, next) PROVE ConsoleInv'
  <2>u. UNCHANGED <<records, byState, take, held, taken>>
    BY <1>5 DEF PurgeAnswered
  <2> PICK disarmed : disarmed = IF request[q].op = "one" THEN [page EXCEPT !.armed = 0]
                                 ELSE [page EXCEPT !.bulk = FALSE]
    OBVIOUS
  <2>0. disarmed \in Pages
    BY <1>0, <1>z DEF Pages
  <2>1. CASE request[q].at = "failed"
    <3>1. page' = disarmed /\ request' = [request EXCEPT ![q] = i]
      BY <1>5, <1>i, <2>1 DEF PurgeAnswered
    <3> QED BY <1>0, <1>i, <2>0, <2>u, <3>1, RequestStep
  <2>2. CASE request[q].at # "failed"
    <3>1. /\ page' = [disarmed EXCEPT !.pending = <<next>>]
          /\ request' = [request EXCEPT ![q] = i, ![next] = l]
      BY <1>5, <1>i, <1>l, <2>2 DEF PurgeAnswered
    <3>2. <<next>> \in Seq(Req)
      OBVIOUS
    <3>3. page' \in Pages
      BY <2>0, <3>1, <3>2 DEF Pages
    <3>4. request' \in [Req -> Request]
      BY <1>0, <3>1
    <3>5. ConsoleTypeOK'
      BY <2>u, <3>3, <3>4 DEF ConsoleInv, ConsoleTypeOK, Request, Pages
    <3>6. ASSUME NEW p \in Req PROVE ReadSoFar(request[p])'
      <4> PICK n : n = request'[p]
        OBVIOUS
      <4>1. ReadSoFar(n)
        BY <1>0, <1>i, <1>l, <3>1 DEF ConsoleInv
      <4>2. ReadSoFar(n)'
        BY <2>u, <4>1 DEF ReadSoFar
      <4> QED BY <4>2 DEF ReadSoFar
    <3> QED BY <2>u, <3>5, <3>6 DEF ConsoleInv
  <2> QED BY <2>1, <2>2
<1> QED BY <1>1, <1>2, <1>3, <1>4, <1>5

LEMMA ArmStep ==
  ASSUME ConsoleInv, (\E s \in Snap : ArmPurge(s)) \/ ArmPurgeAll \/ CancelPurge
  PROVE  ConsoleInv'
<1>1. page \in Pages
  BY ConsoleTypes DEF ConsoleInv
<1>2. page' \in Pages
  <2>1. ASSUME NEW s \in 0..MaxSnapshots, page' = [page EXCEPT !.armed = s] PROVE page' \in Pages
    BY <1>1, <2>1 DEF Pages
  <2>2. ASSUME NEW b \in BOOLEAN, page' = [page EXCEPT !.bulk = b] PROVE page' \in Pages
    BY <1>1, <2>2 DEF Pages
  <2>3. 0 \in 0..MaxSnapshots /\ Snap \subseteq 0..MaxSnapshots
    BY ConsoleAssumption DEF Snap
  <2> QED BY <2>1, <2>2, <2>3 DEF ArmPurge, ArmPurgeAll, CancelPurge
<1>3. UNCHANGED <<records, byState, take, held, taken, request>>
  BY DEF ArmPurge, ArmPurgeAll, CancelPurge
<1>4. ConsoleTypeOK'
  BY <1>2, <1>3 DEF ConsoleInv, ConsoleTypeOK, Pages
<1> QED BY <1>3, <1>4 DEF ConsoleInv, ReadSoFar

LEMMA ConsoleStep == ConsoleInv /\ [ConsoleNext]_consoleVars => ConsoleInv'
<1>1. ASSUME ConsoleInv, UNCHANGED consoleVars PROVE ConsoleInv'
  BY <1>1 DEF ConsoleInv, ConsoleTypeOK, ReadSoFar, consoleVars
<1>2. ASSUME ConsoleInv, ConsoleNext PROVE ConsoleInv'
  BY <1>2, SessionStep, ServiceStep, PageStep, ArmStep DEF ConsoleNext
<1> QED BY <1>1, <1>2

\* In a step that loses a snapshot, a purge deletes it, and every record that
\* names it has moved while that purge read.
LEMMA DeletesAreRead ==
  ASSUME ConsoleInv, [ConsoleNext]_consoleVars,
         NEW w \in Desk, NEW s \in held \ held', records[w].snap = s
  PROVE  \E q \in Req : request[q].at = "deleting" /\ w \in request[q].moved
<1>0. records \in [Desk -> Row] /\ request \in [Req -> Request] /\ held \subseteq Snap
  BY ConsoleTypes DEF ConsoleInv
<1>1. PICK q \in Req, t \in Snap : DeleteSnapshot(q, t) /\ held' = held \ {t}
  <2>1. held' # held
    OBVIOUS
  <2>2. \A v \in Desk : ~SnapshotForTransition(v)
    BY DEF SnapshotForTransition
  <2> QED BY <2>1, <2>2 DEF ConsoleNext, consoleVars, RecordSnapshot, ChangeState, Purge,
        Rewrite, IndexCatchesUp, ListSnapshots, ReadFails, ReadDone, PurgeDone, QueryState,
        DeleteSnapshot, StartLoad, LoadAnswered, ConfirmPurge, ConfirmPurgeAll,
        PurgeAnswered, ArmPurge, ArmPurgeAll, CancelPurge
<1>2. t = s /\ request[q].at = "deleting" /\ s \notin request[q].refs
  BY <1>1 DEF DeleteSnapshot, Purgeable
<1>3. records[w].state \in State /\ records[w].snap # 0
  BY <1>0 DEF ConsoleInv, Row, Snap
<1>4. ReadSoFar(request[q])
  BY DEF ConsoleInv
<1>5. w \in request[q].moved
  BY <1>2, <1>3, <1>4 DEF ReadSoFar
<1> QED BY <1>2, <1>5

\* For any number of workspaces, snapshots and requests in flight, no purge
\* deletes the restore point of a record that stood still while it read
\* (deleteSnapshotById, purgeUnreferencedSnapshots).
THEOREM ReferencesAreKept == ConsoleSpec => SteadyReferencesKept
<1>1. ConsoleInv /\ [ConsoleNext]_consoleVars =>
        [\A w \in Desk, s \in held \ held' :
           records[w].snap = s =>
             \E q \in Req : request[q].at = "deleting" /\ w \in request[q].moved]_consoleVars
  BY DeletesAreRead
<1> QED BY ConsoleInitial, ConsoleStep, <1>1, PTL DEF ConsoleSpec, SteadyReferencesKept

-----------------------------------------------------------------------------
(* The health report *)

Status == {"ok", "degraded", "down", "unknown"}
Fault == Dependency \cup {"reconciler"}

OpenReport == [at : {"checking", "rejected"}, found : [Check -> Status \cup {Unchecked}],
               throughout : SUBSET Fault]

\* What was wrong when the report began and still is can only have been found so.
FaultsFound ==
  report # NoReport =>
    /\ report \in OpenReport
    /\ report.throughout \subseteq Broken(dependency, beatAge)
    /\ \A c \in report.throughout : report.found[c] \in {Unchecked, "degraded", "down"}

BoardInv ==
  /\ dependency \in [Dependency -> {"up", "impaired", "absent", "unreachable"}]
  /\ beatAge \in 0..NoBeat
  /\ FaultsFound
  /\ NoFalseAllClear

LEMMA BoardInitial == BoardInit => BoardInv
  BY BoardAssumption DEF BoardInit, BoardInv, FaultsFound, NoFalseAllClear, NoBeat

\* The worst of the statuses: ok only when none is degraded or down.
LEMMA WorstStatus ==
  ASSUME NEW C, NEW found \in [C -> Status]
  PROVE  /\ SummarizeHealth(found) \in {"ok", "degraded", "down"}
         /\ SummarizeHealth(found) = "ok" => \A c \in C : found[c] \notin {"degraded", "down"}
<1>1. \A s \in Status : Severity(s) = (IF s = "down" THEN 2 ELSE IF s = "degraded" THEN 1 ELSE 0)
  BY DEF Status, Severity
<1>2. CASE \A c \in C : Severity(found[c]) = 0
  BY <1>1, <1>2 DEF SummarizeHealth, Status
<1>3. CASE ~ \A c \in C : Severity(found[c]) = 0
  <2>1. \E s \in {"degraded", "down"} :
          /\ \E c \in C : found[c] = s
          /\ \A c \in C : Severity(found[c]) <= Severity(s)
    <3>1. CASE \E c \in C : found[c] = "down"
      BY <1>1, <3>1 DEF Status
    <3>2. CASE ~ \E c \in C : found[c] = "down"
      BY <1>1, <1>3, <3>2 DEF Status
    <3> QED BY <3>1, <3>2
  <2>2. SummarizeHealth(found) \in {"degraded", "down"}
    BY <1>3, <2>1 DEF SummarizeHealth
  <2> QED BY <2>2
<1> QED BY <1>2, <1>3

\* A check of something that is broken does not find it ok.
LEMMA ChecksFind ==
  ASSUME BoardInv, NEW c \in Check, NEW s \in Finds(c)
  PROVE  /\ s \in Status
         /\ c \in Broken(dependency, beatAge) => s \in {"degraded", "down"}
<1>1. CASE c = "dynamodb"
  BY <1>1 DEF Finds, PingTable, Broken, BoardInv, Status, Dependency
<1>2. CASE c = "compute"
  BY <1>2 DEF Finds, ComputeHealth, Broken, BoardInv, Status, Dependency
<1>3. CASE c = "storage"
  BY <1>3 DEF Finds, StorageHealth, Broken, BoardInv, Status, Dependency
<1>4. CASE c = "reconciler"
  <2>1. s = ReconcilerHealthFromHeartbeat
    BY <1>4 DEF Finds
  <2>2. c \in Broken(dependency, beatAge) => beatAge \in (StaleAfter + 1)..MaxBeatAge
    BY <1>4 DEF Broken, Dependency
  <2> QED BY <2>1, <2>2, BoardAssumption
        DEF ReconcilerHealthFromHeartbeat, NoBeat, BoardInv, Status
<1>5. CASE c = "git-integration"
  <2>1. c \notin Broken(dependency, beatAge)
    BY <1>5 DEF Broken, Dependency
  <2>2. s \in GitFindings
    BY <1>5 DEF Finds
  <2> QED BY <2>1, <2>2 DEF GitFindings, GitIntegrationHealth, Status
<1> QED BY <1>1, <1>2, <1>3, <1>4, <1>5 DEF Check, Dependency

\* A complete report: every status is known, and the faults that lasted are found.
LEMMA CompleteReport ==
  ASSUME BoardInv, Complete
  PROVE  /\ report.found \in [Check -> Status]
         /\ report.throughout \subseteq Fault /\ Fault \subseteq Check
         /\ \A c \in report.throughout : report.found[c] \in {"degraded", "down"}
<1>1. report # NoReport
  BY DEF Complete, NoReport
<1>2. report \in OpenReport /\ Fault \subseteq Check
  BY <1>1 DEF BoardInv, FaultsFound, Fault, Check
<1>3. report.found \in [Check -> Status]
  BY <1>2 DEF Complete, OpenReport
<1> QED BY <1>1, <1>2, <1>3 DEF BoardInv, FaultsFound, OpenReport, Complete

\* A change of the deployment: what a report under way has seen last all along
\* is what is still broken after it.
LEMMA DeploymentStep ==
  ASSUME BoardInv, (\E d \in Dependency : DependencyChanges(d)) \/ SweepCompletes \/ BeatAges
  PROVE  BoardInv'
<1>t. NoFalseAllClear'
  BY DEF BoardInv, NoFalseAllClear, DependencyChanges, SweepCompletes, BeatAges
<1>s. ASSUME NEW now, now = Broken(dependency, beatAge)', StillBroken(now) PROVE FaultsFound'
  <2>1. CASE report = NoReport
    BY <1>s, <2>1 DEF StillBroken, FaultsFound
  <2>2. CASE report # NoReport
    <3>1. report \in OpenReport /\ report' = [report EXCEPT !.throughout = @ \cap now]
      BY <1>s, <2>2 DEF StillBroken, BoardInv, FaultsFound
    <3>2. /\ report' \in OpenReport /\ report'.throughout = report.throughout \cap now
          /\ report'.found = report.found
      BY <3>1 DEF OpenReport
    <3> QED BY <1>s, <2>2, <3>2 DEF BoardInv, FaultsFound
  <2> QED BY <2>1, <2>2
<1>1. ASSUME NEW d \in Dependency, DependencyChanges(d) PROVE BoardInv'
  <2>1. /\ dependency' \in [Dependency -> {"up", "impaired", "absent", "unreachable"}]
        /\ beatAge' = beatAge
    BY <1>1 DEF DependencyChanges, DependencyState, BoardInv
  <2>2. StillBroken(Broken(dependency', beatAge)) /\ Broken(dependency', beatAge) = Broken(dependency, beatAge)'
    BY <1>1, <2>1 DEF DependencyChanges
  <2>3. FaultsFound'
    BY <1>s, <2>2
  <2> QED BY <1>t, <2>1, <2>3 DEF BoardInv, NoBeat
<1>2. CASE SweepCompletes
  <2>1. dependency' = dependency /\ beatAge' = 0
    BY <1>2 DEF SweepCompletes
  <2>2. StillBroken(Broken(dependency, 0)) /\ Broken(dependency, 0) = Broken(dependency, beatAge)'
    BY <1>2, <2>1 DEF SweepCompletes
  <2>3. FaultsFound'
    BY <1>s, <2>2
  <2> QED BY <1>t, <2>1, <2>3, BoardAssumption DEF BoardInv, NoBeat
<1>3. CASE BeatAges
  <2>1. beatAge' = beatAge + 1 /\ beatAge < MaxBeatAge /\ UNCHANGED <<dependency, report>>
    BY <1>3 DEF BeatAges
  <2>2. Broken(dependency, beatAge) \subseteq Broken(dependency, beatAge)'
    BY <2>1, BoardAssumption DEF Broken, BoardInv, NoBeat
  <2>3. FaultsFound'
    BY <2>1, <2>2 DEF FaultsFound, BoardInv
  <2> QED BY <1>t, <2>1, <2>3, BoardAssumption DEF BoardInv, NoBeat
<1> QED BY <1>1, <1>2, <1>3

LEMMA ReportStep ==
  ASSUME BoardInv, StartReport \/ \E c \in Check : RunCheck(c)
  PROVE  BoardInv'
<1>u. UNCHANGED <<dependency, beatAge>>
  BY DEF StartReport, RunCheck
<1>1. CASE StartReport
  <2>1. Broken(dependency, beatAge) \subseteq Fault
    BY DEF Broken, Fault
  <2>2. report' = [at |-> "checking", found |-> [c \in Check |-> Unchecked],
                   throughout |-> Broken(dependency, beatAge)]
    BY <1>1 DEF StartReport
  <2>3. report' \in OpenReport
    BY <2>1, <2>2 DEF OpenReport
  <2>4. FaultsFound'
    BY <1>u, <2>1, <2>2, <2>3 DEF FaultsFound, Broken, Fault, Check
  <2>5. NoFalseAllClear'
    BY <1>1 DEF StartReport, NoFalseAllClear
  <2> QED BY <1>u, <2>4, <2>5 DEF BoardInv, NoBeat
<1>2. ASSUME NEW c \in Check, RunCheck(c) PROVE BoardInv'
  <2>1. report \in OpenReport /\ report # NoReport
    BY <1>2 DEF RunCheck, NoReport, BoardInv, FaultsFound
  <2>2. NoFalseAllClear'
    BY <1>2 DEF RunCheck, BoardInv, NoFalseAllClear
  <2>3. CASE report' = [report EXCEPT !.at = "rejected"]
    <3>1. /\ report' \in OpenReport /\ report'.found = report.found
          /\ report'.throughout = report.throughout
      BY <2>1, <2>3 DEF OpenReport
    <3>2. FaultsFound'
      BY <1>u, <2>1, <3>1 DEF BoardInv, FaultsFound, Broken
    <3> QED BY <1>u, <2>2, <3>2 DEF BoardInv, NoBeat
  <2>4. ASSUME NEW s \in Finds(c), report' = [report EXCEPT !.found[c] = s] PROVE BoardInv'
    <3>1. s \in Status /\ (c \in Broken(dependency, beatAge) => s \in {"degraded", "down"})
      BY ChecksFind
    <3>2. /\ report' \in OpenReport /\ report'.found = [report.found EXCEPT ![c] = s]
          /\ report'.throughout = report.throughout
      BY <2>1, <2>4, <3>1 DEF OpenReport
    <3>3. \A d \in report'.throughout : report'.found[d] \in {Unchecked, "degraded", "down"}
      BY <2>1, <3>1, <3>2 DEF BoardInv, FaultsFound, OpenReport
    <3>4. FaultsFound'
      BY <1>u, <2>1, <3>2, <3>3 DEF BoardInv, FaultsFound, Broken
    <3> QED BY <1>u, <2>2, <3>4 DEF BoardInv, NoBeat
  <2> QED BY <1>2, <2>3, <2>4 DEF RunCheck
<1> QED BY <1>1, <1>2

\* Every page that gives a verdict from a complete report.
LEMMA VerdictStep ==
  ASSUME BoardInv,
         ShowReport \/ ShowError \/ GetConfigSyncReport \/ ShowInfrastructure \/ BuildObservation
  PROVE  BoardInv'
<1>u. UNCHANGED <<dependency, beatAge>> /\ report' = NoReport
  BY DEF ShowReport, ShowError, GetConfigSyncReport, ShowInfrastructure, BuildObservation
<1>f. FaultsFound'
  BY <1>u DEF FaultsFound, NoReport
<1> SUFFICES NoFalseAllClear'
  BY <1>u, <1>f DEF BoardInv, NoBeat
<1> PICK found : found = report.found
  OBVIOUS
<1> PICK faults : faults = report.throughout
  OBVIOUS
<1>c. ASSUME Complete
      PROVE  /\ found \in [Check -> Status] /\ faults \subseteq Fault /\ Fault \subseteq Check
             /\ \A c \in faults : found[c] \in {"degraded", "down"}
  BY <1>c, CompleteReport
<1>i. ASSUME Complete
      PROVE  /\ InfrastructureReport(found) \in [Check \ {"git-integration"} -> Status]
             /\ \A c \in Fault : InfrastructureReport(found)[c] = found[c]
             /\ Fault \subseteq Check \ {"git-integration"}
  BY <1>c, <1>i DEF InfrastructureReport, Fault, Check, Dependency
<1>1. CASE ShowReport
  <2>1. Complete /\ told' = [by |-> "board", status |-> SummarizeHealth(found), throughout |-> faults]
    BY <1>1 DEF ShowReport
  <2>2. SummarizeHealth(found) = "ok" => faults = {}
    BY <1>c, <2>1, WorstStatus
  <2> QED BY <2>1, <2>2 DEF NoFalseAllClear
<1>2. CASE ShowError
  BY <1>2 DEF ShowError, NoFalseAllClear
<1>3. CASE GetConfigSyncReport
  <2>1. PICK signal \in IamPreflight :
          told' = [by |-> "config sync", inSync |-> EvaluateConfigSync(found, signal),
                   unmet |-> (faults \cap {"dynamodb", "compute"})
                             \cup (IF coordinates = "missing" THEN {"coordinates"} ELSE {})
                             \cup NotAllowed(signal)]
    BY <1>3 DEF GetConfigSyncReport
  <2>2. ASSUME EvaluateConfigSync(found, signal) PROVE NotAllowed(signal) = {}
    BY <2>2 DEF EvaluateConfigSync, EvaluateIamPermissions, NotAllowed, IamPreflight
  <2>3. ASSUME EvaluateConfigSync(found, signal) PROVE faults \cap {"dynamodb", "compute"} = {}
    BY <1>3, <1>c, <2>3 DEF GetConfigSyncReport, EvaluateConfigSync, DependencyCheck
  <2>4. EvaluateConfigSync(found, signal) => coordinates # "missing"
    BY DEF EvaluateConfigSync
  <2>5. told'.by = "config sync" /\ (told'.inSync => told'.unmet = {})
    BY <2>1, <2>2, <2>3, <2>4
  <2> QED BY <2>5 DEF NoFalseAllClear
<1>4. CASE ShowInfrastructure
  <2>1. Complete /\ told' = [by |-> "infrastructure", throughout |-> faults,
                             nodes |-> OverlayTopologyHealth(InfrastructureReport(found))]
    BY <1>4 DEF ShowInfrastructure
  <2>2. \A n \in Fault : OverlayTopologyHealth(InfrastructureReport(found))[n] = found[n]
    <3> PICK inf : inf = InfrastructureReport(found)
      OBVIOUS
    <3>1. Fault \subseteq DOMAIN inf /\ \A n \in Fault : inf[n] = found[n]
      BY <1>i, <2>1
    <3>2. Fault \subseteq SystemTopology
      BY DEF Fault, SystemTopology
    <3>3. ASSUME NEW n \in Fault PROVE OverlayTopologyHealth(inf)[n] = inf[n]
      <4>1. n \in SystemTopology /\ n \in DOMAIN inf /\ n # "control-plane"
        BY <3>1, <3>2 DEF Fault, Dependency
      <4> QED BY <4>1 DEF OverlayTopologyHealth
    <3> QED BY <3>1, <3>3
  <2> QED BY <1>c, <2>1, <2>2 DEF NoFalseAllClear
<1>5. CASE BuildObservation
  <2>1. PICK m \in ReadSelfMemory :
          told' = [by |-> "observation",
                   status |-> MapHealth(SummarizeHealth(InfrastructureReport(found))),
                   container |-> ContainerHealth(m),
                   throughout |-> faults
                       \cup (IF "positive" \in {m.ceilingHits, m.socketThrottles}
                             THEN {"container"} ELSE {})]
    BY <1>5 DEF BuildObservation
  <2>2. MapHealth(SummarizeHealth(InfrastructureReport(found))) = "healthy" => faults = {}
    <3>1. Complete
      BY <1>5 DEF BuildObservation
    <3>2. /\ SummarizeHealth(InfrastructureReport(found)) \in {"ok", "degraded", "down"}
          /\ SummarizeHealth(InfrastructureReport(found)) = "ok" => faults = {}
      BY <1>c, <1>i, <3>1, WorstStatus
    <3> QED BY <3>2 DEF MapHealth
  <2>3. "positive" \in {m.ceilingHits, m.socketThrottles} => ContainerHealth(m) # "healthy"
    BY DEF ContainerHealth
  <2>4. "container" \notin faults
    BY <1>5, <1>c DEF BuildObservation, Fault, Dependency
  <2> QED BY <2>1, <2>2, <2>3, <2>4 DEF NoFalseAllClear
<1> QED BY <1>1, <1>2, <1>3, <1>4, <1>5

LEMMA BoardStep == BoardInv /\ [BoardNext]_boardVars => BoardInv'
<1>1. ASSUME BoardInv, UNCHANGED boardVars PROVE BoardInv'
  BY <1>1 DEF BoardInv, FaultsFound, NoFalseAllClear, Broken, NoBeat, boardVars
<1>2. ASSUME BoardInv, BoardNext PROVE BoardInv'
  BY <1>2, DeploymentStep, ReportStep, VerdictStep DEF BoardNext
<1> QED BY <1>1, <1>2

\* However the dependencies fail and recover while a report asks them, and
\* whatever the thresholds and the required permissions: no page calls healthy,
\* or in sync, what was broken all the while (HealthService.report,
\* evaluateConfigSync, overlayTopologyHealth, buildObservation).
THEOREM AllClearIsTrue == BoardSpec => []NoFalseAllClear
<1>1. BoardInv => NoFalseAllClear
  BY DEF BoardInv
<1> QED BY BoardInitial, BoardStep, <1>1, PTL DEF BoardSpec

-----------------------------------------------------------------------------
(* Sessions from the catalog *)

Decision == {"enabled", "disabled", "removed", "unused"}
LoadedChange == [at : {"loaded"}, entry : Entry, next : EntryRow \cup {Absent},
                 version : Nat, decision : {"enabled", "disabled", "removed", "same"}]
OpenCreation == [at : {"catalog", "editor", "checks", "reserve", "reserved"},
                 image : ImageRef, editor : Editor, allowed : BOOLEAN]

\* The table's row says what was last decided, and the index never shows a
\* different row under the table's version.
EntryOK(e) ==
  /\ catalog[e] # Absent => (catalog[e].enabled = TRUE <=> decided[e] = "enabled")
  /\ decided[e] = "unused" => catalog[e] = Absent /\ listing[e] = Absent
  /\ catalog[e] # Absent /\ listing[e] # Absent =>
       /\ listing[e].version <= catalog[e].version
       /\ listing[e].version = catalog[e].version => listing[e] = catalog[e]

\* A change whose version condition holds was computed from the row it replaces.
ChangeOK(c) ==
  c # NoChange =>
    /\ decided[c.entry] # "unused"
    /\ c.next = Absent <=> c.decision = "removed"
    /\ c.decision = "enabled" => c.next.enabled = TRUE
    /\ c.decision = "disabled" => c.next.enabled = FALSE
    /\ catalog[c.entry] # Absent =>
         /\ c.version <= catalog[c.entry].version
         /\ c.version = catalog[c.entry].version /\ c.decision = "same" =>
              c.next.enabled = catalog[c.entry].enabled

\* While an image has not been allowed since the request came in, neither the
\* table nor the index offers it; past the check it was allowed.
CreationOK(r) ==
  r # NoCreation /\ r.allowed = FALSE =>
    /\ r.at = "catalog"
    /\ \A e \in Entry : catalog[e] # Absent /\ catalog[e].enabled = TRUE => catalog[e].image # r.image
    /\ \A e \in Entry : listing[e] # Absent /\ listing[e].enabled = TRUE => listing[e].image # r.image

CatalogTypes ==
  /\ catalog \in [Entry -> EntryRow \cup {Absent}]
  /\ listing \in [Entry -> EntryRow \cup {Absent}]
  /\ decided \in [Entry -> Decision]
  /\ change \in [CatalogAdmin -> LoadedChange \cup {NoChange}]
  /\ creation \in [Creation -> OpenCreation \cup {NoCreation}]

CatalogInv ==
  /\ CatalogTypes
  /\ \A e \in Entry : EntryOK(e)
  /\ \A a \in CatalogAdmin : ChangeOK(change[a])
  /\ \A q \in Creation : CreationOK(creation[q])

LEMMA CatalogInitial == CatalogInit => CatalogInv
  BY DEF CatalogInit, CatalogInv, CatalogTypes, EntryOK, ChangeOK, CreationOK, Decision

LEMMA AbsentIsNoRow == \A row \in EntryRow : row # Absent
  BY DEF EntryRow, Absent

\* A patch changes the fields it names and keeps the others.
LEMMA PatchedRow ==
  ASSUME NEW row \in EntryRow, NEW b \in BOOLEAN, NEW ed \in Editor, NEW image \in ImageRef
  PROVE  /\ ApplyPatch(row, [enabled |-> b]) = [row EXCEPT !.enabled = b]
         /\ ApplyPatch(row, [editor |-> ed]) = [row EXCEPT !.editor = ed]
         /\ ApplyPatch(row, [image |-> image]) = [row EXCEPT !.image = image]
<1> DOMAIN row = {"image", "enabled", "editor", "version"}
  BY DEF EntryRow
<1>1. ApplyPatch(row, [enabled |-> b]) = [row EXCEPT !.enabled = b]
  BY DEF ApplyPatch, EntryRow
<1>2. ApplyPatch(row, [editor |-> ed]) = [row EXCEPT !.editor = ed]
  BY DEF ApplyPatch, EntryRow
<1>3. ApplyPatch(row, [image |-> image]) = [row EXCEPT !.image = image]
  BY DEF ApplyPatch, EntryRow
<1> QED BY <1>1, <1>2, <1>3

\* What the decisions allow is what the table's rows offer.
LEMMA AllowedRows ==
  ASSUME CatalogInv, NEW image
  PROVE  Allowed(catalog, decided, image) <=>
           \E e \in Entry : /\ catalog[e] # Absent /\ catalog[e].enabled = TRUE
                            /\ catalog[e].image = image
  BY DEF CatalogInv, EntryOK, Allowed, Rows

\* A request goes on, or ends.
LEMMA GoStep ==
  ASSUME CatalogInv, NEW q \in Creation, NEW r \in OpenCreation \cup {NoCreation},
         CreationOK(r), Go(q, r)
  PROVE  CatalogInv'
<1>1. creation' = [creation EXCEPT ![q] = r] /\ UNCHANGED <<catalog, listing, decided, change>>
  BY DEF Go
<1>2. CatalogTypes'
  BY <1>1 DEF CatalogInv, CatalogTypes
<1>3. \A e \in Entry : EntryOK(e)'
  BY <1>1 DEF CatalogInv, EntryOK
<1>4. \A a \in CatalogAdmin : ChangeOK(change[a])'
  BY <1>1 DEF CatalogInv, ChangeOK
<1>5. ASSUME NEW p \in Creation PROVE CreationOK(creation[p])'
  <2> PICK n : n = creation'[p]
    OBVIOUS
  <2>1. CreationOK(n)
    BY <1>1 DEF CatalogInv, CatalogTypes
  <2> QED BY <1>1, <2>1 DEF CreationOK
<1> QED BY <1>2, <1>3, <1>4, <1>5 DEF CatalogInv

\* An administrator's request or a rollout has read, and computed its write.
LEMMA LoadStep ==
  ASSUME CatalogInv, NEW a \in CatalogAdmin, NEW c \in LoadedChange, ChangeOK(c),
         change' = [change EXCEPT ![a] = c], UNCHANGED <<catalog, listing, decided, creation>>
  PROVE  CatalogInv'
<1>1. CatalogTypes'
  BY DEF CatalogInv, CatalogTypes
<1>2. \A e \in Entry : EntryOK(e)'
  BY DEF CatalogInv, EntryOK
<1>3. ASSUME NEW b \in CatalogAdmin PROVE ChangeOK(change[b])'
  <2> PICK n : n = change'[b]
    OBVIOUS
  <2>1. ChangeOK(n)
    BY DEF CatalogInv, CatalogTypes
  <2> QED BY <2>1 DEF ChangeOK
<1>4. \A q \in Creation : CreationOK(creation[q])'
  BY DEF CatalogInv, CreationOK
<1> QED BY <1>1, <1>2, <1>3, <1>4 DEF CatalogInv

\* A write of one entry that agrees with its decision and moves its version on.
LEMMA TableStep ==
  ASSUME CatalogInv, NEW e \in Entry, NEW row \in EntryRow \cup {Absent},
         NEW dec \in Decision \ {"unused"},
         catalog' = [catalog EXCEPT ![e] = row], decided' = [decided EXCEPT ![e] = dec],
         row # Absent => (row.enabled = TRUE <=> dec = "enabled"),
         row # Absent /\ catalog[e] # Absent => catalog[e].version < row.version,
         row # Absent /\ catalog[e] = Absent => decided[e] = "unused",
         change' \in [CatalogAdmin -> LoadedChange \cup {NoChange}],
         \A a \in CatalogAdmin : change'[a] \in {change[a], NoChange},
         listing' = listing, creation' = Watched(catalog', decided')
  PROVE  CatalogInv'
<1>0. CatalogTypes /\ (\A d \in Entry : EntryOK(d))
  BY DEF CatalogInv
<1>1. ASSUME NEW d \in Entry PROVE EntryOK(d)'
  <2>1. CASE d # e
    BY <1>0, <2>1 DEF EntryOK, CatalogTypes
  <2>2. CASE d = e
    <3>1. catalog'[d] = row /\ decided'[d] = dec /\ listing'[d] = listing[d] /\ EntryOK(d)
      BY <1>0, <2>2 DEF CatalogTypes
    <3>2. listing[d] \in EntryRow \cup {Absent} /\ catalog[d] \in EntryRow \cup {Absent}
      BY <1>0 DEF CatalogTypes
    <3> QED BY <2>2, <3>1, <3>2 DEF EntryOK, EntryRow
  <2> QED BY <2>1, <2>2
<1>2. ASSUME NEW a \in CatalogAdmin PROVE ChangeOK(change[a])'
  <2> PICK c : c = change'[a]
    OBVIOUS
  <2>0. ChangeOK(c)
    BY DEF CatalogInv, ChangeOK
  <2>1. CASE c = NoChange
    BY <2>1 DEF ChangeOK
  <2>2. CASE c # NoChange
    <3>1. c \in LoadedChange
      BY <2>2
    <3>2. c.entry \in Entry /\ c.version \in Nat
      BY <3>1 DEF LoadedChange
    <3>3. CASE c.entry # e
      BY <1>0, <2>0, <3>2, <3>3 DEF ChangeOK, CatalogTypes
    <3>4. CASE c.entry = e
      <4>1. catalog'[e] = row /\ decided'[e] = dec
        BY <1>0 DEF CatalogTypes
      <4>2. decided[e] # "unused" /\ (catalog[e] # Absent => c.version <= catalog[e].version)
        BY <2>0, <2>2, <3>4 DEF ChangeOK
      <4>3. catalog[e] \in EntryRow \cup {Absent}
        BY <1>0 DEF CatalogTypes
      <4>4. row # Absent => c.version < row.version
        BY <3>2, <4>2, <4>3 DEF EntryRow
      <4>5. row # Absent => row.version \in Nat
        BY DEF EntryRow
      <4> QED BY <2>0, <2>2, <3>2, <3>4, <4>1, <4>4, <4>5 DEF ChangeOK
    <3> QED BY <3>3, <3>4
  <2> QED BY <2>1, <2>2
<1>3. ASSUME NEW q \in Creation
      PROVE  creation'[q] \in OpenCreation \cup {NoCreation} /\ CreationOK(creation[q])'
  <2> PICK r : r = creation[q]
    OBVIOUS
  <2>0. r \in OpenCreation \cup {NoCreation} /\ CreationOK(r)
    BY <1>0 DEF CatalogInv, CatalogTypes
  <2>1. CASE r.at \in {"none", "reserved"}
    <3>1. creation'[q] = r
      BY <2>1 DEF Watched
    <3>2. r = NoCreation \/ r.allowed = TRUE
      BY <2>0, <2>1 DEF CreationOK, OpenCreation
    <3> QED BY <2>0, <3>1, <3>2 DEF CreationOK, NoCreation
  <2>2. CASE r.at \notin {"none", "reserved"}
    <3>0. r \in OpenCreation
      BY <2>0, <2>2 DEF NoCreation
    <3>1. PICK b \in BOOLEAN : b = (r.allowed \/ Allowed(catalog', decided', r.image))
      OBVIOUS
    <3>2. creation'[q] = [r EXCEPT !.allowed = b]
      BY <2>2, <3>1 DEF Watched
    <3> PICK n : n = [r EXCEPT !.allowed = b]
      OBVIOUS
    <3>3. n \in OpenCreation /\ n.image = r.image /\ n.at = r.at /\ n.allowed = b
      BY <3>0 DEF OpenCreation
    <3>4. ASSUME b = FALSE
          PROVE  /\ r.allowed = FALSE
                 /\ \A d \in Entry : catalog'[d] # Absent /\ catalog'[d].enabled = TRUE =>
                                       catalog'[d].image # r.image
      <4>1. r.allowed = FALSE /\ ~Allowed(catalog', decided', r.image)
        BY <3>0, <3>1, <3>4 DEF OpenCreation
      <4> QED BY <1>1, <4>1 DEF EntryOK, Allowed, Rows
    <3>5. CreationOK(n)'
      BY <2>0, <3>3, <3>4 DEF CreationOK, NoCreation
    <3>6. creation'[q] = n
      BY <3>2
    <3>7. CreationOK(creation[q])'
      BY <3>5, <3>6 DEF CreationOK
    <3> QED BY <3>3, <3>6, <3>7
  <2> QED BY <2>1, <2>2
<1>4. CatalogTypes'
  <2>1. creation' \in [Creation -> OpenCreation \cup {NoCreation}]
    BY <1>3 DEF Watched
  <2> QED BY <1>0, <2>1 DEF CatalogTypes
<1> QED BY <1>1, <1>2, <1>3, <1>4 DEF CatalogInv

LEMMA CreateEntryStep ==
  ASSUME CatalogInv, NEW e \in Entry, CreateEntry(e)
  PROVE  CatalogInv'
<1>1. PICK row \in ProvisionBaseImage :
        /\ catalog' = [catalog EXCEPT ![e] = row]
        /\ decided' = [decided EXCEPT ![e] = IF row.enabled THEN "enabled" ELSE "disabled"]
  BY DEF CreateEntry
<1>2. row \in EntryRow
  BY <1>1 DEF ProvisionBaseImage, EntryRow
<1>3. PICK dec \in {"enabled", "disabled"} : dec = IF row.enabled THEN "enabled" ELSE "disabled"
  OBVIOUS
<1>4. row.enabled = TRUE <=> dec = "enabled"
  BY <1>2, <1>3 DEF EntryRow
<1>5. /\ decided[e] = "unused" /\ catalog[e] = Absent /\ change' = change /\ listing' = listing
      /\ creation' = Watched(catalog', decided')
  BY DEF CreateEntry, CatalogInv, EntryOK
<1>6. change \in [CatalogAdmin -> LoadedChange \cup {NoChange}]
  BY DEF CatalogInv, CatalogTypes
<1>7. decided' = [decided EXCEPT ![e] = dec] /\ dec \in Decision \ {"unused"}
  BY <1>1, <1>3 DEF Decision
<1> QED BY <1>1, <1>2, <1>4, <1>5, <1>6, <1>7, TableStep

LEMMA PersistStep ==
  ASSUME CatalogInv, NEW a \in CatalogAdmin, PersistChange(a)
  PROVE  CatalogInv'
<1>0. CatalogTypes /\ \A b \in CatalogAdmin : ChangeOK(change[b])
  BY DEF CatalogInv
<1> PICK c : c = change[a]
  OBVIOUS
<1>1. c \in LoadedChange /\ ChangeOK(c) /\ c # NoChange
  BY <1>0 DEF PersistChange, CatalogTypes, NoChange
<1>2. /\ change' = [change EXCEPT ![a] = NoChange] /\ listing' = listing
      /\ change' \in [CatalogAdmin -> LoadedChange \cup {NoChange}]
      /\ \A b \in CatalogAdmin : change'[b] \in {change[b], NoChange}
  BY <1>0 DEF PersistChange, CatalogTypes
<1>3. ASSUME WriteLands(c),
             catalog' = [catalog EXCEPT ![c.entry] =
                IF c.next = Absent THEN Absent ELSE [c.next EXCEPT !.version = c.version + 1]],
             decided' = IF c.decision = "same" THEN decided
                        ELSE [decided EXCEPT ![c.entry] = c.decision],
             creation' = Watched(catalog', decided')
      PROVE  CatalogInv'
  <2> PICK e \in Entry : e = c.entry
    BY <1>1 DEF LoadedChange
  <2> PICK row : row = IF c.next = Absent THEN Absent ELSE [c.next EXCEPT !.version = c.version + 1]
    OBVIOUS
  <2> PICK dec : dec = IF c.decision = "same" THEN decided[e] ELSE c.decision
    OBVIOUS
  <2>1. catalog[e] \in EntryRow /\ catalog[e].version = c.version /\ EntryOK(e)
    BY <1>0, <1>3 DEF WriteLands, CatalogTypes, CatalogInv
  <2>2. /\ row \in EntryRow \cup {Absent}
        /\ row # Absent => /\ c.next # Absent /\ row.enabled = c.next.enabled
                           /\ row.version = c.version + 1
    BY <1>1 DEF LoadedChange, EntryRow
  <2>3. decided' = [decided EXCEPT ![e] = dec]
    BY <1>0, <1>3 DEF CatalogTypes
  <2>4. dec \in Decision \ {"unused"}
    BY <1>0, <1>1 DEF ChangeOK, CatalogTypes, Decision, LoadedChange
  <2>5. row # Absent => (row.enabled = TRUE <=> dec = "enabled")
    <3>0. ASSUME row # Absent PROVE c.decision \in {"enabled", "disabled", "same"}
      BY <1>1, <2>2, <3>0 DEF ChangeOK, LoadedChange
    <3>1. ASSUME row # Absent, c.decision = "same" PROVE row.enabled = TRUE <=> dec = "enabled"
      <4>1. catalog[e] # Absent /\ c.next.enabled = catalog[e].enabled
        BY <1>1, <1>3, <2>1, <3>1 DEF ChangeOK, WriteLands
      <4> QED BY <2>1, <2>2, <3>1, <4>1 DEF EntryOK
    <3>2. ASSUME row # Absent, c.decision \in {"enabled", "disabled"}
          PROVE  row.enabled = TRUE <=> dec = "enabled"
      BY <1>1, <2>2, <3>2 DEF ChangeOK
    <3> QED BY <3>0, <3>1, <3>2
  <2>6. /\ row # Absent => catalog[e].version < row.version
        /\ catalog[e] # Absent
    BY <1>1, <1>3, <2>1, <2>2 DEF LoadedChange, WriteLands
  <2>7. catalog' = [catalog EXCEPT ![e] = row]
    BY <1>3
  <2>8. /\ row # Absent /\ catalog[e] # Absent => catalog[e].version < row.version
        /\ row # Absent /\ catalog[e] = Absent => decided[e] = "unused"
    BY <2>6
  <2>9. /\ change' \in [CatalogAdmin -> LoadedChange \cup {NoChange}]
        /\ \A b \in CatalogAdmin : change'[b] \in {change[b], NoChange}
        /\ listing' = listing /\ creation' = Watched(catalog', decided')
    BY <1>2, <1>3
  <2>10. row \in EntryRow \cup {Absent}
    BY <2>2
  <2> QED BY <2>3, <2>4, <2>5, <2>7, <2>8, <2>9, <2>10, TableStep
<1>4. ASSUME UNCHANGED <<catalog, decided, creation>> PROVE CatalogInv'
  <2>1. CatalogTypes'
    BY <1>0, <1>2, <1>4 DEF CatalogTypes
  <2>2. \A e \in Entry : EntryOK(e)'
    BY <1>2, <1>4 DEF CatalogInv, EntryOK
  <2>3. ASSUME NEW b \in CatalogAdmin PROVE ChangeOK(change[b])'
    <3> PICK n : n = change'[b]
      OBVIOUS
    <3>1. ChangeOK(n)
      BY <1>0, <1>2 DEF ChangeOK
    <3> QED BY <1>4, <3>1 DEF ChangeOK
  <2>4. \A q \in Creation : CreationOK(creation[q])'
    BY <1>2, <1>4 DEF CatalogInv, CreationOK
  <2> QED BY <2>1, <2>2, <2>3, <2>4 DEF CatalogInv
<1> QED BY <1>3, <1>4 DEF PersistChange

LEMMA ListingStep ==
  ASSUME CatalogInv, NEW e \in Entry, ListingCatchesUp(e)
  PROVE  CatalogInv'
<1>0. CatalogTypes
  BY DEF CatalogInv
<1>1. listing' = [listing EXCEPT ![e] = catalog[e]] /\ UNCHANGED <<catalog, decided, change, creation>>
  BY DEF ListingCatchesUp
<1>2. CatalogTypes'
  BY <1>0, <1>1 DEF CatalogTypes
<1>3. ASSUME NEW d \in Entry PROVE EntryOK(d)'
  <2>1. CASE d # e
    BY <1>0, <1>1, <2>1 DEF CatalogInv, EntryOK, CatalogTypes
  <2>2. CASE d = e
    <3>1. listing'[d] = catalog[d] /\ catalog[d] \in EntryRow \cup {Absent} /\ EntryOK(d)
      BY <1>0, <1>1, <2>2 DEF CatalogTypes, CatalogInv
    <3> QED BY <1>1, <3>1 DEF EntryOK, EntryRow
  <2> QED BY <2>1, <2>2
<1>4. \A a \in CatalogAdmin : ChangeOK(change[a])'
  BY <1>1 DEF CatalogInv, ChangeOK
<1>5. \A q \in Creation : CreationOK(creation[q])'
  BY <1>0, <1>1 DEF CatalogInv, CreationOK, CatalogTypes
<1> QED BY <1>2, <1>3, <1>4, <1>5 DEF CatalogInv

LEMMA LoadForUpdateStep ==
  ASSUME CatalogInv, NEW a \in CatalogAdmin, NEW e \in Entry, LoadForUpdate(a, e)
  PROVE  CatalogInv'
<1>0. UNCHANGED <<catalog, listing, decided, creation>>
  BY DEF LoadForUpdate
<1>1. catalog[e] \in EntryRow /\ catalog[e] # Absent /\ decided[e] # "unused"
  BY DEF LoadForUpdate, CatalogInv, CatalogTypes, EntryOK
<1> PICK row \in EntryRow : row = catalog[e]
  BY <1>1
<1>2. ASSUME NEW next \in EntryRow, NEW d \in {"enabled", "disabled", "same"},
             d = "same" => next.enabled = row.enabled,
             d = "enabled" => next.enabled = TRUE, d = "disabled" => next.enabled = FALSE,
             Loaded(a, e, next, row.version, d)
      PROVE  CatalogInv'
  <2> PICK c : c = [at |-> "loaded", entry |-> e, next |-> next, version |-> row.version,
                    decision |-> d]
    OBVIOUS
  <2>0. row.version \in Nat /\ next # Absent
    BY AbsentIsNoRow DEF EntryRow
  <2>1. c \in LoadedChange
    BY <2>0 DEF LoadedChange
  <2>2. ChangeOK(c)
    BY <1>1, <1>2, <2>0 DEF ChangeOK
  <2>3. change' = [change EXCEPT ![a] = c]
    BY <1>2 DEF Loaded
  <2> QED BY <1>0, <2>1, <2>2, <2>3, LoadStep
<1>3. ASSUME NEW b \in BOOLEAN,
             Loaded(a, e, ApplyPatch(row, [enabled |-> b]), row.version,
                    IF b THEN "enabled" ELSE "disabled")
      PROVE  CatalogInv'
  <2>1. PICK next : next = [row EXCEPT !.enabled = b]
    OBVIOUS
  <2>2. PICK d \in {"enabled", "disabled"} : d = IF b THEN "enabled" ELSE "disabled"
    OBVIOUS
  <2>3. next \in EntryRow /\ next.enabled = b
    BY <2>1 DEF EntryRow
  <2>4. ApplyPatch(row, [enabled |-> b]) = next
    BY <2>1, PatchedRow DEF EntryRow
  <2>5. Loaded(a, e, next, row.version, d)
    BY <1>3, <2>2, <2>4
  <2>6. (d = "enabled" => next.enabled = TRUE) /\ (d = "disabled" => next.enabled = FALSE)
    BY <2>2, <2>3
  <2> QED BY <1>2, <2>2, <2>3, <2>5, <2>6
<1>4. ASSUME NEW ed \in Editor, NEW image \in ImageRef,
             NEW patch \in {[editor |-> ed], [image |-> image]},
             Loaded(a, e, ApplyPatch(row, patch), row.version, "same")
      PROVE  CatalogInv'
  <2>1. PICK next : next = ApplyPatch(row, patch)
    OBVIOUS
  <2>2. next = [row EXCEPT !.editor = ed] \/ next = [row EXCEPT !.image = image]
    <3>1. /\ ApplyPatch(row, [editor |-> ed]) = [row EXCEPT !.editor = ed]
          /\ ApplyPatch(row, [image |-> image]) = [row EXCEPT !.image = image]
      <4>1. TRUE \in BOOLEAN
        OBVIOUS
      <4> QED BY <4>1, PatchedRow
    <3> QED BY <2>1, <3>1, Zenon
  <2>3. next \in EntryRow /\ next.enabled = row.enabled
    BY <2>2 DEF EntryRow
  <2> QED BY <1>2, <1>4, <2>1, <2>3
<1> QED BY <1>3, <1>4 DEF LoadForUpdate

LEMMA LoadForRemoveStep ==
  ASSUME CatalogInv, NEW a \in CatalogAdmin, NEW e \in Entry, LoadForRemove(a, e)
  PROVE  CatalogInv'
<1>1. catalog[e] \in EntryRow /\ decided[e] # "unused"
  BY DEF LoadForRemove, CatalogInv, CatalogTypes, EntryOK
<1> PICK c : c = [at |-> "loaded", entry |-> e, next |-> Absent, version |-> catalog[e].version,
                  decision |-> "removed"]
  OBVIOUS
<1>2. c \in LoadedChange
  BY <1>1 DEF LoadedChange, EntryRow
<1>3. ChangeOK(c)
  BY <1>1 DEF ChangeOK, EntryRow
<1> QED BY <1>2, <1>3, LoadStep DEF LoadForRemove, Loaded

\* A rollout computes its write from the index, which may be behind the table.
LEMMA LoadForRollStep ==
  ASSUME CatalogInv, NEW a \in CatalogAdmin, NEW repo \in Repo, NEW tag \in 1..MaxTag,
         LoadForRoll(a, repo, tag)
  PROVE  CatalogInv'
<1>0. UNCHANGED <<catalog, listing, decided, creation>>
  BY DEF LoadForRoll
<1>1. PICK e \in Entry :
        /\ listing[e] # Absent
        /\ Loaded(a, e, ApplyPatch(listing[e], [image |-> <<repo, tag>>]), listing[e].version, "same")
  BY DEF LoadForRoll, Rows
<1>2. /\ listing[e] \in EntryRow /\ catalog[e] \in EntryRow \cup {Absent}
      /\ decided[e] # "unused" /\ EntryOK(e)
  BY <1>1 DEF CatalogInv, CatalogTypes, EntryOK
<1> PICK row \in EntryRow : row = listing[e]
  BY <1>2
<1>3. <<repo, tag>> \in ImageRef
  BY CatalogAssumption DEF ImageRef
<1> PICK next : next = [row EXCEPT !.image = <<repo, tag>>]
  OBVIOUS
<1>4. ApplyPatch(row, [image |-> <<repo, tag>>]) = next
  BY <1>3, PatchedRow DEF Editor
<1>5. next \in EntryRow /\ next.enabled = row.enabled /\ next # Absent /\ row.version \in Nat
  BY <1>3, AbsentIsNoRow DEF EntryRow
<1> PICK c : c = [at |-> "loaded", entry |-> e, next |-> next, version |-> row.version,
                  decision |-> "same"]
  OBVIOUS
<1>6. c \in LoadedChange
  BY <1>5 DEF LoadedChange
<1>7. ChangeOK(c)
  <2>1. catalog[e] # Absent => /\ row.version <= catalog[e].version
                               /\ row.version = catalog[e].version => row = catalog[e]
    BY <1>1, <1>2 DEF EntryOK
  <2> QED BY <1>2, <1>5, <2>1 DEF ChangeOK
<1>8. change' = [change EXCEPT ![a] = c]
  BY <1>1, <1>4 DEF Loaded
<1> QED BY <1>0, <1>6, <1>7, <1>8, LoadStep

LEMMA RequestSteps ==
  ASSUME CatalogInv, NEW q \in Creation,
         \/ \E image \in ImageRef : BeginCreation(q, image)
         \/ AssertEnabled(q) \/ EditorForImage(q) \/ CheckRequest(q)
         \/ ReserveSession(q) \/ FinishCreation(q)
  PROVE  CatalogInv'
<1>0. CatalogTypes /\ CreationOK(creation[q]) /\ creation[q] \in OpenCreation \cup {NoCreation}
  BY DEF CatalogInv, CatalogTypes
<1> PICK r : r = creation[q]
  OBVIOUS
<1>n. CreationOK(NoCreation)
  BY DEF CreationOK
<1>o. ASSUME r.at # "none" PROVE r \in OpenCreation /\ CreationOK(r)
  BY <1>0, <1>o DEF NoCreation
<1>1. ASSUME NEW image \in ImageRef, BeginCreation(q, image) PROVE CatalogInv'
  <2> PICK b \in BOOLEAN : b = (Allowed(catalog, decided, image) \/ listing # catalog)
    OBVIOUS
  <2> PICK n : n = [at |-> "catalog", image |-> image, editor |-> DefaultEditor, allowed |-> b]
    OBVIOUS
  <2>1. n \in OpenCreation
    BY DEF OpenCreation, DefaultEditor, Editor
  <2>2. b = FALSE => listing = catalog /\ ~Allowed(catalog, decided, image)
    OBVIOUS
  <2>3. CreationOK(n)
    BY <2>2, AllowedRows DEF CreationOK
  <2>4. Go(q, n)
    BY <1>1 DEF BeginCreation
  <2> QED BY <2>1, <2>3, <2>4, GoStep
<1>2. CASE AssertEnabled(q)
  <2>1. CASE FindEnabledImage(r.image) = {}
    BY <1>2, <1>n, <2>1, GoStep DEF AssertEnabled
  <2>2. CASE FindEnabledImage(r.image) # {}
    <3> PICK n : n = [r EXCEPT !.at = "editor"]
      OBVIOUS
    <3>0. r \in OpenCreation /\ CreationOK(r)
      BY <1>2, <1>o DEF AssertEnabled
    <3>1. PICK e \in Entry : listing[e] # Absent /\ listing[e].enabled /\ listing[e].image = r.image
      BY <2>2 DEF FindEnabledImage, Rows
    <3>2. listing[e].enabled = TRUE
      BY <1>0, <3>1 DEF CatalogTypes, EntryRow
    <3>3. r.allowed = TRUE
      BY <3>0, <3>1, <3>2 DEF CreationOK, OpenCreation, NoCreation
    <3>4. n \in OpenCreation /\ n.allowed = TRUE
      BY <3>0, <3>3 DEF OpenCreation
    <3>5. Go(q, n)
      BY <1>2, <2>2 DEF AssertEnabled
    <3>6. CreationOK(n)
      BY <3>4 DEF CreationOK
    <3> QED BY <3>4, <3>5, <3>6, GoStep
  <2> QED BY <2>1, <2>2
<1>3. ASSUME NEW at \in {"checks", "reserve", "reserved"}, NEW ed \in Editor,
             r.at \in {"editor", "checks", "reserve"},
             Go(q, [r EXCEPT !.at = at, !.editor = ed])
      PROVE  CatalogInv'
  <2> PICK n : n = [r EXCEPT !.at = at, !.editor = ed]
    OBVIOUS
  <2>0. r \in OpenCreation /\ CreationOK(r)
    BY <1>3, <1>o
  <2>1. r.allowed = TRUE
    BY <1>3, <2>0 DEF CreationOK, OpenCreation, NoCreation
  <2>2. n \in OpenCreation /\ n.allowed = TRUE
    BY <2>0, <2>1 DEF OpenCreation
  <2>3. CreationOK(n)
    BY <2>2 DEF CreationOK
  <2> QED BY <1>3, <2>2, <2>3, GoStep
<1>4. CASE EditorForImage(q)
  <2>1. PICK ed \in Editor : Go(q, [r EXCEPT !.at = "checks", !.editor = ed])
    BY <1>0, <1>4 DEF EditorForImage, FindEnabledImage, Rows, CatalogTypes, EntryRow, Editor,
         DefaultEditor
  <2> QED BY <1>3, <1>4, <2>1 DEF EditorForImage
<1>5. ASSUME NEW at \in {"reserve", "reserved"}, r.at \in {"checks", "reserve"},
             Go(q, NoCreation) \/ Go(q, [r EXCEPT !.at = at])
      PROVE  CatalogInv'
  <2>1. CASE Go(q, NoCreation)
    BY <1>n, <2>1, GoStep
  <2>2. CASE Go(q, [r EXCEPT !.at = at])
    <3>1. r \in OpenCreation
      BY <1>5, <1>o
    <3>2. r.editor \in Editor /\ [r EXCEPT !.at = at] = [r EXCEPT !.at = at, !.editor = r.editor]
      BY <3>1 DEF OpenCreation
    <3> QED BY <1>3, <1>5, <2>2, <3>2
  <2> QED BY <1>5, <2>1, <2>2
<1>6. CASE CheckRequest(q)
  BY <1>5, <1>6 DEF CheckRequest
<1>7. CASE ReserveSession(q)
  BY <1>5, <1>7 DEF ReserveSession
<1>8. CASE FinishCreation(q)
  BY <1>8, <1>n, GoStep DEF FinishCreation
<1> QED BY <1>1, <1>2, <1>4, <1>6, <1>7, <1>8

LEMMA CatalogStep == CatalogInv /\ [CatalogNext]_catalogVars => CatalogInv'
<1>1. ASSUME CatalogInv, UNCHANGED catalogVars PROVE CatalogInv'
  BY <1>1 DEF CatalogInv, CatalogTypes, EntryOK, ChangeOK, CreationOK, catalogVars
<1>2. ASSUME CatalogInv, CatalogNext PROVE CatalogInv'
  BY <1>2, CreateEntryStep, ListingStep, LoadForUpdateStep, LoadForRemoveStep, LoadForRollStep,
     PersistStep, RequestSteps DEF CatalogNext
<1> QED BY <1>1, <1>2

\* For any number of entries, administrators, rollouts and create requests, no
\* session is reserved from an image withdrawn before its request came in and not
\* admitted again while it ran (catalog-service.ts, workspaces/route.ts).
THEOREM WithdrawnImagesStayOut == CatalogSpec => []WithdrawnStaysOut
<1>1. CatalogInv => WithdrawnStaysOut
  <2> SUFFICES ASSUME CatalogInv, NEW q \in Creation, creation[q].at = "reserved"
               PROVE  creation[q].allowed
    BY DEF WithdrawnStaysOut
  <2>1. creation[q] \in OpenCreation /\ CreationOK(creation[q]) /\ creation[q] # NoCreation
    BY DEF CatalogInv, CatalogTypes, NoCreation
  <2> QED BY <2>1 DEF CreationOK, OpenCreation
<1> QED BY CatalogInitial, CatalogStep, <1>1, PTL DEF CatalogSpec

-----------------------------------------------------------------------------
(* Scaling the control plane to zero *)

\* A stamp was lost, or is on its way.
Unsettling == lost = TRUE \/ \E r \in Replica : put[r] # None

\* Nothing of the kind, and the stored stamp is at most this old.
StampedWithin(age) == Unsettling \/ (stampAge # None /\ stampAge <= age)

\* While the throttle of a process holds back puts, its last put has been stored,
\* under a timestamp that another put may have overwritten with one a put's latency
\* older; and so the stored stamp follows what was served.
ScaleInv ==
  /\ put \in [Replica -> -1..PutLatency]
  /\ wroteAge \in [Replica -> -1..MinWrite]
  /\ stampAge \in -1..IdleThreshold
  /\ servedAge \in 0..IdleThreshold
  /\ lost \in BOOLEAN
  /\ sweep \in [at : {"waiting", "described", "scaling"}, age : Int]
  /\ \A r \in Replica :
       wroteAge[r] # None /\ wroteAge[r] < MinWrite => StampedWithin(wroteAge[r] + PutLatency)
  /\ servedAge < IdleThreshold - MinWrite - PutLatency =>
       StampedWithin(servedAge + MinWrite + PutLatency)

LEMMA ScaleNumbers ==
  /\ IdleThreshold \in Nat /\ MinWrite \in Nat /\ PutLatency \in Nat
  /\ SweepPeriod \in Nat /\ BootTime \in Nat /\ MinWrite + PutLatency < IdleThreshold
  BY ScaleAssumption

LEMMA ScaleInitial == ScaleInit => ScaleInv
<1> SUFFICES ASSUME ScaleInit PROVE ScaleInv
  OBVIOUS
<1>1. /\ put \in [Replica -> -1..PutLatency] /\ wroteAge \in [Replica -> -1..MinWrite]
      /\ \A r \in Replica : wroteAge[r] = None
  BY ScaleNumbers DEF ScaleInit, None
<1>2. /\ stampAge \in -1..IdleThreshold /\ servedAge \in 0..IdleThreshold
      /\ ~(servedAge < IdleThreshold - MinWrite - PutLatency)
  BY ScaleNumbers DEF ScaleInit, None
<1>3. lost \in BOOLEAN
  BY DEF ScaleInit
<1>4. sweep \in [at : {"waiting", "described", "scaling"}, age : Int]
  BY DEF ScaleInit
<1> QED BY <1>1, <1>2, <1>3, <1>4 DEF ScaleInv

\* A put that lands was sent a latency ago at most.
LEMMA LandStep ==
  ASSUME ScaleInv, NEW r \in Replica, RecordActivity(r)
  PROVE  ScaleInv'
<1>1. /\ put[r] \in 0..PutLatency /\ stampAge' = put[r] /\ put' = [put EXCEPT ![r] = None]
      /\ lost' = FALSE /\ UNCHANGED <<wroteAge, servedAge, sweep>>
  BY ScaleNumbers DEF RecordActivity, ScaleInv, None
<1>2. stampAge' \in -1..IdleThreshold
  BY <1>1, ScaleNumbers
<1>3. put' \in [Replica -> -1..PutLatency]
  BY <1>1, ScaleNumbers DEF ScaleInv, None
<1>4. \A age \in Nat : StampedWithin(age + PutLatency)'
  BY <1>1, ScaleNumbers DEF StampedWithin, None
<1>5. \A s \in Replica : wroteAge'[s] # None => wroteAge'[s] \in Nat
  BY <1>1 DEF ScaleInv, None
<1>6. servedAge' + MinWrite \in Nat
  BY <1>1, ScaleNumbers DEF ScaleInv
<1> QED BY <1>1, <1>2, <1>3, <1>4, <1>5, <1>6 DEF ScaleInv

\* A step that leaves something unsettled needs no stamp.
LEMMA UnsettledStep ==
  ASSUME ScaleInv, Unsettling', put' \in [Replica -> -1..PutLatency],
         wroteAge' \in [Replica -> -1..MinWrite], stampAge' = stampAge,
         servedAge' \in 0..IdleThreshold, lost' \in BOOLEAN,
         sweep' \in [at : {"waiting", "described", "scaling"}, age : Int]
  PROVE  ScaleInv'
  BY DEF ScaleInv, StampedWithin

LEMMA LoseStep ==
  ASSUME ScaleInv, NEW r \in Replica, RecordFails(r)
  PROVE  ScaleInv'
<1>1. Unsettling' /\ UNCHANGED <<wroteAge, stampAge, servedAge, sweep>> /\ lost' = TRUE
  BY DEF RecordFails, Unsettling
<1>2. put' \in [Replica -> -1..PutLatency]
  BY ScaleNumbers DEF RecordFails, ScaleInv, None
<1> QED BY <1>1, <1>2, UnsettledStep DEF ScaleInv

\* A boot or a request, with the stamp it may send.
LEMMA StampStep ==
  ASSUME ScaleInv, NEW r \in Replica, RecordSystemActivity(r),
         UNCHANGED <<stampAge, lost, sweep>>, servedAge' \in {servedAge, 0}
  PROVE  ScaleInv'
<1>0. servedAge' \in 0..IdleThreshold
  BY ScaleNumbers DEF ScaleInv
<1>1. CASE ShouldRecordActivity(r)
  <2>1. wroteAge' = [wroteAge EXCEPT ![r] = 0] /\ put' = [put EXCEPT ![r] = 0]
    BY <1>1 DEF RecordSystemActivity
  <2>2. /\ put' \in [Replica -> -1..PutLatency] /\ wroteAge' \in [Replica -> -1..MinWrite]
        /\ put'[r] # None
    BY <2>1, ScaleNumbers DEF ScaleInv, None
  <2>3. Unsettling'
    BY <2>2 DEF Unsettling, None
  <2> QED BY <1>0, <2>2, <2>3, UnsettledStep DEF ScaleInv
<1>2. CASE ~ShouldRecordActivity(r)
  <2>1. UNCHANGED <<wroteAge, put>> /\ wroteAge[r] # None /\ wroteAge[r] < MinWrite
    BY <1>2, ScaleNumbers DEF RecordSystemActivity, ShouldRecordActivity, ScaleInv
  <2>2. StampedWithin(wroteAge[r] + PutLatency)
    BY <2>1 DEF ScaleInv
  <2>3. wroteAge[r] \in -1..MinWrite /\ stampAge \in -1..IdleThreshold
    BY DEF ScaleInv
  <2>4. StampedWithin(0 + MinWrite + PutLatency)
    BY <2>1, <2>2, <2>3, ScaleNumbers DEF StampedWithin, None
  <2>5. servedAge' < IdleThreshold - MinWrite - PutLatency =>
          StampedWithin(servedAge' + MinWrite + PutLatency)
    BY <2>4 DEF ScaleInv
  <2> QED BY <1>0, <2>1, <2>5 DEF ScaleInv, StampedWithin, Unsettling, None
<1> QED BY <1>1, <1>2

\* A step that touches neither stamps nor ages.
LEMMA ElsewhereStep ==
  ASSUME ScaleInv, UNCHANGED <<wroteAge, put, stampAge, servedAge, lost>>,
         sweep' \in [at : {"waiting", "described", "scaling"}, age : Int]
  PROVE  ScaleInv'
  BY DEF ScaleInv, StampedWithin, Unsettling

LEMMA SweepStepKeeps ==
  ASSUME ScaleInv, DescribeService \/ ReadLastActivity \/ SweepFails
  PROVE  ScaleInv'
<1>1. UNCHANGED <<wroteAge, put, stampAge, servedAge, lost>>
  BY DEF DescribeService, ReadLastActivity, SweepFails
<1>2. sweep' \in [at : {"waiting", "described", "scaling"}, age : Int]
  BY DEF DescribeService, ReadLastActivity, SweepFails, ScaleInv
<1> QED BY <1>1, <1>2, ElsewhereStep

LEMMA ZeroStep ==
  ASSUME ScaleInv, ScaleToZero
  PROVE  ScaleInv'
<1>1. /\ put' \in [Replica -> -1..PutLatency] /\ wroteAge' \in [Replica -> -1..MinWrite]
      /\ \A r \in Replica : wroteAge'[r] = None /\ put'[r] = None
  BY ScaleNumbers DEF ScaleToZero, None
<1>2. UNCHANGED <<stampAge, servedAge>> /\ lost' \in BOOLEAN
  BY DEF ScaleToZero
<1>3. sweep' \in [at : {"waiting", "described", "scaling"}, age : Int]
  BY DEF ScaleToZero
<1>4. Unsettling => lost' = TRUE
  BY DEF ScaleToZero, Unsettling, ScaleInv
<1>5. \A age \in Int : StampedWithin(age) => StampedWithin(age)'
  BY <1>2, <1>4 DEF StampedWithin, Unsettling
<1>6. servedAge \in Int /\ servedAge + MinWrite + PutLatency \in Int
  BY ScaleNumbers DEF ScaleInv
<1> QED BY <1>1, <1>2, <1>3, <1>5, <1>6 DEF ScaleInv

LEMMA OlderAge ==
  ASSUME NEW cap \in Nat, NEW age \in -1..cap
  PROVE  /\ Older(age, cap) \in -1..cap /\ Older(age, cap) <= age + 1
         /\ Older(age, cap) = None <=> age = None
         /\ age # None /\ Older(age, cap) < cap => Older(age, cap) = age + 1 /\ age < cap
  BY DEF Older, None

LEMMA TimeStep ==
  ASSUME ScaleInv, TimePasses
  PROVE  ScaleInv'
<1>1. /\ put' = [r \in Replica |-> Older(put[r], PutLatency)]
      /\ wroteAge' = [r \in Replica |-> Older(wroteAge[r], MinWrite)]
      /\ stampAge' = Older(stampAge, IdleThreshold)
      /\ servedAge' = Older(servedAge, IdleThreshold)
      /\ lost' = lost
  BY DEF TimePasses
<1>2. /\ put' \in [Replica -> -1..PutLatency]
      /\ \A r \in Replica : put'[r] = None <=> put[r] = None
  BY <1>1, ScaleNumbers, OlderAge DEF ScaleInv
<1>3. /\ wroteAge' \in [Replica -> -1..MinWrite]
      /\ \A r \in Replica : wroteAge'[r] # None /\ wroteAge'[r] < MinWrite =>
           wroteAge'[r] = wroteAge[r] + 1 /\ wroteAge[r] # None /\ wroteAge[r] < MinWrite
  BY <1>1, ScaleNumbers, OlderAge DEF ScaleInv
<1>4. /\ stampAge' \in -1..IdleThreshold /\ stampAge \in -1..IdleThreshold
      /\ stampAge' <= stampAge + 1 /\ (stampAge' = None <=> stampAge = None)
  BY <1>1, ScaleNumbers, OlderAge DEF ScaleInv
<1>5. /\ servedAge' \in 0..IdleThreshold
      /\ servedAge' < IdleThreshold => servedAge' = servedAge + 1
  BY <1>1, ScaleNumbers DEF ScaleInv, Older, None
<1>6. ASSUME NEW age \in Int, StampedWithin(age) PROVE StampedWithin(age + 1)'
  BY <1>1, <1>2, <1>4, <1>6 DEF StampedWithin, Unsettling, None
<1>7. ASSUME NEW r \in Replica, wroteAge'[r] # None, wroteAge'[r] < MinWrite
      PROVE  StampedWithin(wroteAge[r] + PutLatency)'
  <2>1. /\ wroteAge'[r] = wroteAge[r] + 1 /\ wroteAge[r] \in Int
        /\ StampedWithin(wroteAge[r] + PutLatency)
    BY <1>3, <1>7 DEF ScaleInv
  <2>2. wroteAge'[r] + PutLatency = (wroteAge[r] + PutLatency) + 1 /\ wroteAge[r] + PutLatency \in Int
    BY <2>1, ScaleNumbers
  <2> PICK age \in Int : age = wroteAge[r] + PutLatency
    BY <2>2
  <2>3. StampedWithin(age + 1)'
    BY <1>6, <2>1
  <2> QED BY <2>2, <2>3 DEF StampedWithin
<1>8. ASSUME servedAge' < IdleThreshold - MinWrite - PutLatency
      PROVE  StampedWithin(servedAge + MinWrite + PutLatency)'
  <2>0. servedAge \in Int /\ servedAge' \in Int
    BY <1>5 DEF ScaleInv
  <2>1. servedAge' = servedAge + 1 /\ servedAge < IdleThreshold - MinWrite - PutLatency
    BY <1>5, <1>8, <2>0, ScaleNumbers
  <2> PICK age \in Int : age = servedAge + MinWrite + PutLatency
    BY <2>0, ScaleNumbers
  <2>2. StampedWithin(age)
    BY <2>1 DEF ScaleInv
  <2>3. StampedWithin(age + 1)'
    BY <1>6, <2>2
  <2>4. servedAge' + MinWrite + PutLatency = age + 1
    BY <2>0, <2>1, ScaleNumbers
  <2> QED BY <2>3, <2>4 DEF StampedWithin
<1>9. lost' \in BOOLEAN /\ sweep' \in [at : {"waiting", "described", "scaling"}, age : Int]
  BY ScaleNumbers DEF TimePasses, ScaleInv, Older, None
<1> QED BY <1>2, <1>3, <1>4, <1>5, <1>7, <1>8, <1>9 DEF ScaleInv

LEMMA ScaleStep == ScaleInv /\ [ScaleNext]_scaleVars => ScaleInv'
<1> SUFFICES ASSUME ScaleInv, [ScaleNext]_scaleVars PROVE ScaleInv'
  OBVIOUS
<1>1. ASSUME NEW r \in Replica, Boot(r) \/ Serve(r) PROVE ScaleInv'
  BY <1>1, StampStep DEF Boot, Serve
<1>2. ASSUME UNCHANGED <<wroteAge, put, stampAge, servedAge, lost, sweep>> PROVE ScaleInv'
  BY <1>2, ElsewhereStep DEF ScaleInv
<1>3. ASSUME NEW i \in Invocation,
             HandleWake(i) \/ DecideWake(i) \/ SetDesiredCount(i) \/ WakeFails(i)
      PROVE  ScaleInv'
  BY <1>2, <1>3 DEF HandleWake, DecideWake, SetDesiredCount, WakeFails
<1>4. CASE Arrive \/ UNCHANGED scaleVars
  BY <1>2, <1>4 DEF Arrive, scaleVars
<1> QED BY <1>1, <1>3, <1>4, LandStep, LoseStep, SweepStepKeeps, ZeroStep, TimeStep DEF ScaleNext

\* Only the read of the last activity decides to scale.
LEMMA OnlyReadDecides ==
  ASSUME ScaleInv, [ScaleNext]_scaleVars, sweep' # sweep, sweep'.at = "scaling"
  PROVE  IdleLongEnough(stampAge)
<1>1. CASE ReadLastActivity
  BY <1>1 DEF ReadLastActivity
<1>2. CASE DescribeService \/ ScaleToZero \/ SweepFails
  BY <1>2 DEF DescribeService, ScaleToZero, SweepFails, ScaleInv
<1>3. CASE TimePasses
  BY <1>3 DEF TimePasses, ScaleInv
<1> QED BY <1>1, <1>2, <1>3 DEF ScaleNext, scaleVars, RecordActivity, RecordFails, Boot, Serve,
      HandleWake, DecideWake, SetDesiredCount, WakeFails, Arrive

\* For any number of replicas and any thresholds that leave room for the throttle
\* and the latency of a put: a sweep decides to scale the control plane to zero
\* only when nobody was served for long, or a stamp was lost or is on its way
\* (recordSystemActivity, decideControlPlaneIdle).
THEOREM IdleShutdownIsJustified == ScaleSpec => IdleShutdownJustified
<1>1. ASSUME ScaleInv, [ScaleNext]_scaleVars, sweep' # sweep, sweep'.at = "scaling"
      PROVE  \/ lost \/ \E r \in Replica : put[r] # None
             \/ servedAge >= IdleThreshold - MinWrite - PutLatency
  <2>1. stampAge # None /\ stampAge >= IdleThreshold
    BY <1>1, OnlyReadDecides DEF IdleLongEnough
  <2>2. servedAge \in Int /\ stampAge \in Int
    BY <1>1 DEF ScaleInv
  <2>3. ASSUME servedAge < IdleThreshold - MinWrite - PutLatency PROVE Unsettling
    <3>1. StampedWithin(servedAge + MinWrite + PutLatency)
      BY <1>1, <2>3 DEF ScaleInv
    <3>2. ~(stampAge <= servedAge + MinWrite + PutLatency)
      BY <2>1, <2>2, <2>3, ScaleNumbers
    <3> QED BY <3>1, <3>2 DEF StampedWithin
  <2>4. Unsettling => lost \/ \E r \in Replica : put[r] # None
    BY DEF Unsettling
  <2>5. Unsettling \/ servedAge >= IdleThreshold - MinWrite - PutLatency
    BY <2>2, <2>3, ScaleNumbers
  <2> QED BY <2>4, <2>5
<1>2. ScaleInv /\ [ScaleNext]_scaleVars =>
        [sweep'.at = "scaling" =>
           \/ lost \/ \E r \in Replica : put[r] # None
           \/ servedAge >= IdleThreshold - MinWrite - PutLatency]_sweep
  BY <1>1
<1> QED BY ScaleInitial, ScaleStep, <1>2, PTL DEF ScaleSpec, IdleShutdownJustified

-----------------------------------------------------------------------------
(* The maintenance round *)

FleetRec == [state : FleetState, bound : BOOLEAN, snap : BOOLEAN]
RoundRec == [at : SweepStep, todo : SUBSET Fleet, refs : SUBSET Resource,
             freed : SUBSET Resource]

ReapedKind == {"task", "secret", "volume", "copy"}
ReapSteps == {"tasks", "secrets", "volumes", "copies", "done"}
StepOf(k) == CASE k = "task" -> "tasks" [] k = "secret" -> "secrets"
               [] k = "volume" -> "volumes" [] k = "copy" -> "copies"
\* The steps that come after the one that reaps a kind.
After(k) == CASE k = "task" -> {"secrets", "volumes", "copies", "done"}
              [] k = "secret" -> {"volumes", "copies", "done"}
              [] k = "volume" -> {"copies", "done"} [] k = "copy" -> {"done"}

\* Unreferenced, as this round has read the references, and past the grace.
Orphan(w, k) == <<w, k>> \in exists \ young /\ <<w, k>> \notin round.refs

\* An orphan is on the list while its kind is being reaped, and none is left
\* afterwards; what the round keeps is still named.
ReapInv ==
  /\ fleet \in [Fleet -> FleetRec]
  /\ round \in RoundRec
  /\ throws \in Nat
  /\ round.at \in {"references", "done", "off"} => round.todo = {}
  /\ round.at \in ReapSteps \cup {"references"} => round.refs \subseteq Named(fleet)
  /\ \A k \in ReapedKind, w \in Fleet \ Poison :
       throws = 0 /\ Orphan(w, k) => /\ round.at = StepOf(k) => w \in round.todo
                                     /\ round.at \notin After(k)

LEMMA StepsOfKinds ==
  ASSUME NEW k \in ReapedKind
  PROVE  /\ StepOf(k) \in ReapSteps \ {"done"} /\ After(k) \subseteq ReapSteps
         /\ StepOf(k) = "tasks" => k = "task" /\ After(k) = ReapSteps \ {"tasks"}
         /\ StepOf(k) = "secrets" => k = "secret"
         /\ StepOf(k) = "volumes" => k = "volume"
         /\ StepOf(k) = "copies" => k = "copy"
  BY DEF ReapedKind, StepOf, After, ReapSteps

LEMMA OrderOfSteps ==
  ASSUME NEW at \in SweepStep
  PROVE  /\ NextStep[at] \in SweepStep
         /\ NextStep[at] = "tasks" <=> at = "references"
         /\ NextStep[at] = "secrets" <=> at = "tasks"
         /\ NextStep[at] = "volumes" <=> at = "secrets"
         /\ NextStep[at] = "copies" <=> at = "volumes"
         /\ NextStep[at] = "done" <=> at = "copies"
         /\ NextStep[at] = "off" <=> at = "done"
  BY DEF NextStep, SweepStep

\* The step that follows lies after a kind's only from that kind's own step on.
LEMMA OrderOfReaping ==
  ASSUME NEW at \in SweepStep, NEW k \in ReapedKind, NextStep[at] \in After(k)
  PROVE  at = StepOf(k) \/ at \in After(k)
  BY OrderOfSteps DEF ReapedKind, StepOf, After

LEMMA NamedMember ==
  ASSUME NEW fl \in [Fleet -> FleetRec]
  PROVE  /\ Named(fl) \subseteq Resource
         /\ \A w \in Fleet, k \in Kind :
              <<w, k>> \in Named(fl) <=>
                \/ fl[w].bound = TRUE /\ k \in {"task", "volume", "secret"}
                \/ fl[w].snap = TRUE /\ k = "snapshot"
<1>1. ASSUME NEW w \in Fleet
      PROVE  /\ NamesOf(fl[w], w) \subseteq Resource
             /\ \A r \in NamesOf(fl[w], w) : r[1] = w
             /\ \A k \in Kind : <<w, k>> \in NamesOf(fl[w], w) <=>
                  \/ fl[w].bound = TRUE /\ k \in {"task", "volume", "secret"}
                  \/ fl[w].snap = TRUE /\ k = "snapshot"
  <2>1. fl[w].bound \in BOOLEAN /\ fl[w].snap \in BOOLEAN
    BY DEF FleetRec
  <2> QED BY <2>1 DEF NamesOf, Resource, Kind
<1>2. Named(fl) \subseteq Resource
  <2> SUFFICES ASSUME NEW r \in Named(fl) PROVE r \in Resource
    OBVIOUS
  <2>1. PICK w \in Fleet : r \in NamesOf(fl[w], w)
    BY DEF Named
  <2> QED BY <1>1, <2>1
<1>3. ASSUME NEW w \in Fleet, NEW k \in Kind
      PROVE  <<w, k>> \in Named(fl) <=> <<w, k>> \in NamesOf(fl[w], w)
  <2>1. ASSUME NEW v \in Fleet, <<w, k>> \in NamesOf(fl[v], v) PROVE v = w
    BY <1>1, <2>1
  <2> QED BY <2>1 DEF Named
<1> QED BY <1>1, <1>2, <1>3

\* Records that name no less keep what they named.
LEMMA NamedGrows ==
  ASSUME NEW f \in [Fleet -> FleetRec], NEW g \in [Fleet -> FleetRec],
         \A w \in Fleet : /\ f[w].bound = TRUE => g[w].bound = TRUE
                          /\ f[w].snap = TRUE => g[w].snap = TRUE
  PROVE  Named(f) \subseteq Named(g)
<1> SUFFICES ASSUME NEW r \in Named(f) PROVE r \in Named(g)
  OBVIOUS
<1>1. r \in Resource
  BY NamedMember
<1>2. PICK w \in Fleet, k \in Kind : r = <<w, k>>
  BY <1>1 DEF Resource
<1> QED BY <1>2, NamedMember

LEMMA ReapInitial == SweepInit => ReapInv
<1> SUFFICES ASSUME SweepInit PROVE ReapInv
  OBVIOUS
<1>1. fleet \in [Fleet -> FleetRec] /\ round \in RoundRec /\ throws = 0
  BY DEF SweepInit, FleetRec, FleetState, RoundRec, SweepStep
<1>2. round.at = "off" /\ round.todo = {}
  BY DEF SweepInit
<1>3. \A k \in ReapedKind : round.at # StepOf(k) /\ round.at \notin After(k)
  BY <1>2, StepsOfKinds DEF ReapSteps
<1> QED BY <1>1, <1>2, <1>3 DEF ReapInv, ReapSteps

\* A step beside the round: what it creates is young, and no record names less.
LEMMA BesideStep ==
  ASSUME ReapInv, round' = round, throws' = throws, fleet' \in [Fleet -> FleetRec],
         exists' \ young' \subseteq exists \ young,
         \A w \in Fleet : /\ fleet[w].bound = TRUE => fleet'[w].bound = TRUE
                          /\ fleet[w].snap = TRUE => fleet'[w].snap = TRUE
  PROVE  ReapInv'
<1>1. Named(fleet) \subseteq Named(fleet')
  BY NamedGrows DEF ReapInv
<1>2. \A w \in Fleet, k \in ReapedKind : Orphan(w, k)' => Orphan(w, k)
  BY DEF Orphan
<1> QED BY <1>1, <1>2 DEF ReapInv

LEMMA FleetStep ==
  ASSUME ReapInv, NEW w \in Fleet, UserActs(w) \/ WakeStep(w) \/ PlatformActs(w)
  PROVE  ReapInv'
<1>0. fleet \in [Fleet -> FleetRec]
  BY DEF ReapInv
<1>1. ASSUME NEW n \in FleetRec, NEW ex, NEW yo, ex \ yo \subseteq exists \ young,
             fleet[w].bound = TRUE => n.bound = TRUE, fleet[w].snap = TRUE => n.snap = TRUE,
             Becomes(w, n, ex, yo)
      PROVE  ReapInv'
  <2>1. /\ fleet' = [fleet EXCEPT ![w] = n] /\ exists' = ex /\ young' = yo
        /\ UNCHANGED <<round, throws>>
    BY <1>1 DEF Becomes
  <2> QED BY <1>0, <1>1, <2>1, BesideStep
<1>2. ASSUME NEW s \in FleetState, NEW b \in BOOLEAN, fleet[w].bound = TRUE => b = TRUE,
             NEW ex, NEW yo, ex \ yo \subseteq exists \ young,
             Becomes(w, [fleet[w] EXCEPT !.state = s, !.bound = b], ex, yo)
      PROVE  ReapInv'
  <2> PICK n : n = [fleet[w] EXCEPT !.state = s, !.bound = b]
    OBVIOUS
  <2>1. n \in FleetRec /\ n.bound = b /\ n.snap = fleet[w].snap
    BY <1>0 DEF FleetRec
  <2> QED BY <1>1, <1>2, <2>1
<1>3. ASSUME NEW s \in FleetState,
             Becomes(w, [fleet[w] EXCEPT !.state = s], exists, young)
      PROVE  ReapInv'
  <2>1. /\ fleet[w].bound \in BOOLEAN
        /\ [fleet[w] EXCEPT !.state = s] = [fleet[w] EXCEPT !.state = s, !.bound = fleet[w].bound]
    BY <1>0 DEF FleetRec
  <2> QED BY <1>2, <1>3, <2>1
<1>4. ASSUME NEW ex, NEW yo, ex \ yo \subseteq exists \ young, Becomes(w, fleet[w], ex, yo)
      PROVE  ReapInv'
  BY <1>0, <1>1, <1>4
<1>5. CASE UserActs(w)
  BY <1>3, <1>5 DEF UserActs, Outside, Follows, FleetState
<1>6. CASE WakeStep(w)
  <2>1. ASSUME NEW new, Becomes(w, fleet[w], exists \cup new, young \cup new) PROVE ReapInv'
    BY <1>4, <2>1
  <2>2. CASE Becomes(w, [fleet[w] EXCEPT !.state = "provisioning"], exists, young)
    BY <1>3, <2>2 DEF FleetState
  <2>3. CASE Becomes(w, [fleet[w] EXCEPT !.state = "running", !.bound = TRUE], exists, young)
    BY <1>2, <2>3 DEF FleetState
  <2> QED BY <1>6, <2>1, <2>2, <2>3 DEF WakeStep, Outside, Follows
<1>7. CASE PlatformActs(w)
  BY <1>4, <1>7 DEF PlatformActs, Outside, Follows
<1> QED BY <1>5, <1>6, <1>7

\* Reading a step's list: the reapers' lists hold every orphan of their kind.
LEMMA EnterKeeps ==
  ASSUME ReapInv, EnterStep
  PROVE  ReapInv'
<1>0. fleet \in [Fleet -> FleetRec] /\ round \in RoundRec /\ round.at \in SweepStep
  BY DEF ReapInv, RoundRec
<1> PICK at : at = NextStep[round.at]
  OBVIOUS
<1>1. PICK todo \in Lists(at) :
        round' = [round EXCEPT !.at = at, !.todo = todo,
                    !.refs = IF at = "off" THEN {} ELSE ListFleetReferences(at),
                    !.freed = IF at = "off" THEN {} ELSE @]
  BY DEF EnterStep
<1>2. at \in SweepStep
  BY <1>0, OrderOfSteps
<1>3. todo \subseteq Fleet
  BY <1>2 DEF Lists, SweepStep, InState, FirstOf, SelectOrphans, Listed
<1>4. at \in {"references", "done", "off"} => todo = {}
  BY <1>1 DEF Lists
<1> PICK refs : refs = IF at = "off" THEN {} ELSE ListFleetReferences(at)
  OBVIOUS
<1>5. refs \subseteq Resource
  BY <1>0, NamedMember DEF ListFleetReferences, RoundRec
<1>6. /\ round' \in RoundRec /\ round'.at = at /\ round'.todo = todo /\ round'.refs = refs
  <2> PICK freed : freed = IF at = "off" THEN {} ELSE round.freed
    OBVIOUS
  <2>1. round' = [round EXCEPT !.at = at, !.todo = todo, !.refs = refs, !.freed = freed]
    BY <1>1
  <2>2. freed \subseteq Resource
    BY <1>0 DEF RoundRec
  <2> QED BY <1>0, <1>2, <1>3, <1>5, <2>1, <2>2 DEF RoundRec
<1>7. UNCHANGED <<fleet, exists, young, throws>> /\ round.todo = {}
  BY DEF EnterStep
<1>8. at \in ReapSteps => refs = round.refs /\ round.at \in ReapSteps \cup {"references"}
  BY <1>0, OrderOfSteps DEF ListFleetReferences, ReapSteps
<1>9. at \in ReapSteps \cup {"references"} => refs \subseteq Named(fleet)
  <2>1. CASE at = "references"
    BY <2>1 DEF ListFleetReferences
  <2>2. CASE at \in ReapSteps
    BY <1>8, <2>2 DEF ReapInv
  <2> QED BY <2>1, <2>2
<1>10. ASSUME NEW k \in ReapedKind, NEW w \in Fleet \ Poison, throws = 0, Orphan(w, k)'
       PROVE  /\ at = StepOf(k) => w \in todo
              /\ at \notin After(k)
  <2>1. ASSUME at \in ReapSteps PROVE Orphan(w, k)
    BY <1>6, <1>7, <1>8, <1>10, <2>1 DEF Orphan
  <2>2. ASSUME at = StepOf(k) PROVE w \in todo
    <3>1. Lists(at) = {SelectOrphans(k)}
      BY <2>2, StepsOfKinds DEF Lists, StepOf, ReapedKind
    <3>2. Orphan(w, k)
      BY <2>1, <2>2, StepsOfKinds
    <3> QED BY <1>1, <3>1, <3>2 DEF SelectOrphans, Listed, Orphan
  <2>3. ASSUME at \in After(k) PROVE FALSE
    <3>1. Orphan(w, k)
      BY <2>1, <2>3, StepsOfKinds
    <3>2. round.at = StepOf(k) \/ round.at \in After(k)
      BY <1>0, <2>3, OrderOfReaping
    <3> QED BY <1>7, <1>10, <3>1, <3>2 DEF ReapInv
  <2> QED BY <2>2, <2>3
<1> QED BY <1>0, <1>4, <1>6, <1>7, <1>9, <1>10 DEF ReapInv

\* What an operation leaves of a record is a record again.
LEMMA RecordsStay ==
  ASSUME ReapInv, NEW w \in Fleet, round.at \notin {"references", "done", "off"},
         NEW out \in Outcomes(w)
  PROVE  out.rec \in FleetRec
<1>0. fleet[w] \in FleetRec /\ round.at \in SweepStep
  BY DEF ReapInv, RoundRec
<1>r. ASSUME NEW s \in {"stopped", "error", "terminated", "gone"}, NEW b \in BOOLEAN
      PROVE  /\ [state |-> s, bound |-> FALSE, snap |-> b] \in FleetRec
             /\ [fleet[w] EXCEPT !.state = s] \in FleetRec
             /\ [fleet[w] EXCEPT !.state = s, !.bound = FALSE] \in FleetRec
             /\ [fleet[w] EXCEPT !.bound = FALSE, !.state = s] \in FleetRec
             /\ [fleet[w] EXCEPT !.snap = TRUE] \in FleetRec
  BY <1>0 DEF FleetRec, FleetState
<1>w. Same(w).rec = fleet[w] /\ \A r, ex : With(w, r, ex).rec = r
  BY DEF Same, With
<1>1. CASE round.at = "provisioning"
  BY <1>0, <1>1 DEF Outcomes, RecoverStuckProvisioning, With, Same, FleetRec, FleetState
<1>2. CASE round.at = "drift"
  <2>1. out \in ReconcileTaskLoss(w)
    BY <1>2 DEF Outcomes
  <2>2. \/ out = Same(w)
        \/ \E ex : out = With(w, [fleet[w] EXCEPT !.bound = FALSE, !.state = "stopped"], ex)
        \/ \E ex : out = With(w, [fleet[w] EXCEPT !.bound = FALSE, !.state = "error"], ex)
    BY <2>1 DEF ReconcileTaskLoss
  <2>3. /\ [fleet[w] EXCEPT !.bound = FALSE, !.state = "stopped"] \in FleetRec
        /\ [fleet[w] EXCEPT !.bound = FALSE, !.state = "error"] \in FleetRec
    BY <1>0, <1>r
  <2> QED BY <1>0, <1>w, <2>2, <2>3
<1>3. CASE round.at = "storageDrift"
  <2>1. out \in MarkSnapshotLostFor(w)
    BY <1>3 DEF Outcomes
  <2>2. \/ out = Same(w)
        \/ \E ex : out = With(w, [state |-> "error", bound |-> FALSE, snap |-> FALSE], ex)
    BY <2>1 DEF MarkSnapshotLostFor
  <2>3. /\ [state |-> "error", bound |-> FALSE, snap |-> FALSE] \in FleetRec
    BY <1>0, <1>r
  <2> QED BY <1>0, <1>w, <2>2, <2>3
<1>4. CASE round.at = "errors"
  BY <1>0, <1>4 DEF Outcomes, RecoverError, With, Same, FleetRec, FleetState
<1>5. CASE round.at = "deletions"
  <2>1. out \in FinishDeleting(w)
    BY <1>5 DEF Outcomes
  <2>2. \/ out = Same(w)
        \/ \E ex : out = With(w, [fleet[w] EXCEPT !.state = "terminated"], ex)
        \/ \E ex : out = With(w, [state |-> "terminated", bound |-> FALSE, snap |-> TRUE], ex)
    BY <2>1 DEF FinishDeleting
  <2>3. /\ [fleet[w] EXCEPT !.state = "terminated"] \in FleetRec
        /\ [state |-> "terminated", bound |-> FALSE, snap |-> TRUE] \in FleetRec
    BY <1>0, <1>r
  <2> QED BY <1>0, <1>w, <2>2, <2>3
<1>6. CASE round.at = "stopping"
  <2>1. out \in FinishStop(w)
    BY <1>6 DEF Outcomes
  <2>2. \/ out = Same(w)
        \/ \E ex : out = With(w, [fleet[w] EXCEPT !.state = "stopped", !.bound = FALSE], ex)
        \/ \E ex : out = With(w, [state |-> "stopped", bound |-> FALSE, snap |-> TRUE], ex)
    BY <2>1 DEF FinishStop
  <2>3. /\ [fleet[w] EXCEPT !.state = "stopped", !.bound = FALSE] \in FleetRec
        /\ [state |-> "stopped", bound |-> FALSE, snap |-> TRUE] \in FleetRec
    BY <1>0, <1>r
  <2> QED BY <1>0, <1>w, <2>2, <2>3
<1>7. CASE round.at = "purge"
  <2>1. out \in PurgeTombstoneRecord(w)
    BY <1>7 DEF Outcomes
  <2>2. \/ out = Same(w)
        \/ \E ex : out = With(w, [state |-> "gone", bound |-> FALSE, snap |-> FALSE], ex)
    BY <2>1 DEF PurgeTombstoneRecord
  <2>3. /\ [state |-> "gone", bound |-> FALSE, snap |-> FALSE] \in FleetRec
    BY <1>0, <1>r
  <2> QED BY <1>0, <1>w, <2>2, <2>3
<1>8. CASE round.at = "idle"
  <2>1. out \in StopIdle(w)
    BY <1>8 DEF Outcomes
  <2>2. \/ out = Same(w)
        \/ \E ex : out = With(w, [state |-> "stopped", bound |-> FALSE, snap |-> TRUE], ex)
    BY <2>1 DEF StopIdle
  <2>3. /\ [state |-> "stopped", bound |-> FALSE, snap |-> TRUE] \in FleetRec
    BY <1>0, <1>r
  <2> QED BY <1>0, <1>w, <2>2, <2>3
<1>9. CASE round.at = "snapshots"
  <2>1. out \in TakeSnapshot(w)
    BY <1>9 DEF Outcomes
  <2>2. \/ out = Same(w)
        \/ \E ex : out = With(w, [fleet[w] EXCEPT !.snap = TRUE], ex)
    BY <2>1 DEF TakeSnapshot
  <2>3. /\ [fleet[w] EXCEPT !.snap = TRUE] \in FleetRec
    BY <1>0, <1>r
  <2> QED BY <1>0, <1>w, <2>2, <2>3
<1>10. CASE round.at \in {"tasks", "secrets", "volumes", "copies"}
  BY <1>0, <1>10 DEF Outcomes, Reap, With
<1> QED BY <1>0, <1>1, <1>2, <1>3, <1>4, <1>5, <1>6, <1>7, <1>8, <1>9, <1>10 DEF SweepStep

\* A reaper deletes the resource and leaves the record.
LEMMA ReapersDelete ==
  ASSUME NEW k \in ReapedKind, round.at = StepOf(k), NEW w, NEW out \in Outcomes(w)
  PROVE  out.rec = fleet[w] /\ <<w, k>> \notin out.exists
<1>1. Outcomes(w) = Reap(w, k)
  BY DEF Outcomes, StepOf, ReapedKind
<1> QED BY <1>1 DEF Reap, With, Released

LEMMA HandleKeeps ==
  ASSUME ReapInv, HandleOne
  PROVE  ReapInv'
<1>0. /\ fleet \in [Fleet -> FleetRec] /\ round \in RoundRec /\ throws' = throws
      /\ round.at \in SweepStep /\ round.at \notin {"references", "done", "off"}
  BY DEF ReapInv, HandleOne, RoundRec
<1> PICK w : w = Min(round.todo)
  OBVIOUS
<1>1. PICK out \in Outcomes(w) :
        /\ fleet' = [fleet EXCEPT ![w] = out.rec] /\ exists' = out.exists
        /\ round' = [round EXCEPT !.todo = @ \ {w},
                       !.freed = @ \cup (Named(fleet) \ Named(fleet'))]
        /\ young' = (young \cap out.exists) \cup (out.exists \ exists)
  BY DEF HandleOne
<1>2. fleet' = [fleet EXCEPT ![w] = out.rec] /\ fleet' \in [Fleet -> FleetRec]
  BY <1>0, <1>1, RecordsStay
<1>3. /\ round' \in RoundRec /\ round'.at = round.at /\ round'.refs = round.refs
      /\ round'.todo = round.todo \ {w}
  <2> PICK gone : gone = Named(fleet) \ Named(fleet')
    OBVIOUS
  <2>1. gone \subseteq Resource
    BY <1>0, NamedMember
  <2>2. round' = [round EXCEPT !.todo = @ \ {w}, !.freed = @ \cup gone]
    BY <1>1
  <2> QED BY <1>0, <2>1, <2>2 DEF RoundRec
<1>4. \A v, k : Orphan(v, k)' => Orphan(v, k)
  BY <1>1, <1>3 DEF Orphan
<1>5. ASSUME NEW k \in ReapedKind, NEW v \in Fleet \ Poison, throws = 0, Orphan(v, k)'
      PROVE  /\ round.at = StepOf(k) => v \in round.todo \ {w}
             /\ round.at \notin After(k)
  <2>1. Orphan(v, k)
    BY <1>4, <1>5
  <2>2. ASSUME round.at = StepOf(k) PROVE v # w
    <3>1. <<w, k>> \notin exists'
      BY <1>1, <2>2, ReapersDelete
    <3> QED BY <1>5, <3>1 DEF Orphan
  <2> QED BY <1>5, <2>1, <2>2 DEF ReapInv
<1>6. round.at \in ReapSteps => fleet' = fleet
  <2> SUFFICES ASSUME round.at \in ReapSteps PROVE fleet' = fleet
    OBVIOUS
  <2>1. PICK k \in ReapedKind : round.at = StepOf(k)
    BY <1>0 DEF ReapSteps, ReapedKind, StepOf
  <2>2. out.rec = fleet[w]
    BY <1>1, <2>1, ReapersDelete
  <2> QED BY <1>0, <1>2, <2>2
<1>7. throws' \in Nat
  BY <1>0 DEF ReapInv
<1> QED BY <1>0, <1>2, <1>3, <1>5, <1>6, <1>7 DEF ReapInv

LEMMA ThrowKeeps ==
  ASSUME ReapInv, ThrowsForOne
  PROVE  ReapInv'
<1>0. /\ fleet \in [Fleet -> FleetRec] /\ round \in RoundRec /\ fleet' = fleet
      /\ round.at \notin {"references", "done", "off"} /\ throws \in Nat
  BY DEF ReapInv, ThrowsForOne
<1>1. PICK w : /\ IF w \in Poison THEN UNCHANGED throws
                  ELSE throws < MaxThrows /\ throws' = throws + 1
               /\ round' = IsolateThrow(w)
  BY DEF ThrowsForOne
<1>2. exists' \ young' \subseteq exists \ young
  BY DEF ThrowsForOne
<1> PICK todo : todo = IF round.at = "purge" THEN {} ELSE round.todo \ {w}
  OBVIOUS
<1>3. /\ round' \in RoundRec /\ round'.at = round.at /\ round'.refs = round.refs
      /\ round'.todo = todo
  <2>1. round' = [round EXCEPT !.todo = todo]
    BY <1>1 DEF IsolateThrow
  <2>2. todo \subseteq Fleet
    BY <1>0 DEF RoundRec
  <2> QED BY <1>0, <2>1, <2>2 DEF RoundRec
<1>4. throws' \in Nat /\ (throws' = 0 => throws = 0 /\ w \in Poison)
  BY <1>0, <1>1
<1>5. ASSUME NEW k \in ReapedKind, NEW v \in Fleet \ Poison, throws' = 0, Orphan(v, k)'
      PROVE  /\ round.at = StepOf(k) => v \in todo
             /\ round.at \notin After(k)
  <2>1. Orphan(v, k)
    BY <1>2, <1>3, <1>5 DEF Orphan
  <2>2. v # w
    BY <1>4, <1>5
  <2>3. round.at = StepOf(k) => round.at # "purge"
    BY StepsOfKinds DEF ReapSteps
  <2> QED BY <1>4, <1>5, <2>1, <2>2, <2>3 DEF ReapInv
<1> QED BY <1>0, <1>3, <1>4, <1>5 DEF ReapInv

\* A round that is off owes nothing.
LEMMA OffKeeps ==
  ASSUME ReapInv, fleet' = fleet, throws' \in Nat, round' \in RoundRec,
         round'.at = "off", round'.todo = {}
  PROVE  ReapInv'
<1>1. \A k \in ReapedKind : "off" # StepOf(k) /\ "off" \notin After(k)
  BY StepsOfKinds DEF ReapSteps
<1> QED BY <1>1 DEF ReapInv, ReapSteps

LEMMA ReapStep == ReapInv /\ [SweepNext]_sweepVars => ReapInv'
<1> SUFFICES ASSUME ReapInv, [SweepNext]_sweepVars PROVE ReapInv'
  OBVIOUS
<1>1. CASE GracePasses
  BY <1>1, OffKeeps DEF GracePasses, ReapInv
<1>2. CASE SweepAborts
  <2>1. round' \in RoundRec /\ round'.at = "off" /\ round'.todo = {}
    BY <1>2 DEF SweepAborts, RoundRec, SweepStep
  <2>2. throws' \in Nat /\ fleet' = fleet
    BY <1>2 DEF SweepAborts, ReapInv
  <2> QED BY <2>1, <2>2, OffKeeps
<1>3. CASE UNCHANGED sweepVars
  BY <1>3, BesideStep DEF sweepVars, ReapInv
<1> QED BY <1>1, <1>2, <1>3, FleetStep, EnterKeeps, HandleKeeps, ThrowKeeps DEF SweepNext

\* For any fleet, any poisoned workspaces and any budget: what a completed round
\* let go of, unless it is too young, is gone by its end (runMaintenance reads the
\* keep-sets after the steps that change records and before the reapers).
THEOREM FreedResourcesAreReaped == SweepSpec => []FreedIsReaped
<1>1. ReapInv => FreedIsReaped
  <2> SUFFICES ASSUME ReapInv, round.at = "done", throws = 0,
                      NEW r \in round.freed \ (young \cup Named(fleet)),
                      r[2] # "snapshot", r[1] \notin Poison, r \in exists
               PROVE  FALSE
    BY DEF FreedIsReaped
  <2>1. r \in Resource
    BY DEF ReapInv, RoundRec
  <2>2. PICK w \in Fleet, k \in Kind : r = <<w, k>>
    BY <2>1 DEF Resource
  <2>3. w \notin Poison /\ k \in ReapedKind
    BY <2>2 DEF Kind, ReapedKind
  <2>4. round.refs \subseteq Named(fleet)
    BY DEF ReapInv, ReapSteps
  <2>5. Orphan(w, k)
    BY <2>2, <2>4 DEF Orphan
  <2>6. "done" \in After(k)
    BY <2>3 DEF After, ReapedKind
  <2> QED BY <2>3, <2>5, <2>6 DEF ReapInv
<1> QED BY ReapInitial, ReapStep, <1>1, PTL DEF SweepSpec

-----------------------------------------------------------------------------
(* The cost reports *)

\* The walk, the intervals and the totals are recursive functions.  What they do
\* at every event follows from Recursion, and what they amount to by induction on
\* the events, as a set of numbers that holds zero and the successor of every member.
LEMMA SetInduction ==
    ASSUME NEW T, 0 \in T, \A n \in Nat : n \in T => n + 1 \in T
    PROVE  Nat \subseteq T
<1> SUFFICES ASSUME Nat \ T # {}
             PROVE  FALSE
  OBVIOUS
<1> DEFINE R == OpToRel(<, Nat)
<1>1. PICK x \in Nat \ T : \A y \in Nat \ T : ~(<<y, x>> \in R)
  <2>1. IsWellFoundedOn(R, Nat)
    BY NatLessThanWellFounded
  <2> HIDE DEF R
  <2> QED
    BY <2>1, WFMin
<1>2. x # 0 /\ x - 1 \in Nat
  OBVIOUS
<1>3. <<x - 1, x>> \in R
  BY <1>2 DEF OpToRel
<1>4. x - 1 \in T
  BY <1>1, <1>2, <1>3
<1> QED
  BY <1>2, <1>4

\* The same up to a number.
LEMMA BoundedInduction ==
    ASSUME NEW N \in Nat, NEW T, 0 \in T, \A n \in 0..N : n \in T /\ n < N => n + 1 \in T
    PROVE  0..N \subseteq T
<1> DEFINE U == {n \in Nat : n <= N => n \in T}
<1>1. 0 \in U
  OBVIOUS
<1>2. \A n \in Nat : n \in U => n + 1 \in U
  OBVIOUS
<1>3. Nat \subseteq U
  <2> HIDE DEF U
  <2> QED
    BY <1>1, <1>2, SetInduction
<1> QED
  BY <1>3

\* A state taken through numbered steps.
Takes(N, X, x0, F, f) ==
    f \in [0..N -> X] /\ f[0] = x0 /\ \A i \in 1..N : f[i] = F[i][f[i - 1]]

\* There is a function that takes every step.
LEMMA Recursion ==
    ASSUME NEW N \in Nat, NEW X, NEW x0 \in X, NEW F \in [1..N -> [X -> X]]
    PROVE  \E f : Takes(N, X, x0, F, f)
<1> DEFINE Good(n) == \E f \in [0..n -> X] : f[0] = x0 /\ \A i \in 1..n : f[i] = F[i][f[i - 1]]
           T == {n \in 0..N : Good(n)}
<1>1. 0 \in T
  <2> DEFINE g == [i \in 0..0 |-> x0]
  <2>1. g \in [0..0 -> X] /\ g[0] = x0
    OBVIOUS
  <2>2. \A i \in 1..0 : g[i] = F[i][g[i - 1]]
    OBVIOUS
  <2>3. Good(0)
    <3> HIDE DEF g
    <3> QED
      BY <2>1, <2>2
  <2> QED
    BY <2>3
<1>2. ASSUME NEW n \in 0..N, n \in T, n < N
      PROVE  n + 1 \in T
  <2>1. PICK f \in [0..n -> X] : f[0] = x0 /\ \A i \in 1..n : f[i] = F[i][f[i - 1]]
    BY <1>2
  <2> DEFINE g == [i \in 0..n + 1 |-> IF i <= n THEN f[i] ELSE F[n + 1][f[n]]]
  <2>2. F[n + 1][f[n]] \in X
    BY <1>2
  <2>3. g \in [0..n + 1 -> X] /\ g[0] = x0
    BY <2>1, <2>2
  <2>4. \A i \in 1..n + 1 : g[i] = F[i][g[i - 1]]
    <3> TAKE i \in 1..n + 1
    <3>1. CASE i \in 1..n
      <4>1. g[i] = f[i] /\ g[i - 1] = f[i - 1]
        BY <3>1
      <4> QED
        BY <2>1, <3>1, <4>1
    <3>2. CASE i = n + 1
      <4>1. g[i] = F[n + 1][f[n]] /\ g[i - 1] = f[n]
        BY <3>2
      <4> QED
        BY <3>2, <4>1
    <3> QED
      BY <3>1, <3>2
  <2>5. Good(n + 1)
    <3> HIDE DEF g
    <3> QED
      BY <2>3, <2>4
  <2>6. n + 1 \in 0..N
    BY <1>2
  <2> HIDE DEF Good
  <2> QED
    BY <2>5, <2>6
<1>3. 0..N \subseteq T
  <2> HIDE DEF T
  <2> QED
    BY <1>1, <1>2, BoundedInduction
<1>4. Good(N)
  <2> HIDE DEF Good
  <2> QED
    BY <1>3
<1> QED
  BY <1>4 DEF Takes

Phases == {"none", "running", "stopped", "teardown", "retained", "terminated"}
Actions == {"create", "start", "stop", "delete", "terminated", "undelete", "purged", "snapshot_lost"}
Event == [action : Actions, at : Nat]
MsTotals == [running : Nat, stopped : Nat, teardown : Nat]
WalkState == [totals : MsTotals, phase : Phases, since : Nat]
Buckets == {"running", "stopped", "teardown"}
MsInterval == [bucket : Buckets, from : Nat, to : Nat]
IntervalState == [ivs : Seq(MsInterval), phase : Phases, since : Nat]

LEMMA PhaseFacts ==
    /\ \A p \in Phases : \A a : NextPhase(p, a) \in Phases
    /\ DOMAIN Bucket = {"running", "stopped", "retained", "teardown"}
    /\ \A p \in DOMAIN Bucket : p \in Phases /\ Bucket[p] \in Buckets
  BY DEF Phases, NextPhase, Bucket, Buckets

\* A phase that holds from s to e adds its ticks to its bucket.
Adds(u, t, p, s, e) ==
    /\ u \in MsTotals
    /\ \A b \in Buckets :
         u[b] = t[b] + IF p \in DOMAIN Bucket /\ Bucket[p] = b /\ e > s THEN e - s ELSE 0

LEMMA AddTicks ==
    ASSUME NEW t \in MsTotals, NEW b \in Buckets, NEW c \in Nat
    PROVE  [t EXCEPT ![b] = @ + c] \in MsTotals
<1>1. CASE b = "running"
  BY <1>1 DEF MsTotals
<1>2. CASE b = "stopped"
  BY <1>2 DEF MsTotals
<1>3. CASE b = "teardown"
  BY <1>3 DEF MsTotals
<1> QED
  BY <1>1, <1>2, <1>3 DEF Buckets

LEMMA FoldAdds ==
    ASSUME NEW t \in MsTotals, NEW p \in Phases, NEW s \in Nat, NEW e \in Nat
    PROVE  Adds(FoldOpen(t, p, s, e), t, p, s, e)
  BY PhaseFacts DEF FoldOpen, MsTotals, Adds, Buckets

LEMMA FoldOpenType ==
    ASSUME NEW t \in MsTotals, NEW p \in Phases, NEW s \in Nat, NEW e \in Nat
    PROVE  FoldOpen(t, p, s, e) \in MsTotals
  BY FoldAdds DEF Adds

LEMMA WalkEventType ==
    ASSUME NEW w \in WalkState, NEW e \in Event
    PROVE  WalkEvent(w, e) \in WalkState
  BY PhaseFacts, FoldOpenType DEF WalkEvent, WalkState, Event

LEMMA CloseOpenType ==
    ASSUME NEW ivs \in Seq(MsInterval), NEW p \in Phases, NEW s \in Nat, NEW e \in Nat
    PROVE  CloseOpen(ivs, p, s, e) \in Seq(MsInterval)
<1>1. CASE p \in DOMAIN Bucket
  <2>1. [bucket |-> Bucket[p], from |-> s, to |-> e] \in MsInterval
    BY <1>1, PhaseFacts DEF MsInterval
  <2> QED
    BY <1>1, <2>1 DEF CloseOpen
<1> QED
  BY <1>1 DEF CloseOpen

LEMMA NotBegunType == NotBegun \in WalkState /\ NoTotals \in MsTotals
  BY DEF NotBegun, WalkState, NoTotals, MsTotals, Phases

\* What walkBilling does at every event.
WalkSteps(events, after, through, init, W) ==
    /\ W \in [0..Len(events) -> WalkState] /\ W[0] = init
    /\ \A i \in 1..Len(events) :
         W[i] = IF after < events[i].at /\ events[i].at <= through
                THEN WalkEvent(W[i - 1], events[i]) ELSE W[i - 1]

LEMMA WalkUnfolds ==
    ASSUME NEW events \in Seq(Event), NEW after, NEW through, NEW init \in WalkState
    PROVE  WalkSteps(events, after, through, init, Walk(events, after, through, init))
<1>0. PICK W : W = Walk(events, after, through, init)
  OBVIOUS
<1> DEFINE N == Len(events)
           Step(x, i) == IF after < events[i].at /\ events[i].at <= through
                         THEN WalkEvent(x, events[i]) ELSE x
           F == [i \in 1..N |-> [x \in WalkState |-> Step(x, i)]]
           Body(f) == [i \in 0..N |-> IF i = 0 THEN init ELSE Step(f[i - 1], i)]
<1>1. W = CHOOSE f : f = Body(f)
  BY <1>0 DEF Walk
<1>2. \A i \in 1..N, x \in WalkState : Step(x, i) \in WalkState
  <2> TAKE i \in 1..N, x \in WalkState
  <2>1. events[i] \in Event
    BY ElementOfSeq
  <2> QED
    BY <2>1, WalkEventType
<1>3. N \in Nat /\ init \in WalkState
  BY NotBegunType DEF WalkState, Phases
<1>4. F \in [1..N -> [WalkState -> WalkState]]
  BY <1>2
<1> HIDE DEF F
<1>5. PICK f : Takes(N, WalkState, init, F, f)
  BY <1>3, <1>4, Recursion
<1>6. f \in [0..N -> WalkState] /\ f[0] = init /\ \A i \in 1..N : f[i] = Step(f[i - 1], i)
  <2>1. f \in [0..N -> WalkState] /\ f[0] = init /\ \A i \in 1..N : f[i] = F[i][f[i - 1]]
    BY <1>5 DEF Takes
  <2>2. \A i \in 1..N : f[i - 1] \in WalkState
    BY <1>3, <2>1
  <2>3. \A i \in 1..N, x \in WalkState : F[i][x] = Step(x, i)
    BY DEF F
  <2> HIDE DEF Step
  <2> QED
    BY <2>1, <2>2, <2>3
<1>7. f = Body(f)
  <2>1. f = [i \in 0..N |-> f[i]]
    BY <1>6
  <2> HIDE DEF Step
  <2>2. \A i \in 0..N : f[i] = IF i = 0 THEN init ELSE Step(f[i - 1], i)
    BY <1>3, <1>6
  <2> QED
    BY <2>1, <2>2
<1>8. W = Body(W)
  <2> HIDE DEF Body
  <2> QED
    BY <1>1, <1>7
<1>9. W[0] = init /\ \A i \in 1..N : W[i] = Step(W[i - 1], i)
  <2> HIDE DEF Step
  <2> QED
    BY <1>3, <1>8
<1>10. W \in [0..N -> WalkState]
  <2> DEFINE T == {n \in 0..N : W[n] \in WalkState}
  <2> HIDE DEF Step
  <2>1. 0 \in T
    BY <1>3, <1>9
  <2>2. ASSUME NEW n \in 0..N, n \in T, n < N
        PROVE  n + 1 \in T
    BY <1>2, <1>3, <1>9, <2>2
  <2>3. 0..N \subseteq T
    <3> HIDE DEF T
    <3> QED
      BY <1>3, <2>1, <2>2, BoundedInduction
  <2> QED
    BY <1>8, <2>3
<1> QED
  BY <1>0, <1>9, <1>10 DEF WalkSteps

\* What the walk that keeps the intervals does at every event.
IntervalSteps(events, now, W) ==
    /\ W \in [0..Len(events) -> IntervalState]
    /\ W[0] = [ivs |-> <<>>, phase |-> "none", since |-> 0]
    /\ \A i \in 1..Len(events) :
         W[i] = LET w == W[i - 1]
                    next == NextPhase(w.phase, events[i].action)
                IN IF events[i].at > now \/ w.phase = "terminated" \/ next = w.phase THEN w
                   ELSE [ivs |-> CloseOpen(w.ivs, w.phase, w.since, events[i].at),
                         phase |-> next, since |-> events[i].at]

LEMMA IntervalsUnfold ==
    ASSUME NEW events \in Seq(Event), NEW now \in Nat
    PROVE  IntervalSteps(events, now, WalkIntervals(events, now))
<1>0. PICK W : W = WalkIntervals(events, now)
  OBVIOUS
<1> DEFINE N == Len(events)
           x0 == [ivs |-> <<>>, phase |-> "none", since |-> 0]
           Step(x, i) == LET next == NextPhase(x.phase, events[i].action)
                         IN IF events[i].at > now \/ x.phase = "terminated" \/ next = x.phase THEN x
                            ELSE [ivs |-> CloseOpen(x.ivs, x.phase, x.since, events[i].at),
                                  phase |-> next, since |-> events[i].at]
           F == [i \in 1..N |-> [x \in IntervalState |-> Step(x, i)]]
           Body(f) == [i \in 0..N |-> IF i = 0 THEN x0 ELSE Step(f[i - 1], i)]
<1>1. W = CHOOSE f : f = Body(f)
  BY <1>0 DEF WalkIntervals
<1>2. \A i \in 1..N, x \in IntervalState : Step(x, i) \in IntervalState
  <2> TAKE i \in 1..N, x \in IntervalState
  <2>1. events[i] \in Event
    BY ElementOfSeq
  <2>2. /\ x.ivs \in Seq(MsInterval) /\ x.phase \in Phases /\ x.since \in Nat
        /\ events[i].at \in Nat /\ NextPhase(x.phase, events[i].action) \in Phases
    BY <2>1, PhaseFacts DEF IntervalState, Event
  <2>3. CloseOpen(x.ivs, x.phase, x.since, events[i].at) \in Seq(MsInterval)
    BY <2>2, CloseOpenType
  <2> QED
    BY <2>2, <2>3 DEF IntervalState
<1>3. N \in Nat /\ x0 \in IntervalState
  BY NotBegunType DEF IntervalState, Phases
<1>4. F \in [1..N -> [IntervalState -> IntervalState]]
  BY <1>2
<1> HIDE DEF F
<1>5. PICK f : Takes(N, IntervalState, x0, F, f)
  BY <1>3, <1>4, Recursion
<1>6. f \in [0..N -> IntervalState] /\ f[0] = x0 /\ \A i \in 1..N : f[i] = Step(f[i - 1], i)
  <2>1. f \in [0..N -> IntervalState] /\ f[0] = x0 /\ \A i \in 1..N : f[i] = F[i][f[i - 1]]
    BY <1>5 DEF Takes
  <2>2. \A i \in 1..N : f[i - 1] \in IntervalState
    BY <1>3, <2>1
  <2>3. \A i \in 1..N, x \in IntervalState : F[i][x] = Step(x, i)
    BY DEF F
  <2> HIDE DEF Step
  <2> QED
    BY <2>1, <2>2, <2>3
<1>7. f = Body(f)
  <2>1. f = [i \in 0..N |-> f[i]]
    BY <1>6
  <2> HIDE DEF Step
  <2>2. \A i \in 0..N : f[i] = IF i = 0 THEN x0 ELSE Step(f[i - 1], i)
    BY <1>3, <1>6
  <2> QED
    BY <2>1, <2>2
<1>8. W = Body(W)
  <2> HIDE DEF Body
  <2> QED
    BY <1>1, <1>7
<1>9. W[0] = x0 /\ \A i \in 1..N : W[i] = Step(W[i - 1], i)
  <2> HIDE DEF Step
  <2> QED
    BY <1>3, <1>8
<1>10. W \in [0..N -> IntervalState]
  <2> DEFINE T == {n \in 0..N : W[n] \in IntervalState}
  <2> HIDE DEF Step
  <2>1. 0 \in T
    BY <1>3, <1>9
  <2>2. ASSUME NEW n \in 0..N, n \in T, n < N
        PROVE  n + 1 \in T
    BY <1>2, <1>3, <1>9, <2>2
  <2>3. 0..N \subseteq T
    <3> HIDE DEF T
    <3> QED
      BY <1>3, <2>1, <2>2, BoundedInduction
  <2> QED
    BY <1>8, <2>3
<1> QED
  BY <1>0, <1>9, <1>10 DEF IntervalSteps

\* What totalMs does at every interval.
TotalSteps(ivs, from, to, W) ==
    /\ W \in [0..Len(ivs) -> MsTotals] /\ W[0] = NoTotals
    /\ \A i \in 1..Len(ivs) :
         W[i] = [W[i - 1] EXCEPT ![ivs[i].bucket] = @ + ClippedMs(ivs[i], from, to)]

LEMMA TotalsUnfold ==
    ASSUME NEW ivs \in Seq(MsInterval), NEW from \in Nat, NEW to \in Nat
    PROVE  TotalSteps(ivs, from, to, Totals(ivs, from, to))
<1>0. PICK W : W = Totals(ivs, from, to)
  OBVIOUS
<1> DEFINE N == Len(ivs)
           Step(x, i) == [x EXCEPT ![ivs[i].bucket] = @ + ClippedMs(ivs[i], from, to)]
           F == [i \in 1..N |-> [x \in MsTotals |-> Step(x, i)]]
           Body(f) == [i \in 0..N |-> IF i = 0 THEN NoTotals ELSE Step(f[i - 1], i)]
<1>1. W = CHOOSE f : f = Body(f)
  BY <1>0 DEF Totals
<1>2. \A i \in 1..N, x \in MsTotals : Step(x, i) \in MsTotals
  <2> TAKE i \in 1..N, x \in MsTotals
  <2>1. ivs[i] \in MsInterval
    BY ElementOfSeq
  <2>2. ClippedMs(ivs[i], from, to) \in Nat /\ ivs[i].bucket \in Buckets
    BY <2>1 DEF ClippedMs, MsInterval
  <2> QED
    BY <2>2, AddTicks
<1>3. N \in Nat /\ NoTotals \in MsTotals
  BY NotBegunType DEF MsTotals, Phases
<1>4. F \in [1..N -> [MsTotals -> MsTotals]]
  BY <1>2
<1> HIDE DEF F
<1>5. PICK f : Takes(N, MsTotals, NoTotals, F, f)
  BY <1>3, <1>4, Recursion
<1>6. f \in [0..N -> MsTotals] /\ f[0] = NoTotals /\ \A i \in 1..N : f[i] = Step(f[i - 1], i)
  <2>1. f \in [0..N -> MsTotals] /\ f[0] = NoTotals /\ \A i \in 1..N : f[i] = F[i][f[i - 1]]
    BY <1>5 DEF Takes
  <2>2. \A i \in 1..N : f[i - 1] \in MsTotals
    BY <1>3, <2>1
  <2>3. \A i \in 1..N, x \in MsTotals : F[i][x] = Step(x, i)
    BY DEF F
  <2> HIDE DEF Step
  <2> QED
    BY <2>1, <2>2, <2>3
<1>7. f = Body(f)
  <2>1. f = [i \in 0..N |-> f[i]]
    BY <1>6
  <2> HIDE DEF Step
  <2>2. \A i \in 0..N : f[i] = IF i = 0 THEN NoTotals ELSE Step(f[i - 1], i)
    BY <1>3, <1>6
  <2> QED
    BY <2>1, <2>2
<1>8. W = Body(W)
  <2> HIDE DEF Body
  <2> QED
    BY <1>1, <1>7
<1>9. W[0] = NoTotals /\ \A i \in 1..N : W[i] = Step(W[i - 1], i)
  <2> HIDE DEF Step
  <2> QED
    BY <1>3, <1>8
<1>10. W \in [0..N -> MsTotals]
  <2> DEFINE T == {n \in 0..N : W[n] \in MsTotals}
  <2> HIDE DEF Step
  <2>1. 0 \in T
    BY <1>3, <1>9
  <2>2. ASSUME NEW n \in 0..N, n \in T, n < N
        PROVE  n + 1 \in T
    BY <1>2, <1>3, <1>9, <2>2
  <2>3. 0..N \subseteq T
    <3> HIDE DEF T
    <3> QED
      BY <1>3, <2>1, <2>2, BoundedInduction
  <2> QED
    BY <1>8, <2>3
<1> QED
  BY <1>0, <1>9, <1>10 DEF TotalSteps

\* An interval more adds what is left of it in the window to its bucket.
LEMMA TotalOfAppend ==
    ASSUME NEW ivs \in Seq(MsInterval), NEW iv \in MsInterval, NEW from \in Nat, NEW to \in Nat
    PROVE  /\ TotalMs(ivs, from, to) \in MsTotals
           /\ TotalMs(Append(ivs, iv), from, to) \in MsTotals
           /\ \A b \in Buckets :
                TotalMs(Append(ivs, iv), from, to)[b] =
                  TotalMs(ivs, from, to)[b] + IF iv.bucket = b THEN ClippedMs(iv, from, to) ELSE 0
<1>1. PICK n, more : n = Len(ivs) /\ more = Append(ivs, iv)
  OBVIOUS
<1>2. /\ n \in Nat /\ more \in Seq(MsInterval) /\ Len(more) = n + 1 /\ more[n + 1] = iv
      /\ \A i \in 1..n : more[i] = ivs[i]
  BY <1>1
<1>3. PICK V, W : V = Totals(ivs, from, to) /\ W = Totals(more, from, to)
  OBVIOUS
<1>4. /\ V \in [0..n -> MsTotals] /\ V[0] = NoTotals
      /\ \A i \in 1..n : V[i] = [V[i - 1] EXCEPT ![ivs[i].bucket] = @ + ClippedMs(ivs[i], from, to)]
  <2>1. TotalSteps(ivs, from, to, V)
    BY <1>3, TotalsUnfold
  <2> QED
    BY <1>1, <2>1 DEF TotalSteps
<1>5. /\ W \in [0..n + 1 -> MsTotals] /\ W[0] = NoTotals
      /\ \A i \in 1..n + 1 : W[i] = [W[i - 1] EXCEPT ![more[i].bucket] = @ + ClippedMs(more[i], from, to)]
  <2>1. TotalSteps(more, from, to, W)
    BY <1>2, <1>3, TotalsUnfold
  <2> QED
    BY <1>2, <2>1 DEF TotalSteps
<1>6. W[n] = V[n]
  <2> DEFINE T == {i \in 0..n : W[i] = V[i]}
  <2>1. 0 \in T
    BY <1>2, <1>4, <1>5
  <2>2. ASSUME NEW i \in 0..n, i \in T, i < n
        PROVE  i + 1 \in T
    <3>1. i + 1 \in 1..n /\ i + 1 \in 1..n + 1 /\ (i + 1) - 1 = i /\ W[i] = V[i]
      BY <1>2, <2>2
    <3>2. more[i + 1] = ivs[i + 1]
      BY <1>2, <3>1
    <3>3. V[i + 1] = [V[i] EXCEPT ![ivs[i + 1].bucket] = @ + ClippedMs(ivs[i + 1], from, to)]
      BY <1>4, <3>1
    <3>4. W[i + 1] = [W[i] EXCEPT ![more[i + 1].bucket] = @ + ClippedMs(more[i + 1], from, to)]
      BY <1>5, <3>1
    <3>5. W[i + 1] = V[i + 1]
      BY <3>1, <3>2, <3>3, <3>4
    <3> QED
      BY <1>2, <3>1, <3>5
  <2>3. 0..n \subseteq T
    <3> HIDE DEF T
    <3> QED
      BY <1>2, <2>1, <2>2, BoundedInduction
  <2> QED
    BY <1>2, <2>3
<1>7. TotalMs(ivs, from, to) = V[n] /\ TotalMs(more, from, to) = W[n + 1]
  BY <1>1, <1>2, <1>3 DEF TotalMs
<1>8. W[n + 1] = [V[n] EXCEPT ![iv.bucket] = @ + ClippedMs(iv, from, to)]
  <2>1. n + 1 \in 1..n + 1 /\ (n + 1) - 1 = n
    BY <1>2
  <2>2. W[n + 1] = [W[n] EXCEPT ![more[n + 1].bucket] = @ + ClippedMs(more[n + 1], from, to)]
    BY <1>5, <2>1
  <2> QED
    BY ONLY <1>2, <1>6, <2>2
<1>9. V[n] \in MsTotals /\ W[n + 1] \in MsTotals
  BY <1>2, <1>4, <1>5
<1>10. iv.bucket \in Buckets /\ ClippedMs(iv, from, to) \in Nat
  BY DEF ClippedMs, MsInterval, Buckets
<1>11. \A b \in Buckets : W[n + 1][b] = V[n][b] + IF iv.bucket = b THEN ClippedMs(iv, from, to) ELSE 0
  BY <1>8, <1>9, <1>10 DEF MsTotals, Buckets
<1> QED
  BY <1>1, <1>7, <1>9, <1>11

\* So does closing the open interval of a phase.
Held(p, b, s, e, from, to) ==
    IF p \in DOMAIN Bucket /\ Bucket[p] = b
    THEN ClippedMs([bucket |-> b, from |-> s, to |-> e], from, to) ELSE 0

Closes(u, t, p, s, e, from, to) ==
    /\ t \in MsTotals /\ u \in MsTotals
    /\ \A b \in Buckets : Held(p, b, s, e, from, to) \in Nat /\ u[b] = t[b] + Held(p, b, s, e, from, to)

LEMMA TotalOfClose ==
    ASSUME NEW ivs \in Seq(MsInterval), NEW p \in Phases, NEW s \in Nat, NEW e \in Nat,
           NEW from \in Nat, NEW to \in Nat
    PROVE  Closes(TotalMs(CloseOpen(ivs, p, s, e), from, to), TotalMs(ivs, from, to), p, s, e, from, to)
<1>1. CASE p \in DOMAIN Bucket
  <2>1. PICK iv : iv = [bucket |-> Bucket[p], from |-> s, to |-> e]
    OBVIOUS
  <2>2. iv \in MsInterval /\ iv.bucket = Bucket[p]
    BY <1>1, <2>1, PhaseFacts DEF MsInterval
  <2>3. CloseOpen(ivs, p, s, e) = Append(ivs, iv)
    BY <1>1, <2>1 DEF CloseOpen
  <2>4. \A b \in Buckets : /\ Held(p, b, s, e, from, to) \in Nat
                           /\ Held(p, b, s, e, from, to) =
                                IF iv.bucket = b THEN ClippedMs(iv, from, to) ELSE 0
    BY <1>1, <2>1, <2>2 DEF Held, ClippedMs
  <2>5. PICK t, u : t = TotalMs(ivs, from, to) /\ u = TotalMs(Append(ivs, iv), from, to)
    OBVIOUS
  <2>6. /\ t \in MsTotals /\ u \in MsTotals
        /\ \A b \in Buckets : u[b] = t[b] + IF iv.bucket = b THEN ClippedMs(iv, from, to) ELSE 0
    BY <2>2, <2>5, TotalOfAppend
  <2>7. Closes(u, t, p, s, e, from, to)
    BY ONLY <2>4, <2>6 DEF Closes
  <2> QED
    BY ONLY <2>3, <2>5, <2>7
<1>2. CASE p \notin DOMAIN Bucket
  <2>1. CloseOpen(ivs, p, s, e) = ivs /\ \A b \in Buckets : Held(p, b, s, e, from, to) = 0
    BY <1>2 DEF CloseOpen, Held
  <2>2. TotalMs(ivs, from, to) \in MsTotals
    <3>1. Totals(ivs, from, to) \in [0..Len(ivs) -> MsTotals] /\ Len(ivs) \in Nat
      BY TotalsUnfold DEF TotalSteps
    <3> QED
      BY <3>1 DEF TotalMs
  <2>3. \A b \in Buckets : TotalMs(ivs, from, to)[b] \in Nat
    BY <2>2 DEF MsTotals, Buckets
  <2> QED
    BY <2>1, <2>2, <2>3 DEF Closes
<1> QED
  BY <1>1, <1>2

\* From the beginning on, what a phase held is what the walk adds.
LEMMA HeldFromStart ==
    ASSUME NEW p \in Phases, NEW b \in Buckets, NEW s \in Nat, NEW e \in Nat, NEW to \in Nat,
           s <= e, e <= to
    PROVE  Held(p, b, s, e, 0, to) = IF p \in DOMAIN Bucket /\ Bucket[p] = b /\ e > s THEN e - s ELSE 0
  BY DEF Held, ClippedMs

\* A set of numbers that has a member has a least one.
LEMMA LeastNumber ==
    ASSUME NEW S \in SUBSET Nat, S # {}
    PROVE  \E m \in S : \A n \in S : m <= n
<1> DEFINE R == OpToRel(<, Nat)
<1>1. PICK m \in S : \A n \in S : ~(<<n, m>> \in R)
  <2>1. IsWellFoundedOn(R, Nat)
    BY NatLessThanWellFounded
  <2> HIDE DEF R
  <2> QED
    BY <2>1, WFMin
<1>2. \A n \in S : ~(n < m)
  BY <1>1 DEF OpToRel
<1>3. \A n \in S : m <= n
  BY <1>2
<1> QED
  BY <1>3

\* A ledger in the order of its instants, none of them after now.
InOrder(ev, now) ==
    /\ ev \in Seq(Event) /\ now \in Nat
    /\ \A i, j \in 1..Len(ev) : i < j => ev[i].at < ev[j].at
    /\ \A i \in 1..Len(ev) : ev[i].at \in Nat /\ ev[i].at <= now

\* The first k events are those up to t.
Cut(ev, t, k) == k \in 0..Len(ev) /\ \A i \in 1..Len(ev) : ev[i].at <= t <=> i <= k

\* Every instant cuts the ledger in two, after as many events as there are up to it.
LEMMA CutExists ==
    ASSUME NEW ev, NEW now, InOrder(ev, now), NEW t \in Nat
    PROVE  \E k : Cut(ev, t, k)
<1>1. PICK n \in Nat : n = Len(ev)
  BY DEF InOrder
<1> DEFINE S == {i \in 1..n : ev[i].at > t}
<1>2. CASE S = {}
  <2>1. \A i \in 1..n : ev[i].at <= t
    BY <1>1, <1>2 DEF InOrder
  <2>2. Cut(ev, t, n)
    BY <1>1, <2>1 DEF Cut
  <2> QED
    BY <2>2
<1>3. CASE S # {}
  <2>1. PICK m \in S : \A i \in S : m <= i
    <3>1. S \in SUBSET Nat
      BY <1>1
    <3> HIDE DEF S
    <3> QED
      BY <1>3, <3>1, LeastNumber
  <2>2. \A i \in 1..n : ev[i].at <= t <=> i <= m - 1
    <3> TAKE i \in 1..n
    <3>1. CASE i < m
      BY <1>1, <2>1, <3>1 DEF InOrder
    <3>2. CASE i = m
      BY <1>1, <2>1, <3>2 DEF InOrder
    <3>3. CASE i > m
      <4>1. ev[m].at < ev[i].at /\ ev[m].at > t /\ ev[m].at \in Nat /\ ev[i].at \in Nat
        BY <1>1, <2>1, <3>3 DEF InOrder
      <4> QED
        BY <2>1, <3>3, <4>1
    <3> QED
      BY <2>1, <3>1, <3>2, <3>3
  <2>3. Cut(ev, t, m - 1)
    BY <1>1, <2>1, <2>2 DEF Cut
  <2> QED
    BY <2>3
<1> QED
  BY <1>2, <1>3

LEMMA CutCounts ==
    ASSUME NEW ev, NEW t, NEW k, Len(ev) \in Nat, Cut(ev, t, k)
    PROVE  Cardinality({i \in 1..Len(ev) : ev[i].at <= t}) = k
<1>1. {i \in 1..Len(ev) : ev[i].at <= t} = 1..k
  BY DEF Cut
<1>2. 1 \in Int /\ k \in Int /\ 0 <= k
  BY DEF Cut
<1>3. Cardinality(1..k) = IF 1 > k THEN 0 ELSE k - 1 + 1
  BY ONLY <1>2, FS_Interval
<1>4. Cardinality(1..k) = k
  BY ONLY <1>2, <1>3
<1> QED
  BY <1>1, <1>4

\* The walk over a whole ledger.
Whole(ev, W) ==
    /\ W \in [0..Len(ev) -> WalkState] /\ W[0] = NotBegun
    /\ \A i \in 1..Len(ev) : W[i] = WalkEvent(W[i - 1], ev[i])

LEMMA WholeWalk ==
    ASSUME NEW ev, NEW now, InOrder(ev, now)
    PROVE  Whole(ev, Walk(ev, -1, now, NotBegun))
<1>1. PICK W : W = Walk(ev, -1, now, NotBegun)
  OBVIOUS
<1>2. WalkSteps(ev, -1, now, NotBegun, W)
  BY <1>1, NotBegunType, WalkUnfolds DEF InOrder
<1>3. \A i \in 1..Len(ev) : -1 < ev[i].at /\ ev[i].at <= now
  BY DEF InOrder
<1> QED
  BY <1>1, <1>2, <1>3 DEF WalkSteps, Whole

\* A walk that stops at an instant is the whole one up to there.
LEMMA WalkToCut ==
    ASSUME NEW ev, NEW now, InOrder(ev, now), NEW W, Whole(ev, W), NEW t, NEW k, Cut(ev, t, k)
    PROVE  /\ WalkBilling(ev, -1, t, NotBegun) = W[k]
           /\ \A j \in 0..Len(ev) : k <= j => Walk(ev, -1, t, NotBegun)[j] = W[k]
<1>1. PICK A, n : A = Walk(ev, -1, t, NotBegun) /\ n = Len(ev)
  OBVIOUS
<1>2. n \in Nat /\ k \in 0..n
  BY <1>1 DEF InOrder, Cut
<1>3. WalkSteps(ev, -1, t, NotBegun, A)
  BY <1>1, NotBegunType, WalkUnfolds DEF InOrder
<1>4. /\ A[0] = NotBegun
      /\ \A i \in 1..n : A[i] = IF i <= k THEN WalkEvent(A[i - 1], ev[i]) ELSE A[i - 1]
  <2>1. \A i \in 1..n : (-1 < ev[i].at /\ ev[i].at <= t) <=> i <= k
    BY <1>1 DEF InOrder, Cut
  <2> QED
    BY <1>1, <1>3, <2>1 DEF WalkSteps
<1>5. W[0] = NotBegun /\ \A i \in 1..n : W[i] = WalkEvent(W[i - 1], ev[i])
  BY <1>1 DEF Whole
<1> DEFINE T == {i \in 0..n : A[i] = W[IF i <= k THEN i ELSE k]}
<1>6. 0 \in T
  BY <1>2, <1>4, <1>5
<1>7. ASSUME NEW i \in 0..n, i \in T, i < n
      PROVE  i + 1 \in T
  <2>1. i + 1 \in 1..n /\ (i + 1) - 1 = i
    BY <1>2, <1>7
  <2>2. CASE i + 1 <= k
    <3>1. A[i + 1] = WalkEvent(A[i], ev[i + 1]) /\ A[i] = W[i]
      BY <1>2, <1>4, <1>7, <2>1, <2>2
    <3>2. W[i + 1] = WalkEvent(W[i], ev[i + 1])
      BY <1>5, <2>1
    <3> QED
      BY <2>1, <2>2, <3>1, <3>2
  <2>3. CASE ~(i + 1 <= k)
    <3>1. A[i + 1] = A[i] /\ A[i] = W[k]
      <4>1. A[i] = W[IF i <= k THEN i ELSE k]
        BY <1>7
      <4>2. (IF i <= k THEN i ELSE k) = k
        BY <1>2, <2>3
      <4> QED
        BY <1>4, <2>1, <2>3, <4>1, <4>2
    <3> QED
      BY <2>1, <2>3, <3>1
  <2> QED
    BY <2>2, <2>3
<1>8. 0..n \subseteq T
  <2> HIDE DEF T
  <2> QED
    BY <1>2, <1>6, <1>7, BoundedInduction
<1>9. \A j \in 0..n : k <= j => A[j] = W[k]
  <2> TAKE j \in 0..n
  <2>1. A[j] = W[IF j <= k THEN j ELSE k]
    BY <1>8
  <2>2. k <= j => (IF j <= k THEN j ELSE k) = k
    BY <1>2
  <2> QED
    BY <2>1, <2>2
<1> QED
  BY <1>1, <1>2, <1>9 DEF WalkBilling

\* A phase begins at the event that led to it, and holds until the next.
LEMMA WalkSince ==
    ASSUME NEW ev, NEW now, InOrder(ev, now), NEW W, Whole(ev, W)
    PROVE  \A i \in 0..Len(ev) :
             /\ W[i].since \in Nat /\ W[i].since <= now
             /\ \A j \in 1..Len(ev) : i < j => W[i].since <= ev[j].at
             /\ \A t \in Nat, k \in 0..Len(ev) :
                  Cut(ev, t, k) /\ k <= i /\ W[i].since <= t => W[k].phase = W[i].phase
<1>1. PICK n \in Nat : n = Len(ev)
  BY DEF InOrder
<1>2. W[0] = NotBegun /\ \A i \in 1..n : W[i] = WalkEvent(W[i - 1], ev[i])
  BY <1>1 DEF Whole
<1> DEFINE Good(i) ==
             /\ W[i].since \in Nat /\ W[i].since <= now
             /\ \A j \in 1..n : i < j => W[i].since <= ev[j].at
             /\ \A t \in Nat, k \in 0..n :
                  Cut(ev, t, k) /\ k <= i /\ W[i].since <= t => W[k].phase = W[i].phase
           T == {i \in 0..n : Good(i)}
<1>3. 0 \in T
  <2>1. W[0].since = 0 /\ now \in Nat /\ \A j \in 1..n : ev[j].at \in Nat
    BY <1>1, <1>2 DEF NotBegun, InOrder
  <2> QED
    BY <1>1, <2>1
<1>4. ASSUME NEW i \in 0..n, i \in T, i < n
      PROVE  i + 1 \in T
  <2>1. i + 1 \in 1..n /\ (i + 1) - 1 = i /\ Good(i)
    BY <1>1, <1>4
  <2>2. W[i + 1] = WalkEvent(W[i], ev[i + 1])
    BY <1>2, <2>1
  <2>3. /\ ev[i + 1].at \in Nat /\ ev[i + 1].at <= now
        /\ \A j \in 1..n : i + 1 < j => ev[i + 1].at < ev[j].at /\ ev[j].at \in Nat
    BY <1>1, <2>1 DEF InOrder
  <2>4. CASE W[i + 1] = W[i]
    <3>1. \A t \in Nat, k \in 0..n :
            Cut(ev, t, k) /\ k <= i + 1 /\ W[i + 1].since <= t => W[k].phase = W[i + 1].phase
      <4> TAKE t \in Nat, k \in 0..n
      <4>1. CASE k <= i
        BY <2>1, <2>4, <4>1
      <4>2. CASE k = i + 1
        BY <4>2
      <4> QED
        BY <4>1, <4>2
    <3>2. \A j \in 1..n : i + 1 < j => W[i + 1].since <= ev[j].at
      BY <2>1, <2>4
    <3> QED
      BY <2>1, <2>4, <3>1, <3>2
  <2>5. CASE W[i + 1].since = ev[i + 1].at
    <3>1. \A t \in Nat, k \in 0..n :
            Cut(ev, t, k) /\ k <= i + 1 /\ W[i + 1].since <= t => W[k].phase = W[i + 1].phase
      <4> SUFFICES ASSUME NEW t \in Nat, NEW k \in 0..n, Cut(ev, t, k), k <= i + 1, ev[i + 1].at <= t
                   PROVE  k = i + 1
        BY <2>5
      <4> QED
        BY <1>1, <2>1 DEF Cut
    <3> QED
      BY <2>1, <2>3, <2>5, <3>1
  <2>6. W[i + 1] = W[i] \/ W[i + 1].since = ev[i + 1].at
    BY <2>2 DEF WalkEvent
  <2> QED
    BY <2>4, <2>5, <2>6
<1>5. 0..n \subseteq T
  <2> HIDE DEF T
  <2> QED
    BY <1>3, <1>4, BoundedInduction
<1>6. \A i \in 0..n : Good(i)
  <2> HIDE DEF Good
  <2> QED
    BY <1>5
<1> QED
  BY <1>1, <1>6

\* Closing an interval and folding it add the same.
LEMMA CloseMatches ==
    ASSUME NEW ivs \in Seq(MsInterval), NEW p \in Phases, NEW s \in Nat, NEW e \in Nat,
           NEW now \in Nat, s <= e, e <= now
    PROVE  TotalMs(CloseOpen(ivs, p, s, e), 0, now) = FoldOpen(TotalMs(ivs, 0, now), p, s, e)
<1>0. PICK z \in Nat : z = 0
  OBVIOUS
<1>1. PICK t, u : t = TotalMs(ivs, z, now) /\ u = TotalMs(CloseOpen(ivs, p, s, e), z, now)
  OBVIOUS
<1>2. /\ t \in MsTotals /\ u \in MsTotals
      /\ \A b \in Buckets : u[b] = t[b] + Held(p, b, s, e, z, now)
  <2>1. Closes(TotalMs(CloseOpen(ivs, p, s, e), z, now), TotalMs(ivs, z, now), p, s, e, z, now)
    BY TotalOfClose
  <2> QED
    BY <1>1, <2>1 DEF Closes
<1>3. PICK v : v = FoldOpen(t, p, s, e)
  OBVIOUS
<1>4. /\ v \in MsTotals
      /\ \A b \in Buckets : v[b] = t[b] + IF p \in DOMAIN Bucket /\ Bucket[p] = b /\ e > s THEN e - s ELSE 0
  <2>1. Adds(v, t, p, s, e)
    BY ONLY <1>2, <1>3, FoldAdds, p \in Phases, s \in Nat, e \in Nat
  <2> QED
    BY ONLY <2>1 DEF Adds
<1>5. \A b \in Buckets : u[b] = v[b]
  BY <1>0, <1>2, <1>4, HeldFromStart
<1>6. u = v
  BY <1>2, <1>4, <1>5 DEF MsTotals, Buckets
<1> QED
  BY <1>0, <1>1, <1>3, <1>6

LEMMA NoIntervals ==
    ASSUME NEW from \in Nat, NEW to \in Nat
    PROVE  TotalMs(<<>>, from, to) = NoTotals
<1>1. <<>> \in Seq(MsInterval) /\ Len(<<>>) = 0
  OBVIOUS
<1>2. TotalSteps(<<>>, from, to, Totals(<<>>, from, to))
  BY <1>1, TotalsUnfold
<1> QED
  BY <1>1, <1>2 DEF TotalSteps, TotalMs

SameSoFar(v, w, now) ==
    /\ v \in IntervalState
    /\ v.phase = w.phase /\ v.since = w.since /\ TotalMs(v.ivs, 0, now) = w.totals

\* The intervals of a ledger hold what its walk has counted.
LEMMA IntervalsFollowWalk ==
    ASSUME NEW ev, NEW now, InOrder(ev, now), NEW W, Whole(ev, W), NEW V, IntervalSteps(ev, now, V)
    PROVE  /\ \A i \in 0..Len(ev) : SameSoFar(V[i], W[i], now)
           /\ V = WalkIntervals(ev, now) =>
                TotalMs(DeriveBillingIntervals(ev, now), 0, now) = ClosedAt(W[Len(ev)], now)
<1>1. PICK n \in Nat : n = Len(ev)
  BY DEF InOrder
<1>2. W \in [0..n -> WalkState] /\ W[0] = NotBegun /\ \A i \in 1..n : W[i] = WalkEvent(W[i - 1], ev[i])
  BY <1>1 DEF Whole
<1>3. V \in [0..n -> IntervalState]
  BY <1>1 DEF IntervalSteps
<1>4. \A i \in 0..n : W[i].since \in Nat /\ W[i].since <= now
                      /\ \A j \in 1..n : i < j => W[i].since <= ev[j].at
  BY <1>1, WalkSince
<1>5. now \in Nat /\ \A i \in 1..n : ev[i] \in Event /\ ev[i].at \in Nat /\ ev[i].at <= now
  BY <1>1, ElementOfSeq DEF InOrder
<1> DEFINE T == {i \in 0..n : SameSoFar(V[i], W[i], now)}
<1>6. 0 \in T
  <2>1. V[0] = [ivs |-> <<>>, phase |-> "none", since |-> 0] /\ V[0] \in IntervalState
    BY <1>1, <1>3 DEF IntervalSteps
  <2>2. TotalMs(<<>>, 0, now) = NoTotals
    BY <1>5, NoIntervals
  <2> QED
    BY <1>1, <1>2, <2>1, <2>2 DEF SameSoFar, NotBegun
<1>7. ASSUME NEW i \in 0..n, i \in T, i < n
      PROVE  i + 1 \in T
  <2>1. i + 1 \in 1..n /\ i + 1 \in 0..n /\ (i + 1) - 1 = i
    BY <1>7
  <2>2. PICK v, w, e : v = V[i] /\ w = W[i] /\ e = ev[i + 1]
    OBVIOUS
  <2>3. SameSoFar(v, w, now)
    BY <1>7, <2>2
  <2>4. W[i + 1] = WalkEvent(w, e)
    BY <1>2, <2>1, <2>2
  <2>5. V[i + 1] = LET next == NextPhase(v.phase, e.action)
                   IN IF e.at > now \/ v.phase = "terminated" \/ next = v.phase THEN v
                      ELSE [ivs |-> CloseOpen(v.ivs, v.phase, v.since, e.at),
                            phase |-> next, since |-> e.at]
    BY <1>1, <2>1, <2>2 DEF IntervalSteps
  <2>6. V[i + 1] \in IntervalState
    BY <1>3, <2>1
  <2>7. /\ v.ivs \in Seq(MsInterval) /\ v.phase \in Phases /\ v.since \in Nat /\ w.since = v.since
        /\ w.phase = v.phase
    BY <2>3 DEF SameSoFar, IntervalState
  <2>8. e.at \in Nat /\ e.at <= now /\ v.since <= e.at
    BY <1>4, <1>5, <2>1, <2>2, <2>7
  <2>9. CASE v.phase = "terminated" \/ NextPhase(v.phase, e.action) = v.phase
    <3>1. V[i + 1] = v
      BY <2>5, <2>9
    <3>2. W[i + 1] = w
      BY <2>4, <2>7, <2>9 DEF WalkEvent
    <3> QED
      BY <2>1, <2>3, <3>1, <3>2
  <2>10. CASE v.phase # "terminated" /\ NextPhase(v.phase, e.action) # v.phase
    <3>1. V[i + 1] = [ivs |-> CloseOpen(v.ivs, v.phase, v.since, e.at),
                      phase |-> NextPhase(v.phase, e.action), since |-> e.at]
      <4>1. ~(e.at > now)
        BY <1>5, <2>8
      <4> QED
        BY <2>5, <2>10, <4>1
    <3>2. W[i + 1] = [totals |-> FoldOpen(w.totals, v.phase, v.since, e.at),
                      phase |-> NextPhase(v.phase, e.action), since |-> e.at]
      BY <2>4, <2>7, <2>10 DEF WalkEvent
    <3>3. TotalMs(CloseOpen(v.ivs, v.phase, v.since, e.at), 0, now)
            = FoldOpen(w.totals, v.phase, v.since, e.at)
      <4>1. TotalMs(v.ivs, 0, now) = w.totals
        BY <2>3 DEF SameSoFar
      <4> QED
        BY <1>5, <2>7, <2>8, <4>1, CloseMatches
    <3>4. SameSoFar(V[i + 1], W[i + 1], now)
      BY <2>6, <3>1, <3>2, <3>3 DEF SameSoFar
    <3> QED
      BY <2>1, <3>4
  <2> QED
    BY <2>9, <2>10
<1>8. 0..n \subseteq T
  <2> HIDE DEF T
  <2> QED
    BY <1>6, <1>7, BoundedInduction
<1>9. \A i \in 0..n : SameSoFar(V[i], W[i], now)
  BY <1>8
<1>10. ASSUME V = WalkIntervals(ev, now)
       PROVE  TotalMs(DeriveBillingIntervals(ev, now), 0, now) = ClosedAt(W[n], now)
  <2>1. PICK v, w : v = V[n] /\ w = W[n]
    OBVIOUS
  <2>2. SameSoFar(v, w, now) /\ w.since \in Nat /\ w.since <= now
    BY <1>4, <1>9, <2>1
  <2>3. DeriveBillingIntervals(ev, now) = CloseOpen(v.ivs, v.phase, v.since, now)
    BY <1>1, <1>10, <2>1 DEF DeriveBillingIntervals
  <2>4. v.ivs \in Seq(MsInterval) /\ v.phase \in Phases /\ v.phase = w.phase /\ v.since = w.since
        /\ TotalMs(v.ivs, 0, now) = w.totals
    BY <2>2 DEF SameSoFar, IntervalState
  <2>5. TotalMs(CloseOpen(v.ivs, v.phase, v.since, now), 0, now) = FoldOpen(w.totals, w.phase, w.since, now)
    <3>1. now <= now
      BY <1>5
    <3> QED
      BY <1>5, <2>2, <2>4, <3>1, CloseMatches
  <2> QED
    BY <2>1, <2>3, <2>5 DEF ClosedAt
<1> QED
  BY <1>1, <1>9, <1>10

\* The ticks of a window that a ledger bills in a bucket.
Billed(p, b) == p \in DOMAIN Bucket /\ Bucket[p] = b
Ticks(ev, from, to, b) == {t \in from..(to - 1) : Billed(DeriveBillingState(ev, t).phase, b)}

\* A phase holds at every instant from its event to the next.
LEMMA PhaseHolds ==
    ASSUME NEW ev, NEW now, InOrder(ev, now), NEW W, Whole(ev, W),
           NEW i \in 0..Len(ev), NEW t \in Nat, W[i].since <= t,
           i < Len(ev) => t < ev[i + 1].at
    PROVE  DeriveBillingState(ev, t).phase = W[i].phase
<1>1. PICK n \in Nat : n = Len(ev)
  BY DEF InOrder
<1>2. PICK k : Cut(ev, t, k)
  BY CutExists
<1>3. k \in 0..n /\ k <= i
  <2>1. k \in 0..n /\ \A j \in 1..n : ev[j].at <= t <=> j <= k
    BY <1>1, <1>2 DEF Cut
  <2>2. CASE i = n
    BY <2>1, <2>2
  <2>3. CASE i # n
    <3>1. i + 1 \in 1..n /\ t < ev[i + 1].at /\ ev[i + 1].at \in Nat
      BY <1>1, <2>3 DEF InOrder
    <3>2. ~(ev[i + 1].at <= t)
      BY <3>1
    <3> QED
      BY <1>1, <2>1, <3>1, <3>2
  <2> QED
    BY <2>2, <2>3
<1>4. W[k].phase = W[i].phase
  BY <1>1, <1>2, <1>3, WalkSince
<1>5. WalkBilling(ev, -1, t, NotBegun) = W[k]
  BY <1>2, WalkToCut
<1> QED
  BY <1>4, <1>5 DEF DeriveBillingState

\* The ticks of one more phase are those it held.
LEMMA MoreTicks ==
    ASSUME NEW ev, NEW p, NEW b, NEW s \in Nat, NEW e \in Nat, NEW from \in Nat, NEW now \in Nat,
           s <= e, e <= now, IsFiniteSet(Ticks(ev, from, s, b)),
           \A t \in Nat : s <= t /\ t < e => DeriveBillingState(ev, t).phase = p
    PROVE  /\ IsFiniteSet(Ticks(ev, from, e, b))
           /\ Cardinality(Ticks(ev, from, e, b))
                = Cardinality(Ticks(ev, from, s, b)) + Held(p, b, s, e, from, now)
<1>1. PICK old, new : old = Ticks(ev, from, s, b) /\ new = Ticks(ev, from, e, b)
  OBVIOUS
<1>2. Cardinality(old) \in Nat
  BY <1>1, FS_CardinalityType
<1>3. CASE ~Billed(p, b)
  <2>1. new = old
    <3>1. \A t : t \in new => t \in old
      BY <1>1, <1>3 DEF Ticks
    <3>2. \A t : t \in old => t \in new
      BY <1>1 DEF Ticks
    <3> QED
      BY <3>1, <3>2
  <2>2. Held(p, b, s, e, from, now) = 0
    BY <1>3 DEF Held, Billed
  <2> QED
    BY <1>1, <1>2, <2>1, <2>2
<1>4. CASE Billed(p, b)
  <2>1. PICK a \in Nat : a = IF s < from THEN from ELSE s
    OBVIOUS
  <2>2. new = old \union (a..(e - 1))
    <3>1. \A t : t \in new => t \in old \/ t \in a..(e - 1)
      BY <1>1, <2>1 DEF Ticks
    <3>2. \A t : t \in old => t \in new
      BY <1>1 DEF Ticks
    <3>3. \A t : t \in a..(e - 1) => t \in new
      BY <1>1, <1>4, <2>1 DEF Ticks
    <3> QED
      BY <3>1, <3>2, <3>3
  <2>3. old \cap (a..(e - 1)) = {}
    BY <1>1, <2>1 DEF Ticks
  <2>4. a \in Int /\ e - 1 \in Int
    BY <2>1
  <2>5. IsFiniteSet(a..(e - 1)) /\ Cardinality(a..(e - 1)) = IF a > e - 1 THEN 0 ELSE (e - 1) - a + 1
    BY ONLY <2>4, FS_Interval
  <2>6. Held(p, b, s, e, from, now) = IF a > e - 1 THEN 0 ELSE (e - 1) - a + 1
    <3>1. Held(p, b, s, e, from, now) = ClippedMs([bucket |-> b, from |-> s, to |-> e], from, now)
      BY <1>4 DEF Held, Billed
    <3>2. ClippedMs([bucket |-> b, from |-> s, to |-> e], from, now)
            = IF e > a THEN e - a ELSE 0
      BY <2>1 DEF ClippedMs
    <3>3. (IF e > a THEN e - a ELSE 0) = IF a > e - 1 THEN 0 ELSE (e - 1) - a + 1
      BY <2>1
    <3> QED
      BY ONLY <3>1, <3>2, <3>3
  <2>7. /\ IsFiniteSet(old \union (a..(e - 1)))
        /\ Cardinality(old \union (a..(e - 1)))
             = Cardinality(old) + Cardinality(a..(e - 1)) - Cardinality(old \cap (a..(e - 1)))
    BY <1>1, <2>5, FS_Union
  <2>8. Cardinality(old \cap (a..(e - 1))) = 0
    BY <2>3, FS_EmptySet
  <2>9. Cardinality(a..(e - 1)) = Held(p, b, s, e, from, now) /\ Cardinality(a..(e - 1)) \in Nat
    BY <2>5, <2>6, FS_CardinalityType
  <2> QED
    BY <1>1, <1>2, <2>2, <2>7, <2>8, <2>9
<1> QED
  BY <1>3, <1>4

LEMMA NoTicks ==
    ASSUME NEW ev, NEW b, NEW from \in Nat
    PROVE  IsFiniteSet(Ticks(ev, from, 0, b)) /\ Cardinality(Ticks(ev, from, 0, b)) = 0
<1>1. Ticks(ev, from, 0, b) = {}
  BY DEF Ticks
<1> QED
  BY <1>1, FS_EmptySet

Counts(ev, v, from, now, b) ==
    /\ IsFiniteSet(Ticks(ev, from, v.since, b))
    /\ TotalMs(v.ivs, from, now)[b] = Cardinality(Ticks(ev, from, v.since, b))

\* Whatever the window, the intervals hold the ticks that the phases bill.
LEMMA IntervalsCountTicks ==
    ASSUME NEW ev, NEW now, InOrder(ev, now), NEW from \in Nat, NEW b \in Buckets
    PROVE  TotalMs(DeriveBillingIntervals(ev, now), from, now)[b] = Cardinality(Ticks(ev, from, now, b))
<1>1. PICK n \in Nat : n = Len(ev)
  BY DEF InOrder
<1>2. PICK W : Whole(ev, W)
  BY WholeWalk
<1>3. PICK V : V = WalkIntervals(ev, now) /\ IntervalSteps(ev, now, V)
  BY IntervalsUnfold DEF InOrder
<1>4. V \in [0..n -> IntervalState] /\ \A i \in 0..n : V[i].phase = W[i].phase /\ V[i].since = W[i].since
  <2>1. \A i \in 0..n : SameSoFar(V[i], W[i], now)
    BY <1>1, <1>2, <1>3, IntervalsFollowWalk
  <2> QED
    BY <1>1, <1>3, <2>1 DEF SameSoFar, IntervalSteps
<1>5. \A i \in 0..n : V[i].since \in Nat /\ V[i].since <= now
                      /\ \A j \in 1..n : i < j => V[i].since <= ev[j].at
  BY <1>1, <1>2, <1>4, WalkSince
<1>6. now \in Nat /\ \A i \in 1..n : ev[i].at \in Nat /\ ev[i].at <= now
  BY <1>1 DEF InOrder
<1>7. \A i \in 0..n : V[i].ivs \in Seq(MsInterval) /\ V[i].phase \in Phases
  BY <1>4 DEF IntervalState
\* What closing the open interval of state i at an instant before the next event adds.
<1>8. ASSUME NEW i \in 0..n, NEW e \in Nat, Counts(ev, V[i], from, now, b),
             V[i].since <= e, e <= now, i < n => e <= ev[i + 1].at
      PROVE  /\ IsFiniteSet(Ticks(ev, from, e, b))
             /\ TotalMs(CloseOpen(V[i].ivs, V[i].phase, V[i].since, e), from, now)[b]
                  = Cardinality(Ticks(ev, from, e, b))
  <2>1. PICK s \in Nat, p \in Phases, ivs \in Seq(MsInterval) :
          s = V[i].since /\ p = V[i].phase /\ ivs = V[i].ivs
    BY <1>5, <1>7
  <2>2. \A t \in Nat : s <= t /\ t < e => DeriveBillingState(ev, t).phase = p
    <3> SUFFICES ASSUME NEW t \in Nat, s <= t, t < e
                 PROVE  DeriveBillingState(ev, t).phase = p
      OBVIOUS
    <3>1. i < n => t < ev[i + 1].at
      <4>1. i < n => i + 1 \in 1..n
        BY <1>1
      <4> QED
        BY <1>6, <1>8, <4>1
    <3>2. W[i].since <= t /\ W[i].phase = p
      BY <1>4, <2>1
    <3> QED
      BY <1>1, <1>2, <3>1, <3>2, PhaseHolds
  <2>3. IsFiniteSet(Ticks(ev, from, s, b)) /\ TotalMs(ivs, from, now)[b] = Cardinality(Ticks(ev, from, s, b))
    BY <1>8, <2>1 DEF Counts
  <2>4. s <= e /\ e <= now
    BY <1>8, <2>1
  <2>5. /\ IsFiniteSet(Ticks(ev, from, e, b))
        /\ Cardinality(Ticks(ev, from, e, b))
             = Cardinality(Ticks(ev, from, s, b)) + Held(p, b, s, e, from, now)
    BY <1>6, <2>2, <2>3, <2>4, MoreTicks
  <2>6. TotalMs(CloseOpen(ivs, p, s, e), from, now)[b]
          = TotalMs(ivs, from, now)[b] + Held(p, b, s, e, from, now)
    <3>1. Closes(TotalMs(CloseOpen(ivs, p, s, e), from, now), TotalMs(ivs, from, now), p, s, e, from, now)
      BY <1>6, TotalOfClose
    <3> QED
      BY <3>1 DEF Closes
  <2> QED
    BY <2>1, <2>3, <2>5, <2>6
<1> DEFINE T == {i \in 0..n : Counts(ev, V[i], from, now, b)}
<1>9. 0 \in T
  <2>1. V[0] = [ivs |-> <<>>, phase |-> "none", since |-> 0]
    BY <1>3 DEF IntervalSteps
  <2>2. TotalMs(<<>>, from, now)[b] = 0
    BY <1>6, NoIntervals DEF NoTotals, Buckets
  <2> QED
    BY <1>1, <2>1, <2>2, NoTicks DEF Counts
<1>10. ASSUME NEW i \in 0..n, i \in T, i < n
       PROVE  i + 1 \in T
  <2>1. i + 1 \in 1..n /\ i + 1 \in 0..n /\ (i + 1) - 1 = i
    BY <1>10
  <2>2. PICK v, e : v = V[i] /\ e = ev[i + 1]
    OBVIOUS
  <2>3. Counts(ev, v, from, now, b)
    BY <1>10, <2>2
  <2>4. \/ V[i + 1] = v
        \/ V[i + 1] = [ivs |-> CloseOpen(v.ivs, v.phase, v.since, e.at),
                       phase |-> NextPhase(v.phase, e.action), since |-> e.at]
    BY <1>1, <1>3, <2>1, <2>2 DEF IntervalSteps
  <2>5. CASE V[i + 1] = v
    BY <2>1, <2>3, <2>5
  <2>6. CASE V[i + 1] = [ivs |-> CloseOpen(v.ivs, v.phase, v.since, e.at),
                         phase |-> NextPhase(v.phase, e.action), since |-> e.at]
    <3>1. e.at \in Nat /\ v.since <= e.at /\ e.at <= now /\ (i < n => e.at <= ev[i + 1].at)
      BY <1>5, <1>6, <2>1, <2>2
    <3>2. /\ IsFiniteSet(Ticks(ev, from, e.at, b))
          /\ TotalMs(CloseOpen(v.ivs, v.phase, v.since, e.at), from, now)[b]
               = Cardinality(Ticks(ev, from, e.at, b))
      BY <1>8, <2>2, <2>3, <3>1
    <3>3. Counts(ev, V[i + 1], from, now, b)
      BY <2>6, <3>2 DEF Counts
    <3> QED
      BY <2>1, <3>3
  <2> QED
    BY <2>4, <2>5, <2>6
<1>11. 0..n \subseteq T
  <2> HIDE DEF T
  <2> QED
    BY <1>9, <1>10, BoundedInduction
<1>12. n \in 0..n /\ Counts(ev, V[n], from, now, b)
  BY <1>11
<1>13. V[n].since <= now /\ now <= now /\ (n < n => now <= ev[n + 1].at)
  BY <1>5, <1>6, <1>12
<1>14. TotalMs(CloseOpen(V[n].ivs, V[n].phase, V[n].since, now), from, now)[b]
         = Cardinality(Ticks(ev, from, now, b))
  BY <1>6, <1>8, <1>12, <1>13
<1> QED
  BY <1>1, <1>3, <1>14 DEF DeriveBillingIntervals

LEMMA DerivedType ==
    ASSUME NEW ev, NEW now, InOrder(ev, now), NEW from \in Nat
    PROVE  TotalMs(DeriveBillingIntervals(ev, now), from, now) \in MsTotals
<1>1. PICK V : V = WalkIntervals(ev, now) /\ IntervalSteps(ev, now, V)
  BY IntervalsUnfold DEF InOrder
<1>2. PICK v \in IntervalState : v = V[Len(ev)]
  BY <1>1 DEF IntervalSteps, InOrder
<1>3. v.ivs \in Seq(MsInterval) /\ v.phase \in Phases /\ v.since \in Nat /\ now \in Nat
  BY DEF IntervalState, InOrder
<1>4. DeriveBillingIntervals(ev, now) = CloseOpen(v.ivs, v.phase, v.since, now)
  BY <1>1, <1>2 DEF DeriveBillingIntervals
<1>5. Closes(TotalMs(CloseOpen(v.ivs, v.phase, v.since, now), from, now), TotalMs(v.ivs, from, now),
             v.phase, v.since, now, from, now)
  BY <1>3, TotalOfClose
<1> QED
  BY <1>4, <1>5 DEF Closes

\* The first half of ReportsExact, of any ledger.
LEMMA EveryWindowIsExact ==
    ASSUME NEW ev, NEW now, InOrder(ev, now), NEW from \in Nat
    PROVE  TotalMs(DeriveBillingIntervals(ev, now), from, now)
             = [b \in DOMAIN NoTotals |-> Cardinality(Ticks(ev, from, now, b))]
<1>1. PICK t \in MsTotals : t = TotalMs(DeriveBillingIntervals(ev, now), from, now)
  BY DerivedType
<1>2. DOMAIN NoTotals = Buckets
  BY DEF NoTotals, Buckets
<1>3. \A b \in Buckets : t[b] = Cardinality(Ticks(ev, from, now, b))
  BY <1>1, IntervalsCountTicks
<1>4. t = [b \in Buckets |-> t[b]]
  BY DEF MsTotals, Buckets
<1> QED
  BY <1>1, <1>2, <1>3, <1>4

\* Folding an open interval in two parts is folding it at once.
LEMMA FoldTwice ==
    ASSUME NEW t \in MsTotals, NEW p \in Phases, NEW s \in Nat, NEW c \in Nat, NEW e \in Nat,
           s <= c, c <= e
    PROVE  FoldOpen(FoldOpen(t, p, s, c), p, c, e) = FoldOpen(t, p, s, e)
<1>1. PICK u : u = FoldOpen(t, p, s, c)
  OBVIOUS
<1>2. /\ u \in MsTotals
      /\ \A b \in Buckets : u[b] = t[b] + IF p \in DOMAIN Bucket /\ Bucket[p] = b /\ c > s THEN c - s ELSE 0
  BY <1>1, FoldAdds DEF Adds
<1>3. PICK v : v = FoldOpen(u, p, c, e)
  OBVIOUS
<1>4. /\ v \in MsTotals
      /\ \A b \in Buckets : v[b] = u[b] + IF p \in DOMAIN Bucket /\ Bucket[p] = b /\ e > c THEN e - c ELSE 0
  <2>1. Adds(v, u, p, c, e)
    BY ONLY <1>2, <1>3, FoldAdds, p \in Phases, c \in Nat, e \in Nat
  <2> QED
    BY ONLY <2>1 DEF Adds
<1>5. PICK x : x = FoldOpen(t, p, s, e)
  OBVIOUS
<1>6. /\ x \in MsTotals
      /\ \A b \in Buckets : x[b] = t[b] + IF p \in DOMAIN Bucket /\ Bucket[p] = b /\ e > s THEN e - s ELSE 0
  BY <1>5, FoldAdds DEF Adds
<1>7. \A b \in Buckets : t[b] \in Nat
  BY DEF MsTotals, Buckets
<1>8. \A b \in Buckets : v[b] = x[b]
  BY <1>2, <1>4, <1>6, <1>7
<1>9. v = x
  BY <1>4, <1>6, <1>8 DEF MsTotals, Buckets
<1> QED
  BY <1>1, <1>3, <1>5, <1>9

\* No phase the walk has reached by an instant begins after it.
LEMMA SinceBeforeCut ==
    ASSUME NEW ev, NEW now, InOrder(ev, now), NEW W, Whole(ev, W), NEW t \in Nat, NEW k, Cut(ev, t, k)
    PROVE  W[k].since \in Nat /\ W[k].since <= t
<1>1. PICK n \in Nat : n = Len(ev)
  BY DEF InOrder
<1>2. W[0] = NotBegun /\ \A i \in 1..n : W[i] = WalkEvent(W[i - 1], ev[i])
  BY <1>1 DEF Whole
<1>3. k \in 0..n /\ \A i \in 1..n : i <= k => ev[i].at <= t /\ ev[i].at \in Nat
  BY <1>1 DEF Cut, InOrder
<1> DEFINE T == {i \in 0..k : W[i].since \in Nat /\ W[i].since <= t}
<1>4. 0 \in T
  BY <1>2, <1>3 DEF NotBegun
<1>5. ASSUME NEW i \in 0..k, i \in T, i < k
      PROVE  i + 1 \in T
  <2>1. i + 1 \in 1..n /\ (i + 1) - 1 = i /\ i + 1 <= k /\ i + 1 \in 0..k
    BY <1>3, <1>5
  <2>2. W[i + 1] = WalkEvent(W[i], ev[i + 1])
    BY <1>2, <2>1
  <2>3. W[i + 1] = W[i] \/ W[i + 1].since = ev[i + 1].at
    BY <2>2 DEF WalkEvent
  <2>4. ev[i + 1].at <= t /\ ev[i + 1].at \in Nat
    BY <1>3, <2>1
  <2> QED
    BY <1>5, <2>1, <2>3, <2>4
<1>6. k \in Nat
  BY <1>3
<1>7. 0..k \subseteq T
  <2> HIDE DEF T
  <2> QED
    BY <1>4, <1>5, <1>6, BoundedInduction
<1>8. k \in T
  <2> HIDE DEF T
  <2> QED
    BY <1>6, <1>7
<1> QED
  BY <1>8

\* A terminated workspace stays so.
LEMMA TerminatedStays ==
    ASSUME NEW ev, NEW W, Whole(ev, W), Len(ev) \in Nat, NEW k \in 0..Len(ev),
           W[k].phase = "terminated"
    PROVE  W[Len(ev)] = W[k]
<1>1. PICK n \in Nat : n = Len(ev)
  OBVIOUS
<1>2. \A i \in 1..n : W[i] = WalkEvent(W[i - 1], ev[i])
  BY <1>1 DEF Whole
<1> DEFINE T == {i \in 0..n : k <= i => W[i] = W[k]}
<1>3. 0 \in T
  BY <1>1
<1>4. ASSUME NEW i \in 0..n, i \in T, i < n
      PROVE  i + 1 \in T
  <2>1. i + 1 \in 1..n /\ (i + 1) - 1 = i /\ i + 1 \in 0..n
    BY <1>4
  <2>2. CASE k <= i
    <3>1. W[i + 1] = WalkEvent(W[i], ev[i + 1]) /\ W[i] = W[k]
      BY <1>2, <1>4, <2>1, <2>2
    <3>2. W[i + 1] = W[k]
      BY <3>1 DEF WalkEvent
    <3> QED
      BY <2>1, <3>2
  <2>3. CASE ~(k <= i)
    <3>1. k <= i + 1 => i + 1 = k
      BY <1>1, <2>1, <2>3
    <3> QED
      BY <2>1, <3>1
  <2> QED
    BY <2>2, <2>3
<1>5. 0..n \subseteq T
  <2> HIDE DEF T
  <2> QED
    BY <1>3, <1>4, BoundedInduction
<1> QED
  BY <1>1, <1>5

\* What a walk resumed at a checkpoint has in common with the whole one: they are
\* the same, or the phase began before the checkpoint and was closed there.
Resumed(r, w, cut) ==
    \/ r = w
    \/ /\ w.since <= cut
       /\ r = [totals |-> FoldOpen(w.totals, w.phase, w.since, cut), phase |-> w.phase, since |-> cut]

LEMMA ResumedStep ==
    ASSUME NEW r, NEW w \in WalkState, NEW cut \in Nat, NEW e \in Event, Resumed(r, w, cut), cut < e.at
    PROVE  Resumed(WalkEvent(r, e), WalkEvent(w, e), cut)
<1>1. CASE r = w
  BY <1>1 DEF Resumed
<1>2. CASE /\ w.since <= cut
           /\ r = [totals |-> FoldOpen(w.totals, w.phase, w.since, cut), phase |-> w.phase, since |-> cut]
  <2>1. w.phase \in Phases /\ w.totals \in MsTotals /\ w.since \in Nat /\ e.at \in Nat /\ cut <= e.at
    BY DEF WalkState, Event
  <2>2. r.phase = w.phase /\ r.since = cut /\ r.totals = FoldOpen(w.totals, w.phase, w.since, cut)
    BY <1>2
  <2>3. CASE w.phase = "terminated" \/ NextPhase(w.phase, e.action) = w.phase
    <3>1. WalkEvent(r, e) = r /\ WalkEvent(w, e) = w
      BY <2>2, <2>3 DEF WalkEvent
    <3> QED
      BY <3>1
  <2>4. CASE ~(w.phase = "terminated" \/ NextPhase(w.phase, e.action) = w.phase)
    <3>1. WalkEvent(r, e) = [totals |-> FoldOpen(r.totals, w.phase, cut, e.at),
                             phase |-> NextPhase(w.phase, e.action), since |-> e.at]
      BY <2>2, <2>4 DEF WalkEvent
    <3>2. WalkEvent(w, e) = [totals |-> FoldOpen(w.totals, w.phase, w.since, e.at),
                             phase |-> NextPhase(w.phase, e.action), since |-> e.at]
      BY <2>4 DEF WalkEvent
    <3>3. FoldOpen(r.totals, w.phase, cut, e.at) = FoldOpen(w.totals, w.phase, w.since, e.at)
      BY <1>2, <2>1, <2>2, FoldTwice
    <3> QED
      BY <3>1, <3>2, <3>3 DEF Resumed
  <2> QED
    BY <2>3, <2>4
<1> QED
  BY <1>1, <1>2 DEF Resumed

LEMMA ResumedEnd ==
    ASSUME NEW r, NEW w \in WalkState, NEW cut \in Nat, NEW now \in Nat, Resumed(r, w, cut), cut <= now
    PROVE  ClosedAt(r, now) = ClosedAt(w, now)
<1>1. CASE r = w
  BY <1>1
<1>2. CASE /\ w.since <= cut
           /\ r = [totals |-> FoldOpen(w.totals, w.phase, w.since, cut), phase |-> w.phase, since |-> cut]
  <2>1. w.phase \in Phases /\ w.totals \in MsTotals /\ w.since \in Nat
    BY DEF WalkState
  <2>2. FoldOpen(FoldOpen(w.totals, w.phase, w.since, cut), w.phase, cut, now)
          = FoldOpen(w.totals, w.phase, w.since, now)
    BY <1>2, <2>1, FoldTwice
  <2> QED
    BY <1>2, <2>2 DEF ClosedAt
<1> QED
  BY <1>1, <1>2 DEF Resumed

\* A checkpoint that has seen every event up to its instant holds the state there.
LEMMA PrefixState ==
    ASSUME NEW ev, NEW now, InOrder(ev, now), NEW W, Whole(ev, W), NEW t \in Nat, NEW k, Cut(ev, t, k),
           NEW seen \in 0..Len(ev), k <= seen
    PROVE  DeriveBillingState(SubSeq(ev, 1, seen), t)
             = [totals |-> ClosedAt(W[k], t), phase |-> W[k].phase]
<1>1. PICK n \in Nat : n = Len(ev)
  BY DEF InOrder
<1>2. PICK pre : pre = SubSeq(ev, 1, seen)
  OBVIOUS
<1>3. pre \in Seq(Event) /\ Len(pre) = seen /\ \A i \in 1..seen : pre[i] = ev[i]
  BY <1>1, <1>2 DEF InOrder
<1>4. \A i \in 1..seen : i \in 1..n
  BY <1>1
<1>5. InOrder(pre, now)
  BY <1>1, <1>3, <1>4 DEF InOrder
<1>6. PICK P : P = [i \in 0..seen |-> W[i]]
  OBVIOUS
<1>7. Whole(pre, P)
  <2>1. P \in [0..seen -> WalkState] /\ P[0] = NotBegun
    <3>1. seen \in 0..n /\ W \in [0..n -> WalkState] /\ W[0] = NotBegun
      BY <1>1 DEF Whole
    <3>2. \A i \in 0..seen : W[i] \in WalkState
      BY <3>1
    <3>3. 0 \in 0..seen
      BY <3>1
    <3> QED
      BY <1>6, <3>1, <3>2, <3>3
  <2>2. \A i \in 1..seen : P[i] = WalkEvent(P[i - 1], pre[i])
    <3> TAKE i \in 1..seen
    <3>1. P[i] = W[i] /\ P[i - 1] = W[i - 1] /\ pre[i] = ev[i] /\ i \in 1..n
      BY <1>1, <1>3, <1>6
    <3>2. W[i] = WalkEvent(W[i - 1], ev[i])
      BY <1>1, <3>1 DEF Whole
    <3> QED
      BY <3>1, <3>2
  <2> QED
    BY <1>3, <2>1, <2>2 DEF Whole
<1>8. k \in 0..seen
  BY <1>1 DEF Cut
<1>9. Cut(pre, t, k)
  BY <1>1, <1>3, <1>4, <1>8 DEF Cut
<1>10. WalkBilling(pre, -1, t, NotBegun) = P[k]
  BY <1>5, <1>7, <1>9, WalkToCut
<1>11. P[k] = W[k]
  BY <1>6, <1>8
<1> QED
  BY <1>2, <1>10, <1>11 DEF DeriveBillingState

\* Replaying the tail from a checkpoint prices the workspace as the whole ledger does.
LEMMA ResumeIsExact ==
    ASSUME NEW ev, NEW now, InOrder(ev, now), NEW W, Whole(ev, W),
           NEW cut \in Nat, cut <= now, NEW k, Cut(ev, cut, k),
           NEW old \in Nat, old <= cut, NEW m, Cut(ev, old, m)
    PROVE  ResumeBilling([totals |-> ClosedAt(W[k], cut), phase |-> W[k].phase], cut,
                         SubSeq(ev, m + 1, Len(ev)), now) = ClosedAt(W[Len(ev)], now)
<1>1. PICK n \in Nat : n = Len(ev)
  BY DEF InOrder
<1>2. /\ W \in [0..n -> WalkState] /\ W[0] = NotBegun
      /\ \A i \in 1..n : W[i] = WalkEvent(W[i - 1], ev[i])
  BY <1>1 DEF Whole
<1>3. k \in 0..n /\ m \in 0..n /\ now \in Nat
  BY <1>1 DEF Cut, InOrder
<1>4. \A i \in 1..n : /\ ev[i] \in Event /\ ev[i].at \in Nat /\ ev[i].at <= now
                      /\ ev[i].at <= cut <=> i <= k
                      /\ ev[i].at <= old <=> i <= m
  BY <1>1, ElementOfSeq DEF InOrder, Cut
<1>5. m <= k
  <2>1. CASE m = 0
    BY <1>3, <2>1
  <2>2. CASE m # 0
    <3>1. m \in 1..n
      BY <1>3, <2>2
    <3>2. ev[m].at <= old /\ ev[m].at \in Nat
      BY <1>3, <1>4, <3>1
    <3>3. ev[m].at <= cut
      BY <3>2
    <3> QED
      BY <1>4, <3>1, <3>3
  <2> QED
    BY <2>1, <2>2
<1>6. PICK st : st = [totals |-> ClosedAt(W[k], cut), phase |-> W[k].phase]
  OBVIOUS
<1>7. W[k] \in WalkState /\ W[k].phase \in Phases /\ W[k].totals \in MsTotals /\ W[k].since \in Nat
      /\ W[k].since <= cut
  <2>1. W[k].since <= cut
    BY SinceBeforeCut
  <2> QED
    BY <1>2, <1>3, <2>1 DEF WalkState
<1>8. CASE W[k].phase = "terminated"
  <2>1. W[n] = W[k]
    BY <1>1, <1>3, <1>8, TerminatedStays
  <2>2. \A x : ClosedAt(W[k], x) = W[k].totals
    BY <1>8, PhaseFacts DEF ClosedAt, FoldOpen
  <2>3. ResumeBilling(st, cut, SubSeq(ev, m + 1, Len(ev)), now) = st.totals
    BY <1>6, <1>8 DEF ResumeBilling
  <2> QED
    BY <1>1, <1>6, <2>1, <2>2, <2>3
<1>9. CASE W[k].phase # "terminated"
  <2>1. PICK tail : tail = SubSeq(ev, m + 1, n)
    OBVIOUS
  <2>2. /\ tail \in Seq(Event) /\ Len(tail) = n - m /\ n - m \in Nat
        /\ \A i \in 1..n - m : tail[i] = ev[m + i]
    BY <1>1, <1>3, <2>1 DEF InOrder
  <2>3. PICK init : init = [totals |-> st.totals, phase |-> st.phase, since |-> cut]
    OBVIOUS
  <2>4. init \in WalkState /\ Resumed(init, W[k], cut)
    <3>1. st.totals = FoldOpen(W[k].totals, W[k].phase, W[k].since, cut) /\ st.phase = W[k].phase
      BY <1>6 DEF ClosedAt
    <3>2. st.totals \in MsTotals
      BY <1>7, <3>1, FoldOpenType
    <3> QED
      BY <1>7, <2>3, <3>1, <3>2 DEF WalkState, Resumed
  <2>5. PICK R : R = Walk(tail, cut, now, init)
    OBVIOUS
  <2>6. /\ R[0] = init
        /\ \A j \in 1..n - m : R[j] = IF k < m + j THEN WalkEvent(R[j - 1], ev[m + j]) ELSE R[j - 1]
    <3>1. WalkSteps(tail, cut, now, init, R)
      BY <2>2, <2>4, <2>5, WalkUnfolds
    <3>2. \A j \in 1..n - m : (cut < tail[j].at /\ tail[j].at <= now) <=> k < m + j
      <4> TAKE j \in 1..n - m
      <4>1. m + j \in 1..n
        BY <1>3
      <4>2. /\ ev[m + j].at \in Nat /\ ev[m + j].at <= now
            /\ ev[m + j].at <= cut <=> m + j <= k
        BY <1>4, <4>1
      <4>3. tail[j] = ev[m + j]
        BY <2>2
      <4> QED
        BY <1>3, <4>1, <4>2, <4>3
    <3>3. /\ R[0] = init
          /\ \A j \in 1..n - m : R[j] = IF cut < tail[j].at /\ tail[j].at <= now
                                        THEN WalkEvent(R[j - 1], tail[j]) ELSE R[j - 1]
      BY <2>2, <3>1 DEF WalkSteps
    <3> QED
      BY <2>2, <3>2, <3>3
  <2> DEFINE T == {j \in 0..n - m : Resumed(R[j], W[IF m + j <= k THEN k ELSE m + j], cut)}
  <2>7. 0 \in T
    BY <1>3, <1>5, <2>4, <2>6
  <2>8. ASSUME NEW j \in 0..n - m, j \in T, j < n - m
        PROVE  j + 1 \in T
    <3>1. j + 1 \in 1..n - m /\ (j + 1) - 1 = j /\ m + (j + 1) \in 1..n /\ j + 1 \in 0..n - m
          /\ (m + (j + 1)) - 1 = m + j /\ m + j \in 0..n
      BY <1>3, <2>8
    <3>2. R[j + 1] = IF k < m + (j + 1) THEN WalkEvent(R[j], ev[m + (j + 1)]) ELSE R[j]
      BY <2>6, <3>1
    <3>3. CASE m + (j + 1) <= k
      <4>1. ~(k < m + (j + 1)) /\ m + j <= k
        BY <1>3, <3>1, <3>3
      <4>2. Resumed(R[j], W[k], cut) /\ R[j + 1] = R[j]
        BY <2>8, <3>2, <4>1
      <4> QED
        BY <3>1, <3>3, <4>2
    <3>4. CASE ~(m + (j + 1) <= k)
      <4>1. k < m + (j + 1) /\ (m + j <= k => m + j = k)
        BY <1>3, <3>1, <3>4
      <4>2. Resumed(R[j], W[m + j], cut)
        BY <2>8, <4>1
      <4>3. PICK e : e = ev[m + (j + 1)]
        OBVIOUS
      <4>4. e \in Event /\ cut < e.at
        BY <1>4, <3>1, <3>4, <4>3
      <4>5. W[m + (j + 1)] = WalkEvent(W[m + j], e) /\ W[m + j] \in WalkState
        BY <1>2, <3>1, <4>3
      <4>6. R[j + 1] = WalkEvent(R[j], e)
        BY <3>2, <4>1, <4>3
      <4>7. Resumed(R[j + 1], W[m + (j + 1)], cut)
        BY <4>2, <4>4, <4>5, <4>6, ResumedStep
      <4> QED
        BY <3>1, <3>4, <4>7
    <3> QED
      BY <3>3, <3>4
  <2>9. 0..n - m \subseteq T
    <3> HIDE DEF T
    <3> QED
      BY <2>2, <2>7, <2>8, BoundedInduction
  <2>10. Resumed(R[n - m], W[n], cut)
    <3>1. n - m \in 0..n - m /\ m + (n - m) = n
      BY <1>3, <2>2
    <3>2. Resumed(R[n - m], W[IF m + (n - m) <= k THEN k ELSE m + (n - m)], cut)
      BY <2>9, <3>1
    <3>3. (IF m + (n - m) <= k THEN k ELSE m + (n - m)) = n
      BY <1>3, <3>1
    <3> QED
      BY <3>2, <3>3
  <2>11. ClosedAt(R[n - m], now) = ClosedAt(W[n], now)
    <3>1. W[n] \in WalkState
      BY <1>2
    <3> QED
      BY <1>3, <2>10, <3>1, ResumedEnd
  <2>12. ResumeBilling(st, cut, tail, now) = ClosedAt(WalkBilling(tail, cut, now, init), now)
    BY <1>6, <1>9, <2>3 DEF ResumeBilling
  <2>13. WalkBilling(tail, cut, now, init) = R[n - m]
    BY <2>2, <2>5 DEF WalkBilling
  <2> QED
    BY <1>1, <1>6, <2>1, <2>11, <2>12, <2>13
<1> QED
  BY <1>8, <1>9

-----------------------------------------------------------------------------
(* What the ledger, the rows and the rollup in flight always are *)

RowOk(w, r) ==
    /\ r.at \in Nat /\ r.at <= ledgerClock
    /\ r.seen \in 1..Len(ledger[w])
    /\ r.priced => r.state = DeriveBillingState(SubSeq(ledger[w], 1, r.seen), r.at)

FlyingOk(w) ==
    \/ flying[w] = <<>>
    \/ \E e \in Event : /\ flying[w] = <<e>> /\ e.at <= ledgerClock
                        /\ \A i \in 1..Len(ledger[w]) : ledger[w][i].at < e.at

LedgerInv ==
    /\ ledgerClock \in Nat
    /\ ledger \in [Ws -> Seq(Event)] /\ flying \in [Ws -> Seq(Event)]
    /\ \A w \in Ws : InOrder(ledger[w], ledgerClock) /\ FlyingOk(w)

RowsInv ==
    /\ \A w \in Ws : rows[w] = NoCheckpoint \/ RowOk(w, rows[w])
    /\ job.step \in {"idle", "scan", "put"}
    /\ job.step = "scan" => job.at \in Nat /\ job.at <= ledgerClock
    /\ job.step = "put" => \A w \in DOMAIN job.out : w \in Ws /\ RowOk(w, job.out[w])

CostInv == LedgerInv /\ RowsInv

LEMMA CostStart == CostInit => CostInv
<1> SUFFICES ASSUME CostInit
             PROVE  CostInv
  OBVIOUS
<1>1. LedgerInv
  BY DEF CostInit, LedgerInv, InOrder, FlyingOk
<1>2. RowsInv
  BY DEF CostInit, RowsInv, NoJob
<1> QED
  BY <1>1, <1>2 DEF CostInv

LEMMA LedgerMoves == CostInv /\ [CostNext]_costVars => LedgerInv'
<1> SUFFICES ASSUME CostInv, [CostNext]_costVars
             PROVE  LedgerInv'
  OBVIOUS
<1> USE DEF CostInv
<1>1. ASSUME NEW w \in Ws, Record(w)
      PROVE  LedgerInv'
  <2>1. PICK a \in Emits : flying' = [flying EXCEPT ![w] = <<[action |-> a[2], at |-> ledgerClock]>>]
    BY <1>1 DEF Record
  <2>2. PICK e : e = [action |-> a[2], at |-> ledgerClock]
    OBVIOUS
  <2>3. e \in Event /\ e.at = ledgerClock
    <3>1. a[2] \in Actions
      BY DEF Emits, Actions
    <3> QED
      BY <2>2, <3>1 DEF Event, LedgerInv
  <2>4. flying' = [flying EXCEPT ![w] = <<e>>] /\ ledger' = ledger /\ ledgerClock' = ledgerClock
    BY <1>1, <2>1, <2>2 DEF Record
  <2>5. flying' \in [Ws -> Seq(Event)]
    BY <2>3, <2>4 DEF LedgerInv
  <2>6. \A i \in 1..Len(ledger[w]) : ledger[w][i].at < e.at
    <3>1. PICK l \in Seq(Event), n \in Nat : l = ledger[w] /\ n = Len(l)
      BY DEF LedgerInv
    <3>2. \A i, j \in 1..n : /\ i < j => l[i].at < l[j].at
                             /\ l[i].at \in Nat
      BY <3>1 DEF LedgerInv, InOrder
    <3>3. n # 0 => l # <<>> /\ Last(l) = l[n] /\ l[n].at < ledgerClock
      <4>1. n # 0 => l # <<>>
        BY <3>1
      <4>2. l # <<>> => Last(l).at < ledgerClock
        BY <1>1, <3>1 DEF Record
      <4> QED
        BY <3>1, <4>1, <4>2 DEF Last
    <3>4. ledgerClock \in Nat
      BY DEF LedgerInv
    <3>5. \A i \in 1..n : l[i].at < ledgerClock
      <4> TAKE i \in 1..n
      <4>1. CASE i = n
        BY <3>1, <3>3, <4>1
      <4>2. CASE i # n
        <5>1. n \in 1..n /\ i < n /\ n # 0
          BY <3>1, <4>2
        <5>2. l[i].at < l[n].at /\ l[i].at \in Nat /\ l[n].at \in Nat
          BY <3>2, <5>1
        <5> QED
          BY <3>3, <3>4, <5>1, <5>2
      <4> QED
        BY <4>1, <4>2
    <3> QED
      BY <2>3, <3>1, <3>5
  <2>7. \A v \in Ws : FlyingOk(v)'
    <3> TAKE v \in Ws
    <3>1. CASE v = w
      <4>1. flying'[v] = <<e>> /\ e.at <= ledgerClock'
        BY <2>3, <2>4, <3>1 DEF LedgerInv
      <4>2. \A i \in 1..Len(ledger'[v]) : ledger'[v][i].at < e.at
        BY <2>4, <2>6, <3>1
      <4> QED
        BY <2>3, <4>1, <4>2 DEF FlyingOk
    <3>2. CASE v # w
      <4>1. flying'[v] = flying[v]
        BY <2>4, <3>2 DEF LedgerInv
      <4> QED
        BY <2>4, <4>1 DEF LedgerInv, FlyingOk
    <3> QED
      BY <3>1, <3>2
  <2>8. \A v \in Ws : InOrder(ledger[v], ledgerClock)'
    BY <2>4 DEF LedgerInv
  <2> QED
    BY <2>4, <2>5, <2>7, <2>8 DEF LedgerInv
<1>2. ASSUME NEW w \in Ws, Land(w)
      PROVE  LedgerInv'
  <2>1. PICK e \in Event : /\ flying[w] = <<e>> /\ e.at <= ledgerClock
                           /\ \A i \in 1..Len(ledger[w]) : ledger[w][i].at < e.at
    BY <1>2 DEF Land, LedgerInv, FlyingOk
  <2>2. /\ ledger' = [ledger EXCEPT ![w] = @ \o flying[w]] /\ flying' = [flying EXCEPT ![w] = <<>>]
        /\ ledgerClock' = ledgerClock
    BY <1>2 DEF Land
  <2>3. PICK l \in Seq(Event), n \in Nat : l = ledger[w] /\ n = Len(l)
    BY DEF LedgerInv
  <2>4. PICK more : more = l \o <<e>>
    OBVIOUS
  <2>5. more \in Seq(Event) /\ Len(more) = n + 1 /\ more[n + 1] = e /\ \A i \in 1..n : more[i] = l[i]
    BY <2>3, <2>4
  <2>6. ledger' = [ledger EXCEPT ![w] = more]
    BY <2>1, <2>2, <2>3, <2>4
  <2>7. ledger' \in [Ws -> Seq(Event)] /\ flying' \in [Ws -> Seq(Event)]
    BY <2>2, <2>5, <2>6 DEF LedgerInv
  <2>8. InOrder(more, ledgerClock)
    <3>1. e.at \in Nat /\ e.at <= ledgerClock /\ ledgerClock \in Nat
      BY <2>1 DEF LedgerInv, Event
    <3>2. /\ \A i, j \in 1..n : i < j => l[i].at < l[j].at
          /\ \A i \in 1..n : l[i].at \in Nat /\ l[i].at <= ledgerClock /\ l[i].at < e.at
      BY <2>1, <2>3 DEF LedgerInv, InOrder
    <3>3. \A i \in 1..n + 1 : i \in 1..n \/ i = n + 1
      OBVIOUS
    <3>4. \A i \in 1..n + 1 : more[i].at \in Nat /\ more[i].at <= ledgerClock
      BY <2>5, <3>1, <3>2, <3>3
    <3>5. \A i, j \in 1..n + 1 : i < j => more[i].at < more[j].at
      <4> SUFFICES ASSUME NEW i \in 1..n + 1, NEW j \in 1..n + 1, i < j
                   PROVE  more[i].at < more[j].at
        OBVIOUS
      <4>1. i \in 1..n /\ more[i] = l[i]
        BY <2>5
      <4>2. CASE j \in 1..n
        BY <2>5, <3>2, <4>1, <4>2
      <4>3. CASE j = n + 1
        BY <2>5, <3>2, <4>1, <4>3
      <4> QED
        BY <3>3, <4>2, <4>3
    <3> QED
      BY <2>5, <3>1, <3>4, <3>5 DEF InOrder
  <2>9. \A v \in Ws : InOrder(ledger[v], ledgerClock)' /\ FlyingOk(v)'
    <3> TAKE v \in Ws
    <3>1. CASE v = w
      <4>1. ledger'[v] = more /\ flying'[v] = <<>>
        BY <2>2, <2>6, <3>1 DEF LedgerInv
      <4> QED
        BY <2>2, <2>8, <4>1 DEF FlyingOk
    <3>2. CASE v # w
      <4>1. ledger'[v] = ledger[v] /\ flying'[v] = flying[v]
        BY <2>2, <3>2 DEF LedgerInv
      <4> QED
        BY <2>2, <4>1 DEF LedgerInv, FlyingOk
    <3> QED
      BY <3>1, <3>2
  <2> QED
    BY <2>2, <2>7, <2>9 DEF LedgerInv
<1>3. ASSUME CostTick
      PROVE  LedgerInv'
  <2>1. ledgerClock' = ledgerClock + 1 /\ ledger' = ledger /\ flying' = flying /\ ledgerClock \in Nat
    BY <1>3 DEF CostTick, LedgerInv
  <2>2. \A v \in Ws : InOrder(ledger[v], ledgerClock)'
    BY <2>1 DEF LedgerInv, InOrder
  <2>3. \A v \in Ws : FlyingOk(v)'
    <3> TAKE v \in Ws
    <3>1. FlyingOk(v)
      BY DEF LedgerInv
    <3>2. \A e \in Event : e.at <= ledgerClock => e.at <= ledgerClock + 1
      BY <2>1 DEF Event
    <3> QED
      BY <2>1, <3>1, <3>2 DEF FlyingOk
  <2> QED
    BY <2>1, <2>2, <2>3 DEF LedgerInv
<1>4. ASSUME ledgerClock' = ledgerClock, ledger' = ledger, flying' = flying
      PROVE  LedgerInv'
  BY <1>4 DEF LedgerInv, FlyingOk
<1> QED
  BY <1>1, <1>2, <1>3, <1>4 DEF CostNext, RollupIfStale, Rollup, ReplaceRows, costVars

\* Rows computed from the first events of a ledger stay right as it grows.
LEMMA RowKept ==
    ASSUME NEW w, NEW r, RowOk(w, r), ledgerClock \in Nat, ledgerClock' \in Nat,
           ledgerClock <= ledgerClock', ledger[w] \in Seq(Event), ledger'[w] \in Seq(Event),
           Len(ledger[w]) <= Len(ledger'[w]),
           \A i \in 1..Len(ledger[w]) : ledger'[w][i] = ledger[w][i]
    PROVE  /\ r.at \in Nat /\ r.at <= ledgerClock'
           /\ r.seen \in 1..Len(ledger'[w])
           /\ r.priced => r.state = DeriveBillingState(SubSeq(ledger'[w], 1, r.seen), r.at)
<1>1. PICK l \in Seq(Event), more \in Seq(Event), n \in Nat, m \in Nat :
        l = ledger[w] /\ more = ledger'[w] /\ n = Len(l) /\ m = Len(more)
  OBVIOUS
<1>2. n <= m /\ \A i \in 1..n : more[i] = l[i]
  BY <1>1
<1>3. r.seen \in 1..n /\ r.at \in Nat /\ r.at <= ledgerClock
  BY <1>1 DEF RowOk
<1>4. SubSeq(more, 1, r.seen) = SubSeq(l, 1, r.seen)
  <2>1. PICK k \in 1..n : k = r.seen
    BY <1>3
  <2>2. \A i \in 1..k : more[i] = l[i]
    BY <1>2
  <2>3. SubSeq(more, 1, k) = [i \in 1..k |-> more[i]] /\ SubSeq(l, 1, k) = [i \in 1..k |-> l[i]]
    BY <1>1, <1>2
  <2> QED
    BY <2>1, <2>2, <2>3
<1>5. r.seen \in 1..m /\ r.at <= ledgerClock'
  BY <1>2, <1>3
<1>6. r.priced => r.state = DeriveBillingState(SubSeq(l, 1, r.seen), r.at)
  BY <1>1 DEF RowOk
<1> QED
  BY <1>1, <1>3, <1>4, <1>5, <1>6

LEMMA RowsMove == CostInv /\ [CostNext]_costVars => RowsInv'
<1> SUFFICES ASSUME CostInv, [CostNext]_costVars
             PROVE  RowsInv'
  OBVIOUS
<1>1. /\ ledgerClock \in Nat /\ ledgerClock' \in Nat
      /\ \A w \in Ws : ledger[w] \in Seq(Event) /\ ledger'[w] \in Seq(Event)
  BY LedgerMoves DEF CostInv, LedgerInv
\* The clock and the ledger only grow.
<1>2. /\ ledgerClock <= ledgerClock'
      /\ \A w \in Ws : /\ Len(ledger[w]) <= Len(ledger'[w])
                       /\ \A i \in 1..Len(ledger[w]) : ledger'[w][i] = ledger[w][i]
  <2>1. ASSUME NEW w \in Ws, Land(w)
        PROVE  /\ ledgerClock <= ledgerClock'
               /\ \A v \in Ws : /\ Len(ledger[v]) <= Len(ledger'[v])
                                /\ \A i \in 1..Len(ledger[v]) : ledger'[v][i] = ledger[v][i]
    <3>1. ledgerClock' = ledgerClock /\ ledger' = [ledger EXCEPT ![w] = @ \o flying[w]]
      BY <2>1 DEF Land
    <3>2. flying[w] \in Seq(Event) /\ ledger \in [Ws -> Seq(Event)]
      BY DEF CostInv, LedgerInv
    <3>3. ASSUME NEW v \in Ws
          PROVE  /\ Len(ledger[v]) <= Len(ledger'[v])
                 /\ \A i \in 1..Len(ledger[v]) : ledger'[v][i] = ledger[v][i]
      <4>1. CASE v = w
        <5>1. PICK l \in Seq(Event), f \in Seq(Event) : l = ledger[w] /\ f = flying[w]
          BY <3>2
        <5>2. ledger'[v] = l \o f /\ ledger[v] = l
          BY <3>1, <3>2, <4>1, <5>1
        <5>3. Len(l) <= Len(l \o f) /\ \A i \in 1..Len(l) : (l \o f)[i] = l[i]
          <6>1. PICK a \in Nat, b \in Nat : a = Len(l) /\ b = Len(f)
            OBVIOUS
          <6>2. Len(l \o f) = a + b
            BY <6>1
          <6>3. \A i \in 1..a : (l \o f)[i] = l[i]
            BY <6>1
          <6> QED
            BY <6>1, <6>2, <6>3
        <5> QED
          BY <5>2, <5>3
      <4>2. CASE v # w
        <5>1. ledger'[v] = ledger[v] /\ Len(ledger[v]) \in Nat
          BY <1>1, <3>1, <3>2, <4>2
        <5> QED
          BY <5>1
      <4> QED
        BY <4>1, <4>2
    <3>4. ledgerClock <= ledgerClock'
      BY <1>1, <3>1
    <3> QED
      BY ONLY <3>3, <3>4
  <2>2. ASSUME ledger' = ledger, ledgerClock' \in {ledgerClock, ledgerClock + 1}
        PROVE  /\ ledgerClock <= ledgerClock'
               /\ \A w \in Ws : /\ Len(ledger[w]) <= Len(ledger'[w])
                                /\ \A i \in 1..Len(ledger[w]) : ledger'[w][i] = ledger[w][i]
    <3>1. \A w \in Ws : Len(ledger[w]) \in Nat
      BY <1>1
    <3> QED
      BY <1>1, <2>2, <3>1
  <2> QED
    BY <2>1, <2>2 DEF CostNext, Record, CostTick, RollupIfStale, Rollup, ReplaceRows, costVars
<1>3. ASSUME NEW w \in Ws, NEW r, RowOk(w, r)
      PROVE  /\ r.at \in Nat /\ r.at <= ledgerClock'
             /\ r.seen \in 1..Len(ledger'[w])
             /\ r.priced => r.state = DeriveBillingState(SubSeq(ledger'[w], 1, r.seen), r.at)
  BY <1>1, <1>2, <1>3, RowKept
<1>4. ASSUME rows' = rows
      PROVE  \A w \in Ws : (rows[w] = NoCheckpoint \/ RowOk(w, rows[w]))'
  <2> TAKE w \in Ws
  <2>1. rows[w] = NoCheckpoint \/ RowOk(w, rows[w])
    BY DEF CostInv, RowsInv
  <2> QED
    BY <1>3, <1>4, <2>1 DEF RowOk
<1>5. ASSUME job' = job
      PROVE  /\ job'.step \in {"idle", "scan", "put"}
             /\ job'.step = "scan" => job'.at \in Nat /\ job'.at <= ledgerClock'
             /\ job'.step = "put" => \A w \in DOMAIN job'.out : w \in Ws /\ RowOk(w, job.out[w])'
  <2>1. /\ job.step \in {"idle", "scan", "put"}
        /\ job.step = "scan" => job.at \in Nat /\ job.at <= ledgerClock
        /\ job.step = "put" => \A w \in DOMAIN job.out : w \in Ws /\ RowOk(w, job.out[w])
    BY DEF CostInv, RowsInv
  <2>2. job.step = "scan" => job.at \in Nat /\ job.at <= ledgerClock'
    BY <1>1, <1>2, <2>1
  <2>3. job.step = "put" => \A w \in DOMAIN job.out : w \in Ws /\ RowOk(w, job.out[w])'
    <3> SUFFICES ASSUME job.step = "put", NEW w \in DOMAIN job.out
                 PROVE  w \in Ws /\ RowOk(w, job.out[w])'
      OBVIOUS
    <3>1. w \in Ws /\ RowOk(w, job.out[w])
      BY <2>1
    <3> QED
      BY <1>3, <1>5, <3>1 DEF RowOk
  <2> QED
    BY <1>5, <2>1, <2>2, <2>3
<1>6. ASSUME rows' = rows, job' = job
      PROVE  RowsInv'
  BY <1>4, <1>5, <1>6 DEF RowsInv
<1>7. ASSUME RollupIfStale
      PROVE  RowsInv'
  <2>1. job' = [step |-> "scan", at |-> ledgerClock] /\ rows' = rows
    BY <1>7 DEF RollupIfStale
  <2>2. job'.step = "scan" /\ job'.at \in Nat /\ job'.at <= ledgerClock'
    BY <1>1, <1>2, <2>1
  <2> QED
    BY <1>4, <2>1, <2>2 DEF RowsInv
<1>8. ASSUME Rollup
      PROVE  RowsInv'
  <2>1. /\ job' = [step |-> "put", at |-> job.at, out |-> [w \in Sessions |-> CheckpointOf(w, job.at)]]
        /\ rows' = rows /\ ledger' = ledger /\ ledgerClock' = ledgerClock /\ job.step = "scan"
    BY <1>8 DEF Rollup
  <2>2. job.at \in Nat /\ job.at <= ledgerClock
    BY <2>1 DEF CostInv, RowsInv
  <2>3. ASSUME NEW w \in Sessions
        PROVE  w \in Ws /\ RowOk(w, CheckpointOf(w, job.at))
    <3>1. w \in Ws /\ ledger[w] # <<>>
      BY DEF Sessions
    <3>2. PICK l \in Seq(Event), n \in Nat : l = ledger[w] /\ n = Len(l)
      BY <1>1, <3>1
    <3>3. n \in 1..n /\ SubSeq(l, 1, n) = l
      BY <3>1, <3>2
    <3>4. PICK r : r = CheckpointOf(w, job.at)
      OBVIOUS
    <3>5. r.at = job.at /\ r.seen = n
      BY <3>2, <3>4 DEF CheckpointOf
    <3>6. r.priced = Sized(w)
      BY <3>4 DEF CheckpointOf
    <3>7. Sized(w) => r.state = DeriveBillingState(ledger[w], job.at)
      BY <3>4 DEF CheckpointOf
    <3>8. r.priced => r.state = DeriveBillingState(SubSeq(ledger[w], 1, r.seen), r.at)
      BY <3>2, <3>3, <3>5, <3>6, <3>7
    <3> QED
      BY <2>2, <3>1, <3>2, <3>3, <3>4, <3>5, <3>8 DEF RowOk
  <2>4. PICK out : out = [w \in Sessions |-> CheckpointOf(w, job.at)] /\ job'.out = out
    BY <2>1
  <2>5. \A w \in DOMAIN out : w \in Ws /\ RowOk(w, out[w])
    BY <2>3, <2>4
  <2>6. \A w \in DOMAIN job'.out : w \in Ws /\ RowOk(w, job.out[w])'
    BY <2>1, <2>4, <2>5 DEF RowOk
  <2>7. job'.step = "put"
    BY <2>1
  <2> QED
    BY <1>4, <2>1, <2>6, <2>7 DEF RowsInv
<1>9. ASSUME ReplaceRows
      PROVE  RowsInv'
  <2>1. PICK stored \in SUBSET DOMAIN job.out :
          rows' = [w \in Ws |-> IF w \in stored THEN job.out[w] ELSE rows[w]]
    BY <1>9 DEF ReplaceRows
  <2>2. job.step = "put" /\ job' = NoJob
    BY <1>9 DEF ReplaceRows
  <2>3. \A w \in Ws : (rows[w] = NoCheckpoint \/ RowOk(w, rows[w]))'
    <3> TAKE w \in Ws
    <3>1. CASE w \in stored
      <4>1. rows'[w] = job.out[w] /\ RowOk(w, job.out[w])
        BY <2>1, <2>2, <3>1 DEF CostInv, RowsInv
      <4> QED
        BY <1>3, <4>1 DEF RowOk
    <3>2. CASE w \notin stored
      <4>1. rows'[w] = rows[w] /\ (rows[w] = NoCheckpoint \/ RowOk(w, rows[w]))
        BY <2>1, <3>2 DEF CostInv, RowsInv
      <4> QED
        BY <1>3, <4>1 DEF RowOk
    <3> QED
      BY <3>1, <3>2
  <2>4. job'.step = "idle"
    BY <2>2 DEF NoJob
  <2> QED
    BY <2>3, <2>4 DEF RowsInv
<1> QED
  BY <1>6, <1>7, <1>8, <1>9 DEF CostNext, Record, Land, CostTick, costVars

LEMMA CostInvariant == CostSpec => []CostInv
<1>1. CostInv /\ [CostNext]_costVars => CostInv'
  BY LedgerMoves, RowsMove DEF CostInv
<1> QED
  BY <1>1, CostStart, PTL DEF CostSpec

\* The oldest checkpoint is no later than any.
LEMMA OldestIsOldest ==
    ASSUME CostInv
    PROVE  /\ OldestCheckpoint \in Nat
           /\ \A w \in RolledUp : OldestCheckpoint <= rows[w].at
<1>1. PICK S : S = {ledgerClock} \union {rows[w].at : w \in RolledUp}
  OBVIOUS
<1>2. \A w \in RolledUp : RowOk(w, rows[w])
  BY DEF CostInv, RowsInv, RolledUp
<1>3. S \in SUBSET Nat /\ S # {}
  <2>1. \A w \in RolledUp : rows[w].at \in Nat
    BY <1>2 DEF RowOk
  <2>2. ledgerClock \in Nat
    BY DEF CostInv, LedgerInv
  <2> QED
    BY <1>1, <2>1, <2>2
<1>4. \E m \in S : \A n \in S : m <= n
  BY <1>3, LeastNumber
<1>5. OldestCheckpoint = Min(S)
  BY <1>1 DEF OldestCheckpoint
<1>6. OldestCheckpoint \in S /\ \A n \in S : OldestCheckpoint <= n
  BY <1>4, <1>5 DEF Min
<1> QED
  BY <1>1, <1>3, <1>6

LEMMA ThroughCuts ==
    ASSUME CostInv, NEW w \in Ws, NEW t \in Nat
    PROVE  \E k : Cut(ledger[w], t, k) /\ Through(w, t) = k
<1>1. InOrder(ledger[w], ledgerClock)
  BY DEF CostInv, LedgerInv
<1>2. PICK k : Cut(ledger[w], t, k)
  BY <1>1, CutExists
<1>3. Len(ledger[w]) \in Nat
  BY <1>1 DEF InOrder
<1>4. Through(w, t) = k
  BY <1>2, <1>3, CutCounts DEF Through
<1> QED
  BY <1>2, <1>4

\* A row that covers the ledger up to its checkpoint is resumed to what the full
\* scan prices.
LEMMA RowResumes ==
    ASSUME CostInv, NEW w \in Ws, w \in RolledUp, rows[w].priced,
           Through(w, rows[w].at) <= rows[w].seen
    PROVE  ResumeBilling(rows[w].state, rows[w].at, Since(w, OldestCheckpoint), ledgerClock)
             = TotalMs(DeriveBillingIntervals(ledger[w], ledgerClock), 0, ledgerClock)
<1>1. PICK r, ev, now : r = rows[w] /\ ev = ledger[w] /\ now = ledgerClock
  OBVIOUS
<1>2. RowOk(w, r)
  BY <1>1 DEF CostInv, RowsInv, RolledUp
<1>3. /\ r.at \in Nat /\ r.at <= now /\ r.seen \in 1..Len(ev)
      /\ r.state = DeriveBillingState(SubSeq(ev, 1, r.seen), r.at)
  BY <1>1, <1>2 DEF RowOk
<1>4. InOrder(ev, now)
  BY <1>1 DEF CostInv, LedgerInv
<1>5. PICK W : Whole(ev, W)
  BY <1>4, WholeWalk
<1>6. PICK k : Cut(ev, r.at, k) /\ Through(w, r.at) = k
  BY <1>1, <1>3, ThroughCuts
<1>7. PICK old \in Nat : old = OldestCheckpoint /\ old <= r.at
  BY <1>1, OldestIsOldest
<1>8. PICK m : Cut(ev, old, m) /\ Through(w, old) = m
  BY <1>1, ThroughCuts
<1>9. r.state = [totals |-> ClosedAt(W[k], r.at), phase |-> W[k].phase]
  <2>1. r.seen \in 0..Len(ev) /\ k <= r.seen
    <3>1. Len(ev) \in Nat
      BY <1>4 DEF InOrder
    <3> QED
      BY <1>1, <1>3, <1>6, <3>1
  <2>2. PICK at \in Nat, seen \in 0..Len(ev) : at = r.at /\ seen = r.seen
    BY ONLY <1>3, <2>1
  <2>3. Cut(ev, at, k) /\ k <= seen
    BY <1>6, <2>1, <2>2
  <2>4. DeriveBillingState(SubSeq(ev, 1, seen), at) = [totals |-> ClosedAt(W[k], at), phase |-> W[k].phase]
    BY ONLY <1>4, <1>5, <2>2, <2>3, PrefixState
  <2> QED
    BY <1>3, <2>2, <2>4
<1>10. Since(w, old) = SubSeq(ev, m + 1, Len(ev))
  BY <1>1, <1>8 DEF Since
<1>11. ResumeBilling(r.state, r.at, Since(w, old), now) = ClosedAt(W[Len(ev)], now)
  BY <1>3, <1>4, <1>5, <1>6, <1>7, <1>8, <1>9, <1>10, ResumeIsExact
<1>12. TotalMs(DeriveBillingIntervals(ev, now), 0, now) = ClosedAt(W[Len(ev)], now)
  <2>1. PICK V : V = WalkIntervals(ev, now) /\ IntervalSteps(ev, now, V)
    BY <1>4, IntervalsUnfold DEF InOrder
  <2> QED
    BY <1>4, <1>5, <2>1, IntervalsFollowWalk
<1> QED
  BY <1>1, <1>7, <1>11, <1>12

\* The two reports are about the same workspaces, priced the same.
LEMMA ReportsAgree ==
    ASSUME CostInv, Covered
    PROVE  RollupReport(ledgerClock) = FullScanReport(ledgerClock)
<1>1. PICK old : old = OldestCheckpoint
  OBVIOUS
<1>2. PICK priced, born, sized, both, full :
        /\ priced = {w \in RolledUp : rows[w].priced}
        /\ born = {w \in Ws \ RolledUp : Since(w, old) # <<>>}
        /\ sized = {w \in born : Sized(w)}
        /\ both = priced \union sized
        /\ full = {w \in Sessions : Sized(w)}
  OBVIOUS
<1>3. RolledUp \subseteq Ws /\ RolledUp \subseteq Sessions
  <2>1. ASSUME NEW w \in RolledUp
        PROVE  w \in Ws /\ ledger[w] # <<>>
    <3>1. w \in Ws /\ RowOk(w, rows[w]) /\ ledger[w] \in Seq(Event)
      BY DEF CostInv, RowsInv, RolledUp, LedgerInv
    <3>2. rows[w].seen \in 1..Len(ledger[w])
      BY <3>1 DEF RowOk
    <3> QED
      BY <3>1, <3>2
  <2> QED
    BY <2>1 DEF Sessions
<1>4. \A w \in RolledUp : /\ Through(w, rows[w].at) <= rows[w].seen
                          /\ rows[w].priced = Sized(w)
  BY <1>3 DEF Covered
<1>5. \A w \in Ws \ RolledUp : Since(w, old) = ledger[w]
  BY <1>1 DEF Covered
<1>6. born = Sessions \ RolledUp
  BY <1>2, <1>5 DEF Sessions
<1>7. priced = {w \in RolledUp : Sized(w)}
  BY <1>2, <1>4
<1>8. both = full
  BY <1>2, <1>3, <1>6, <1>7
<1>9. (RolledUp \union born) \ both = Sessions \ full
  BY <1>3, <1>6, <1>8
<1> DEFINE Whole0(w) == TotalMs(DeriveBillingIntervals(ledger[w], ledgerClock), 0, ledgerClock)
           Part(w) == IF w \in priced
                      THEN ResumeBilling(rows[w].state, rows[w].at, Since(w, old), ledgerClock)
                      ELSE TotalMs(DeriveBillingIntervals(Since(w, old), ledgerClock), 0, ledgerClock)
<1>10. \A w \in full : Part(w) = Whole0(w)
  <2> TAKE w \in full
  <2>1. CASE w \in priced
    <3>1. w \in RolledUp /\ w \in Ws /\ rows[w].priced /\ Through(w, rows[w].at) <= rows[w].seen
      BY <1>2, <1>3, <1>4, <2>1
    <3> QED
      BY <1>1, <2>1, <3>1, RowResumes
  <2>2. CASE w \notin priced
    <3>1. w \in Ws \ RolledUp
      BY <1>2, <1>6, <1>8, <2>2 DEF Sessions
    <3> QED
      BY <1>5, <2>2, <3>1
  <2> QED
    BY <2>1, <2>2
<1>11. RollupReport(ledgerClock)
         = AggregateFleetCost([w \in both |-> PriceDurations(Part(w))], (RolledUp \union born) \ both)
  BY <1>1, <1>2 DEF RollupReport
<1>12. FullScanReport(ledgerClock)
         = AggregateFleetCost([w \in full |-> PriceDurations(Whole0(w))], Sessions \ full)
  BY <1>2 DEF FullScanReport, ComputeFleetCost
<1>13. [w \in both |-> PriceDurations(Part(w))] = [w \in full |-> PriceDurations(Whole0(w))]
  <2> HIDE DEF Part, Whole0
  <2> QED
    BY <1>8, <1>10
<1> HIDE DEF Part, Whole0
<1> QED
  BY <1>9, <1>11, <1>12, <1>13

\* For any workspaces, any ledger the service can write and any history of rollups,
\* the failed ones included: in every window a report charges a workspace for
\* exactly the ticks its phases were billed (deriveBillingIntervals, clipIntervals,
\* totalMs), and rows that cover the ledger are resumed to the very report of the
\* full scan (CostService.report, resumeBilling).
THEOREM ReportsAreExact == CostSpec => []ReportsExact
<1>1. CostInv => ReportsExact
  <2> SUFFICES ASSUME CostInv
               PROVE  ReportsExact
    OBVIOUS
  <2>1. ASSUME NEW w \in Ws, NEW from \in 0..ledgerClock
        PROVE  TotalMs(DeriveBillingIntervals(ledger[w], ledgerClock), from, ledgerClock)
                 = [b \in DOMAIN NoTotals |-> Cardinality(BilledTicks(w, from, b))]
    <3>1. InOrder(ledger[w], ledgerClock) /\ from \in Nat
      BY DEF CostInv, LedgerInv
    <3>2. \A b : BilledTicks(w, from, b) = Ticks(ledger[w], from, ledgerClock, b)
      BY DEF BilledTicks, Ticks, Billed
    <3> QED
      BY <3>1, <3>2, EveryWindowIsExact
  <2> QED
    BY <2>1, ReportsAgree DEF ReportsExact
<1> QED
  BY <1>1, CostInvariant, PTL
=============================================================================
