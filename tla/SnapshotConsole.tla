--------------------------- MODULE SnapshotConsole ---------------------------
(***************************************************************************)
(* The admin snapshot console: the page that polls the list and purges     *)
(* (apps/web/components/SnapshotsConsole.tsx, lib/usePoll.ts), its routes, *)
(* and the service operations behind them (listSnapshotsForAdmin,          *)
(* deleteSnapshotById, purgeUnreferencedSnapshots).  Each of the three     *)
(* reads the references with one index query per lifecycle state, all at   *)
(* once and none of them a snapshot of the table, while sessions take      *)
(* snapshots, record them, stop, are deleted and come back.                *)
(***************************************************************************)
EXTENDS Naturals, FiniteSets, Sequences, SequencesExt

CONSTANTS
  Desk,           \* workspaces
  Req,            \* requests of the page: polls and purges
  MaxSnapshots    \* bound on the snapshots taken

ASSUME ConsoleAssumption == MaxSnapshots \in Nat

VARIABLES
  records,       \* records[w]: the record: its state and the snapshot it names (0: none)
  byState,    \* byState[w]: the same, as the state index has it
  take,        \* take[w]: a snapshot taken of w and not recorded yet
  held,       \* the snapshots EBS holds
  taken,      \* how many have been taken
  request,    \* request[q]: a request the page sent
  page        \* the console

consoleVars == <<records, byState, take, held, taken, request, page>>

Snap == 1..MaxSnapshots
State == {"running", "stopped", "terminated"}
Idle == [at |-> "idle", op |-> "none", target |-> 0, left |-> {}, listed |-> FALSE,
         list |-> {}, refs |-> {}, moved |-> {}]
NoTake == [snap |-> 0, current |-> FALSE]

\* An answer on its way to the page; what the request has read is of no more use.
Answer(r, at) == [Idle EXCEPT !.at = at, !.op = r.op, !.target = r.target]

ConsoleTypeOK ==
  /\ records \in [Desk -> [state : State \cup {"gone"}, snap : 0..MaxSnapshots]]
  /\ byState \in [Desk -> [state : State \cup {"gone"}, snap : 0..MaxSnapshots]]
  /\ take \in [Desk -> [snap : 0..MaxSnapshots, current : BOOLEAN]]
  /\ held \subseteq Snap /\ taken \in 0..MaxSnapshots
  /\ request \in [Req -> [at : {"idle", "reading", "deleting", "ok", "failed"},
                          op : {"none", "list", "one", "all"}, target : 0..MaxSnapshots,
                          left : SUBSET State, listed : BOOLEAN, list : SUBSET Snap,
                          refs : SUBSET Snap, moved : SUBSET Desk]]
  /\ page \in [shown : SUBSET Snap, inUse : SUBSET Snap, armed : 0..MaxSnapshots,
               bulk : BOOLEAN, pending : Seq(Req)]

ConsoleInit ==
  /\ records = [w \in Desk |-> [state |-> "running", snap |-> 0]]
  /\ byState = records
  /\ take = [w \in Desk |-> NoTake]
  /\ held = {} /\ taken = 0
  /\ request = [q \in Req |-> Idle]
  /\ page = [shown |-> {}, inUse |-> {}, armed |-> 0, bulk |-> FALSE, pending |-> <<>>]

-----------------------------------------------------------------------------
\* The sessions.

\* A record's conditional write: requests in flight may or may not have seen it,
\* and a snapshot taken from an older version can no longer be recorded.
Rewrite(w, state, snap) ==
  /\ records' = [records EXCEPT ![w] = [state |-> state, snap |-> snap]]
  /\ request' = [q \in Req |->
                   IF request[q].op \in {"one", "all"} /\ request[q].at \in {"reading", "deleting"}
                   THEN [request[q] EXCEPT !.moved = @ \cup {w}] ELSE request[q]]
  /\ UNCHANGED <<byState, held, taken, page>>

SnapshotForTransition(w) ==
  /\ records[w].state = "running" /\ take[w] = NoTake /\ taken < MaxSnapshots
  /\ taken' = taken + 1
  /\ held' = held \cup {taken + 1}
  /\ take' = [take EXCEPT ![w] = [snap |-> taken + 1, current |-> TRUE]]
  /\ UNCHANGED <<records, byState, request, page>>

\* A scheduled snapshot, or a stop, records what it took; or it lost the race.
RecordSnapshot(w) ==
  /\ take[w] # NoTake
  /\ take' = [take EXCEPT ![w] = NoTake]
  /\ \/ /\ take[w].current
        /\ \E state \in {"running", "stopped"} : Rewrite(w, state, take[w].snap)
     \/ ~take[w].current /\ UNCHANGED <<records, byState, held, taken, request, page>>

\* Wake, delete (the tombstone keeps its snapshot) and undelete.
ChangeState(w) ==
  /\ take' = [take EXCEPT ![w].current = FALSE]
  /\ \/ records[w].state = "stopped" /\ Rewrite(w, "running", records[w].snap)
     \/ records[w].state = "stopped" /\ Rewrite(w, "terminated", records[w].snap)
     \/ records[w].state = "terminated" /\ Rewrite(w, "stopped", records[w].snap)

\* purgeTombstoneRecord: the record goes, then its snapshot is an orphan.
Purge(w) ==
  /\ records[w].state = "terminated"
  /\ Rewrite(w, "gone", 0)
  /\ UNCHANGED take

IndexCatchesUp(w) ==
  /\ byState[w] # records[w]
  /\ byState' = [byState EXCEPT ![w] = records[w]]
  /\ UNCHANGED <<records, take, held, taken, request, page>>

-----------------------------------------------------------------------------
\* The service.

\* Mutant: deleted workspaces are not asked for what they name.
LiveStates == {"running", "stopped"}
\* allRecords: one index query for every lifecycle state.
QueriedStates == State

\* What the table says of references is only a hint (the purge reads its own), so
\* a load's queries are left out and any answer of theirs is allowed for.
Sent(op, target) ==
  IF op = "list" THEN [Idle EXCEPT !.at = "reading", !.op = op]
  ELSE [Idle EXCEPT !.at = "reading", !.op = op, !.target = target,
                    !.left = QueriedStates, !.listed = (op = "one"),
                    !.moved = {w \in Desk : byState[w] # records[w]}]

\* listSnapshots, and each state's query: in any order, between other steps.
ListSnapshots(q) ==
  /\ request[q].at = "reading" /\ ~request[q].listed
  /\ request' = [request EXCEPT ![q].listed = TRUE, ![q].list = held]
  /\ UNCHANGED <<records, byState, take, held, taken, page>>

QueryState(q, state) ==
  /\ request[q].at = "reading" /\ state \in request[q].left
  /\ request' = [request EXCEPT ![q].left = @ \ {state},
                   ![q].refs = @ \cup ({byState[w].snap : w \in
                                         {v \in Desk : byState[v].state = state}} \ {0})]
  /\ UNCHANGED <<records, byState, take, held, taken, page>>

ReadFails(q) ==
  /\ request[q].at = "reading"
  /\ request' = [request EXCEPT ![q] = Answer(@, "failed")]
  /\ UNCHANGED <<records, byState, take, held, taken, page>>

\* What a purge may delete: the one asked for, or every snapshot it listed.
Purgeable(r) == (IF r.op = "one" THEN {r.target} ELSE r.list) \ r.refs

\* Both answers are in: a list is answered, a referenced target refused (409).
ReadDone(q) ==
  /\ request[q].at = "reading" /\ request[q].listed /\ request[q].left = {}
  /\ request' = [request EXCEPT ![q] =
                   CASE @.op = "list" -> [Answer(@, "ok") EXCEPT !.list = request[q].list]
                     [] @.op = "one" /\ Purgeable(@) = {} -> Answer(@, "failed")
                     [] OTHER -> [@ EXCEPT !.at = "deleting"]]
  /\ UNCHANGED <<records, byState, take, held, taken, page>>

\* One delete and its audit row; a snapshot already gone counts as purged, any
\* other error ends the request with the rest undeleted.
DeleteSnapshot(q, s) ==
  /\ request[q].at = "deleting" /\ s \in Purgeable(request[q])
  /\ \/ /\ held' = held \ {s}
        /\ request' = [request EXCEPT ![q].refs = @ \cup {s}]
     \/ request' = [request EXCEPT ![q] = Answer(@, "failed")] /\ UNCHANGED held
  /\ UNCHANGED <<records, byState, take, taken, page>>

PurgeDone(q) ==
  /\ request[q].at = "deleting" /\ Purgeable(request[q]) = {}
  /\ request' = [request EXCEPT ![q] = Answer(@, "ok")]
  /\ UNCHANGED <<records, byState, take, held, taken, page>>

-----------------------------------------------------------------------------
\* The page.

\* A poll of the running effect: its timer, or the tab coming to the front.
StartLoad(q) ==
  /\ request[q].at = "idle"
  /\ request' = [request EXCEPT ![q] = Sent("list", 0)]
  /\ page' = [page EXCEPT !.pending = Append(@, q)]
  /\ UNCHANGED <<records, byState, take, held, taken>>

\* A load of this effect that none started after it has overtaken.
Applies(q) == Contains(page.pending, q)

\* Loads started before the one applied are dropped.
Later(q) ==
  IF Contains(page.pending, q)
  THEN SubSeq(page.pending, (CHOOSE i \in 1..Len(page.pending) : page.pending[i] = q) + 1,
              Len(page.pending))
  ELSE page.pending

LoadAnswered(q) ==
  /\ request[q].op = "list" /\ request[q].at \in {"ok", "failed"}
  /\ request' = [request EXCEPT ![q] = Idle]
  /\ \E inUse \in SUBSET request[q].list :
       page' = IF ~Applies(q) THEN page
               ELSE IF request[q].at = "failed" THEN [page EXCEPT !.pending = Later(q)]
               ELSE [page EXCEPT !.pending = Later(q),
                                 !.shown = request[q].list, !.inUse = inUse]
  /\ UNCHANGED <<records, byState, take, held, taken>>

\* The two-step confirmations: a row's, offered while the table says orphan, and
\* the bulk one.
ArmPurge(s) ==
  /\ s \in page.shown \ page.inUse /\ page.armed # s
  /\ page' = [page EXCEPT !.armed = s]
  /\ UNCHANGED <<records, byState, take, held, taken, request>>

ArmPurgeAll ==
  /\ page.shown \ page.inUse # {} /\ ~page.bulk
  /\ page' = [page EXCEPT !.bulk = TRUE]
  /\ UNCHANGED <<records, byState, take, held, taken, request>>

CancelPurge ==
  /\ page.armed # 0 \/ page.bulk
  /\ \/ page' = [page EXCEPT !.armed = 0]
     \/ page' = [page EXCEPT !.bulk = FALSE]
  /\ UNCHANGED <<records, byState, take, held, taken, request>>

\* Busy while one is in flight: the row's button, the bulk button.
InFlight(op, target) ==
  \E q \in Req : request[q].op = op /\ request[q].target = target

ConfirmPurge(q) ==
  /\ request[q].at = "idle"
  /\ page.armed \in page.shown \ page.inUse /\ ~InFlight("one", page.armed)
  /\ request' = [request EXCEPT ![q] = Sent("one", page.armed)]
  /\ UNCHANGED <<records, byState, take, held, taken, page>>

ConfirmPurgeAll(q) ==
  /\ request[q].at = "idle" /\ page.bulk /\ ~InFlight("all", 0)
  /\ request' = [request EXCEPT ![q] = Sent("all", 0)]
  /\ UNCHANGED <<records, byState, take, held, taken, page>>

\* A purge that succeeded refreshes: the effect is torn down and run again, with
\* a load of its own.
PurgeAnswered(q, next) ==
  /\ request[q].op \in {"one", "all"} /\ request[q].at \in {"ok", "failed"}
  /\ LET disarmed == IF request[q].op = "one" THEN [page EXCEPT !.armed = 0]
                     ELSE [page EXCEPT !.bulk = FALSE]
     IN IF request[q].at = "failed"
        THEN /\ page' = disarmed
             /\ request' = [request EXCEPT ![q] = Idle]
        ELSE /\ request[next].at = "idle" \/ next = q
             /\ page' = [disarmed EXCEPT !.pending = <<next>>]
             /\ request' = [request EXCEPT ![q] = Idle, ![next] = Sent("list", 0)]
  /\ UNCHANGED <<records, byState, take, held, taken>>

ConsoleNext ==
  \/ \E w \in Desk : \/ SnapshotForTransition(w) \/ RecordSnapshot(w) \/ ChangeState(w)
                     \/ Purge(w) \/ IndexCatchesUp(w)
  \/ \E q \in Req : \/ ListSnapshots(q) \/ ReadFails(q) \/ ReadDone(q) \/ PurgeDone(q)
                    \/ \E state \in State : QueryState(q, state)
                    \/ \E s \in Snap : DeleteSnapshot(q, s)
                    \/ StartLoad(q) \/ LoadAnswered(q) \/ ConfirmPurge(q)
                    \/ ConfirmPurgeAll(q) \/ \E next \in Req : PurgeAnswered(q, next)
  \/ \E s \in Snap : ArmPurge(s)
  \/ ArmPurgeAll \/ CancelPurge

ConsoleSpec == ConsoleInit /\ [][ConsoleNext]_consoleVars

-----------------------------------------------------------------------------
\* A purge never deletes the restore point of a workspace, live, stopped or
\* deleted and still restorable, whose record stood still while the purge read
\* the references (deleteSnapshotById, purgeUnreferencedSnapshots: "referenced
\* snapshots are skipped (never stranded)"; for a record that moved between two
\* of the queries the code gives no such guarantee).
SteadyReferencesKept ==
  [][\A w \in Desk, s \in held \ held' :
       records[w].snap = s =>
         \E q \in Req : request[q].at = "deleting" /\ w \in request[q].moved]_consoleVars

=============================================================================
