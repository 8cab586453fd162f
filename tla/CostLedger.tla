----------------------------- MODULE CostLedger -----------------------------
(***************************************************************************)
(* Costs from the audit ledger.  Every lifecycle event carries the instant *)
(* its operation read the clock and lands in the ledger a little later.    *)
(* The full scan prices the whole ledger; the rollup report resumes each   *)
(* workspace from a stored checkpoint row and replays the tail after it.   *)
(* The reconciler regenerates the rows, one item of a batch at a time.     *)
(*                                                                         *)
(* Money is abstracted to billed ticks: pricing is linear in the           *)
(* durations, with fixed rates and a sizing that never changes.            *)
(***************************************************************************)
EXTENDS Integers, FiniteSets, FiniteSetsExt, Sequences, SequencesExt

CONSTANTS
    Ws,          \* workspaces
    Legacy,      \* those whose create event carries no resources
    MaxLedgerClock,    \* bound: the last instant
    MaxEvents,   \* bound: [Ws -> lifecycle events of the workspace]
    MaxRollupAge,      \* COST_ROLLUP_CADENCE_MS
    MaxUnprocessed  \* bound: batches that leave items unprocessed

ASSUME CostAssumption == Legacy \subseteq Ws

VARIABLES
    ledgerClock,
    life,       \* [Ws -> the workspace's lifecycle, as the service moves it]
    flying,     \* [Ws -> events written but not yet visible in the ledger (at most one)]
    ledger,     \* [Ws -> sequence of events [action, at]]
    rows,       \* [Ws -> checkpoint row, or NoCheckpoint]
    job,        \* the rollup being generated
    unprocessed \* batches that failed so far

costVars == <<ledgerClock, life, flying, ledger, rows, job, unprocessed>>

NoCheckpoint == [at |-> -1]
NoJob == [step |-> "idle"]

-----------------------------------------------------------------------------
(* The billing walk *)

\* The phase an event moves a workspace into; an event that changes nothing
\* leaves it where it is.
NextPhase(phase, action) ==
    CASE action \in {"create", "start"} /\ phase \in {"none", "stopped"} -> "running"
      [] action = "stop" /\ phase = "running" -> "stopped"
      [] action = "delete" /\ phase \in {"running", "stopped"} -> "teardown"
      [] action = "terminated" -> "retained"
      [] action = "undelete" /\ phase = "retained" -> "stopped"
      [] action = "purged" -> "terminated"
      [] action = "snapshot_lost" /\ phase = "stopped" -> "none"
      [] action = "snapshot_lost" /\ phase = "retained" -> "terminated"
      [] OTHER -> phase

NoTotals == [running |-> 0, stopped |-> 0, teardown |-> 0]
Bucket == [running |-> "running", stopped |-> "stopped", retained |-> "stopped",
           teardown |-> "teardown"]

\* The open interval of a phase, closed at an instant.
FoldOpen(totals, phase, since, to) ==
    IF phase \in DOMAIN Bucket /\ to > since
    THEN [totals EXCEPT ![Bucket[phase]] = @ + to - since]
    ELSE totals

\* Mutant: the interval is not reopened at the event that changes the phase.
WalkKeepsOpen(w, e) ==
    IF w.phase = "terminated" \/ NextPhase(w.phase, e.action) = w.phase THEN w
    ELSE [totals |-> FoldOpen(w.totals, w.phase, w.since, e.at),
          phase |-> NextPhase(w.phase, e.action), since |-> w.since]

WalkEvent(w, e) ==
    IF w.phase = "terminated" \/ NextPhase(w.phase, e.action) = w.phase THEN w
    ELSE [totals |-> FoldOpen(w.totals, w.phase, w.since, e.at),
          phase |-> NextPhase(w.phase, e.action), since |-> e.at]

\* walkBilling over the events of (after, through], from a carried state: the
\* state after each event, and after the last.
Walk(events, after, through, init) ==
    LET walk[i \in 0..Len(events)] ==
            IF i = 0 THEN init
            ELSE IF after < events[i].at /\ events[i].at <= through
            THEN WalkEvent(walk[i - 1], events[i])
            ELSE walk[i - 1]
    IN walk

WalkBilling(events, after, through, init) == Walk(events, after, through, init)[Len(events)]

ClosedAt(w, to) == FoldOpen(w.totals, w.phase, w.since, to)

NotBegun == [totals |-> NoTotals, phase |-> "none", since |-> 0]

DeriveBillingState(events, cut) ==
    LET w == WalkBilling(events, -1, cut, NotBegun)
    IN [totals |-> ClosedAt(w, cut), phase |-> w.phase]

ResumeBilling(state, cut, events, now) ==
    IF state.phase = "terminated" THEN state.totals
    ELSE ClosedAt(WalkBilling(events, cut, now,
                    [totals |-> state.totals, phase |-> state.phase, since |-> cut]), now)

\* deriveBillingIntervals: the same walk, keeping the intervals of each phase.
\* A purged workspace leaves no interval open.
CloseOpen(ivs, phase, from, to) ==
    IF phase \in DOMAIN Bucket THEN Append(ivs, [bucket |-> Bucket[phase], from |-> from, to |-> to])
    ELSE ivs

WalkIntervals(events, now) ==
    LET walk[i \in 0..Len(events)] ==
            IF i = 0 THEN [ivs |-> <<>>, phase |-> "none", since |-> 0]
            ELSE LET w == walk[i - 1]
                     next == NextPhase(w.phase, events[i].action)
                 IN IF events[i].at > now \/ w.phase = "terminated" \/ next = w.phase THEN w
                    ELSE [ivs |-> CloseOpen(w.ivs, w.phase, w.since, events[i].at),
                          phase |-> next, since |-> events[i].at]
    IN walk

DeriveBillingIntervals(events, now) ==
    LET end == WalkIntervals(events, now)[Len(events)]
    IN CloseOpen(end.ivs, end.phase, end.since, now)

\* clipIntervals and totalMs: the ticks of each bucket inside [from, to).
ClippedMs(iv, from, to) ==
    LET start == IF iv.from < from THEN from ELSE iv.from
        end == IF iv.to > to THEN to ELSE iv.to
    IN IF end > start THEN end - start ELSE 0

Totals(ivs, from, to) ==
    LET total[i \in 0..Len(ivs)] ==
            IF i = 0 THEN NoTotals
            ELSE [total[i - 1] EXCEPT ![ivs[i].bucket] = @ + ClippedMs(ivs[i], from, to)]
    IN total

TotalMs(ivs, from, to) == Totals(ivs, from, to)[Len(ivs)]

\* priceDurations: what each resource of the workspace is billed for.
PriceDurations(t) ==
    [compute  |-> t.running,
     volume   |-> t.running + t.teardown,
     snapshot |-> t.stopped + t.teardown]

-----------------------------------------------------------------------------
(* The two reports: one line per workspace that appears, and their total *)

AddBreakdowns(a, b) == [r \in DOMAIN a |-> a[r] + b[r]]

AggregateFleetCost(bySession, unpriced) ==
    [bySession |-> bySession, unpriced |-> unpriced,
     total |-> FoldLeft(LAMBDA sum, w : AddBreakdowns(sum, bySession[w]),
                        PriceDurations(NoTotals), SetToSeq(DOMAIN bySession))]

\* A workspace is sized by its record while it has one (a purge removes it), and
\* by its create event afterwards.
HasRecord(w) == ledger[w] # <<>> /\ Last(ledger[w]).action # "purged"
Sized(w) == HasRecord(w) \/ w \notin Legacy

\* groupSessions: the workspaces the ledger knows.
Sessions == {w \in Ws : ledger[w] # <<>>}

\* computeFleetCost over the lifetime of workspaces.
ComputeFleetCost(inputs, unpriced, now) ==
    AggregateFleetCost(
        [w \in inputs |-> PriceDurations(TotalMs(DeriveBillingIntervals(ledger[w], now), 0, now))],
        unpriced)

FullScanReport(now) ==
    LET priced == {w \in Sessions : Sized(w)}
    IN ComputeFleetCost(priced, Sessions \ priced, now)

RolledUp == {w \in Ws : rows[w] # NoCheckpoint}
OldestCheckpoint == Min({ledgerClock} \union {rows[w].at : w \in RolledUp})

\* The ledger is kept in the order of its instants: its events up to t, and its
\* tail after t.
Through(w, t) == Cardinality({i \in 1..Len(ledger[w]) : ledger[w][i].at <= t})
Since(w, t) == SubSeq(ledger[w], Through(w, t) + 1, Len(ledger[w]))

\* A priced row is resumed at its own checkpoint, an unpriced one is reported as
\* such; a workspace without a row is priced from the tail alone.
RollupReport(now) ==
    LET priced == {w \in RolledUp : rows[w].priced}
        born == {w \in Ws \ RolledUp : Since(w, OldestCheckpoint) # <<>>}
        sized == {w \in born : Sized(w)}
    IN AggregateFleetCost([w \in priced \union sized |->
           PriceDurations(
               IF w \in priced
               THEN ResumeBilling(rows[w].state, rows[w].at, Since(w, OldestCheckpoint), now)
               ELSE TotalMs(DeriveBillingIntervals(Since(w, OldestCheckpoint), now), 0, now))],
           (RolledUp \union born) \ (priced \union sized))

-----------------------------------------------------------------------------
(* The ledger grows *)

\* The lifecycle events WorkspaceService records, with the state each one leads to.
Emits ==
    {<<"none", "create", "running">>, <<"stopped", "start", "running">>,
     <<"running", "stop", "stopped">>, <<"running", "delete", "deleting">>,
     <<"stopped", "delete", "deleting">>, <<"error", "delete", "deleting">>,
     <<"deleting", "terminated", "tombstone">>, <<"tombstone", "undelete", "stopped">>,
     <<"tombstone", "purged", "gone">>, <<"stopped", "snapshot_lost", "error">>}

CostInit ==
    /\ ledgerClock = 1
    /\ life = [w \in Ws |-> "none"]
    /\ flying = [w \in Ws |-> <<>>]
    /\ ledger = [w \in Ws |-> <<>>]
    /\ rows = [w \in Ws |-> NoCheckpoint]
    /\ job = NoJob
    /\ unprocessed = 0

\* An operation reads the clock and sends its transaction.  Two events of one
\* workspace never carry the same instant.
Record(w) ==
    /\ flying[w] = <<>>
    /\ Len(ledger[w]) < MaxEvents[w]
    /\ ledger[w] # <<>> => Last(ledger[w]).at < ledgerClock
    /\ \E e \in Emits :
          /\ e[1] = life[w]
          /\ life' = [life EXCEPT ![w] = e[3]]
          /\ flying' = [flying EXCEPT ![w] = <<[action |-> e[2], at |-> ledgerClock]>>]
    /\ UNCHANGED <<ledgerClock, ledger, rows, job, unprocessed>>

\* The transaction commits: the ledger shows the event.
Land(w) ==
    /\ flying[w] # <<>>
    /\ ledger' = [ledger EXCEPT ![w] = @ \o flying[w]]
    /\ flying' = [flying EXCEPT ![w] = <<>>]
    /\ UNCHANGED <<ledgerClock, life, rows, job, unprocessed>>

CostTick ==
    /\ ledgerClock < MaxLedgerClock
    /\ ledgerClock' = ledgerClock + 1
    /\ UNCHANGED <<life, flying, ledger, rows, job, unprocessed>>

-----------------------------------------------------------------------------
(* The rollup *)

\* rollupIfStale: no rows, rows of two generations, or rows grown old; the new
\* checkpoint is the instant the job starts.
RollupIfStale ==
    /\ job = NoJob
    /\ \/ RolledUp = {}
       \/ Cardinality({rows[w].at : w \in RolledUp}) > 1
       \/ ledgerClock - OldestCheckpoint >= MaxRollupAge
    /\ job' = [step |-> "scan", at |-> ledgerClock]
    /\ UNCHANGED <<ledgerClock, life, flying, ledger, rows, unprocessed>>

\* A row: the carried state of a workspace that can be sized, or a marker.
CheckpointOf(w, at) ==
    [at |-> at, priced |-> Sized(w), seen |-> Len(ledger[w]),
     state |-> IF Sized(w) THEN DeriveBillingState(ledger[w], at)
               ELSE [totals |-> NoTotals, phase |-> "unpriced"]]

\* The whole ledger is read and every workspace in it priced up to the checkpoint.
Rollup ==
    /\ job.step = "scan"
    /\ job' = [step |-> "put", at |-> job.at,
               out |-> [w \in Sessions |-> CheckpointOf(w, job.at)]]
    /\ UNCHANGED <<ledgerClock, life, flying, ledger, rows, unprocessed>>

\* replaceAll: the batch stores all rows, or throws with some left unprocessed.
ReplaceRows ==
    /\ job.step = "put"
    /\ \E stored \in SUBSET DOMAIN job.out :
          /\ stored # DOMAIN job.out => unprocessed < MaxUnprocessed
          /\ unprocessed' = IF stored = DOMAIN job.out THEN unprocessed ELSE unprocessed + 1
          /\ rows' = [w \in Ws |-> IF w \in stored THEN job.out[w] ELSE rows[w]]
    /\ job' = NoJob
    /\ UNCHANGED <<ledgerClock, life, flying, ledger>>

CostNext ==
    \/ \E w \in Ws : Record(w) \/ Land(w)
    \/ CostTick \/ RollupIfStale \/ Rollup \/ ReplaceRows

CostSpec == CostInit /\ [][CostNext]_costVars

-----------------------------------------------------------------------------
(* Properties *)

\* What a row was computed from: every event up to its checkpoint had landed, and
\* the workspace could be sized then as it can now; a workspace without a row has
\* no event up to the oldest checkpoint.
Covered ==
    \A w \in Ws :
        IF w \in RolledUp
        THEN /\ Through(w, rows[w].at) <= rows[w].seen
             /\ rows[w].priced = Sized(w)
        ELSE Since(w, OldestCheckpoint) = ledger[w]

\* The ticks of the window that the last event before them left in a phase of the
\* bucket.
BilledTicks(w, from, bucket) ==
    LET PhaseAt(t) == DeriveBillingState(ledger[w], t).phase
    IN {t \in from..(ledgerClock - 1) :
            PhaseAt(t) \in DOMAIN Bucket /\ Bucket[PhaseAt(t)] = bucket}

\* A report charges every workspace for exactly those ticks, in whatever window it
\* asks for (deriveBillingIntervals, clipIntervals); and where the rows cover the
\* ledger, resuming from them and replaying the tail prices every workspace as the
\* full scan does, whatever mix of generations the rows are, and names the same
\* workspaces as unpriced (CostService.report).
ReportsExact ==
    /\ \A w \in Ws, from \in 0..ledgerClock :
         TotalMs(DeriveBillingIntervals(ledger[w], ledgerClock), from, ledgerClock)
           = [b \in DOMAIN NoTotals |-> Cardinality(BilledTicks(w, from, b))]
    /\ RolledUp # {} /\ Covered => RollupReport(ledgerClock) = FullScanReport(ledgerClock)

=============================================================================
