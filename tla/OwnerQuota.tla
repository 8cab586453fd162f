----------------------------- MODULE OwnerQuota -----------------------------
(***************************************************************************)
(* The workspace cap of one owner: the per-owner counter that creates and  *)
(* undeletes are admitted through, the decrement that ends a delete, and   *)
(* the sweep that recomputes the counter from the records                  *)
(* (packages/control-plane/src/workspace-service.ts).                      *)
(*                                                                         *)
(* A record is seen here only as far as the cap is concerned: "live" is    *)
(* every state before the delete request, "terminated" is the tombstone    *)
(* that no longer counts.                                                  *)
(***************************************************************************)
EXTENDS Integers, FiniteSets

CONSTANTS
    Workspaces,     \* the owner's workspaces
    Worker,         \* the processes that finish deletes and restore workspaces
    Limit,          \* the cap of the owner's role
    MaxRequests,    \* bound: creates, deletes, undeletes and purges in a behaviour
    MaxFaults       \* bound: crashes in a behaviour

ASSUME QuotaAssumption ==
    /\ Limit \in Nat \ {0}
    /\ MaxRequests \in Nat /\ MaxFaults \in Nat

VARIABLES
    row,        \* the record of each workspace, with its version
    count,      \* the stored counter; 0 where there is none yet
    stored,     \* whether a counter is stored
    call,       \* each worker's call: what it read, and what it does next
    sweep,      \* the counter sweep: what it has read so far
    drift,      \* whether the counter was bypassed (a call without a cap) or overwritten
    requests, faults

quotaVars == <<row, count, stored, call, sweep, drift, requests, faults>>

-----------------------------------------------------------------------------
NoCall == [pc |-> "idle", ws |-> CHOOSE ws \in Workspaces : TRUE, version |-> 0]
NoSweep == [pc |-> "idle", todo |-> {}, want |-> 0, have |-> 0, found |-> FALSE]

\* The records the cap is about.
Counted == {ws \in Workspaces : row[ws].state \in {"live", "deleting"}}

\* Mutant: an owner at the cap is admitted.
AdmittedAtLimit(capped) == capped => ~stored \/ count <= Limit

\* The condition of the update: attribute_not_exists(count) OR count < limit.
Admitted(capped) == capped => ~stored \/ count < Limit

Request == requests > 0 /\ requests' = requests - 1
Move(ws, state) == row' = [row EXCEPT ![ws] = [state |-> state, version |-> @.version + 1]]
AddCount(n) == count' = count + n /\ stored' = TRUE
Return(w) == call' = [call EXCEPT ![w] = NoCall]

\* persistNew: record and counter in one transaction; without a cap no counter.
PersistNew(ws, capped) ==
    /\ Request
    /\ row[ws].state = "absent"
    /\ IF Admitted(capped)
       THEN /\ Move(ws, "live")
            /\ IF capped THEN AddCount(1) ELSE UNCHANGED <<count, stored>>
       ELSE UNCHANGED <<row, count, stored>>
    /\ drift' = (drift \/ ~capped)
    /\ UNCHANGED <<call, sweep, faults>>

Remove(ws) ==
    /\ Request
    /\ row[ws].state = "live"
    /\ Move(ws, "deleting")
    /\ UNCHANGED <<count, stored, call, sweep, drift, faults>>

Purge(ws) ==
    /\ Request
    /\ row[ws].state = "terminated"
    /\ Move(ws, "absent")
    /\ UNCHANGED <<count, stored, call, sweep, drift, faults>>

\* finishDeleting reads the tombstone, tears down, then writes under the version it
\* read, in one transaction with an unconditional decrement.
FinishDeleting(w, ws) ==
    /\ call[w].pc = "idle"
    /\ row[ws].state = "deleting"
    /\ call' = [call EXCEPT ![w] = [pc |-> "terminate", ws |-> ws, version |-> row[ws].version]]
    /\ UNCHANGED <<row, count, stored, sweep, drift, requests, faults>>

Terminate(w) ==
    /\ call[w].pc = "terminate"
    /\ IF row[call[w].ws].version = call[w].version
       THEN Move(call[w].ws, "terminated") /\ AddCount(-1)
       ELSE UNCHANGED <<row, count, stored>>
    /\ Return(w)
    /\ UNCHANGED <<sweep, drift, requests, faults>>

\* undelete with a cap re-admits in the same transaction; without one the counter
\* is brought up in a second write, which a crash may prevent.
Undelete(w, ws, capped) ==
    /\ Request
    /\ call[w].pc = "idle"
    /\ row[ws].state = "terminated"
    /\ call' = [call EXCEPT ![w] =
                  [pc |-> IF capped THEN "readmit" ELSE "restore",
                   ws |-> ws, version |-> row[ws].version]]
    /\ drift' = (drift \/ ~capped)
    /\ UNCHANGED <<row, count, stored, sweep, faults>>

Readmit(w) ==
    /\ call[w].pc = "readmit"
    /\ IF row[call[w].ws].version = call[w].version /\ Admitted(TRUE)
       THEN Move(call[w].ws, "live") /\ AddCount(1)
       ELSE UNCHANGED <<row, count, stored>>
    /\ Return(w)
    /\ UNCHANGED <<sweep, drift, requests, faults>>

Restore(w) ==
    /\ call[w].pc = "restore"
    /\ IF row[call[w].ws].version = call[w].version
       THEN Move(call[w].ws, "live") /\ call' = [call EXCEPT ![w].pc = "addCount"]
       ELSE UNCHANGED row /\ Return(w)
    /\ UNCHANGED <<count, stored, sweep, drift, requests, faults>>

CountRestored(w) ==
    /\ call[w].pc = "addCount"
    /\ AddCount(1)
    /\ Return(w)
    /\ UNCHANGED <<row, sweep, drift, requests, faults>>

Crash(w) ==
    /\ call[w].pc # "idle"
    /\ faults > 0 /\ faults' = faults - 1
    /\ Return(w)
    /\ UNCHANGED <<row, count, stored, sweep, drift, requests>>

-----------------------------------------------------------------------------
(* reconcileOwnerCounts *)

StartSweep ==
    /\ sweep.pc = "idle"
    /\ sweep' = [NoSweep EXCEPT !.pc = "records", !.todo = {"live", "deleting"}]
    /\ UNCHANGED <<row, count, stored, call, drift, requests, faults>>

\* allRecords: one index query per state, in any order and not one instant.
QueryState ==
    /\ sweep.pc = "records"
    /\ \E state \in sweep.todo :
          sweep' = [sweep EXCEPT
                      !.todo = @ \ {state},
                      !.want = @ + Cardinality({ws \in Workspaces : row[ws].state = state}),
                      !.pc = IF sweep.todo = {state} THEN "counters" ELSE @]
    /\ UNCHANGED <<row, count, stored, call, drift, requests, faults>>

ScanCounters ==
    /\ sweep.pc = "counters"
    /\ sweep' = [sweep EXCEPT !.pc = "correct", !.have = count, !.found = stored]
    /\ UNCHANGED <<row, count, stored, call, drift, requests, faults>>

\* Mutant: a counter that was never stored is left alone.
DisagreesIfStored == sweep.found /\ sweep.have # sweep.want

\* The owner is known from its records or from its counter, and the two differ.
Disagrees ==
    /\ sweep.want # 0 \/ sweep.found
    /\ ~sweep.found \/ sweep.have # sweep.want

\* Set to what was wanted, conditioned on the value observed.
CorrectCount ==
    /\ sweep.pc = "correct"
    /\ IF Disagrees /\ stored = sweep.found /\ count = sweep.have
       THEN count' = sweep.want /\ stored' = TRUE /\ drift' = TRUE
       ELSE UNCHANGED <<count, stored, drift>>
    /\ sweep' = NoSweep
    /\ UNCHANGED <<row, call, requests, faults>>

-----------------------------------------------------------------------------
QuotaInit ==
    /\ row = [ws \in Workspaces |-> [state |-> "absent", version |-> 0]]
    /\ count = 0 /\ stored = FALSE
    /\ call = [w \in Worker |-> NoCall]
    /\ sweep = NoSweep
    /\ drift = FALSE
    /\ requests = MaxRequests /\ faults = MaxFaults

Clients ==
    \/ \E ws \in Workspaces : Remove(ws) \/ Purge(ws)
    \/ \E ws \in Workspaces, capped \in BOOLEAN : PersistNew(ws, capped)
    \/ \E w \in Worker, ws \in Workspaces, capped \in BOOLEAN : Undelete(w, ws, capped)

Proceed(w) == Terminate(w) \/ Readmit(w) \/ Restore(w) \/ CountRestored(w)

Sweep == StartSweep \/ QueryState \/ ScanCounters \/ CorrectCount

QuotaNext ==
    \/ Clients
    \/ \E w \in Worker : (\E ws \in Workspaces : FinishDeleting(w, ws)) \/ Proceed(w) \/ Crash(w)
    \/ Sweep

\* The reconciler sweeps on every tick and a live process finishes its call.
QuotaFairness ==
    /\ \A w \in Worker : WF_quotaVars(Proceed(w))
    /\ WF_quotaVars(Sweep)

QuotaSpec == QuotaInit /\ [][QuotaNext]_quotaVars /\ QuotaFairness

-----------------------------------------------------------------------------
(* Properties *)

\* The counter tells the number of records that count.
Exact == count = Cardinality(Counted)

\* An owner whose calls all pass the cap never holds more workspaces than it, as
\* long as no sweep has overwritten the counter: concurrent creates and undeletes
\* are admitted one by one and a delete frees its place exactly once, however many
\* processes finish it ("a concurrent create past the cap cancels").
CapHolds == ~drift => Exact /\ Cardinality(Counted) <= Limit

\* Whatever calls without a cap, crashed undeletes and racing sweeps did to it, the
\* counter agrees with the records in the end (reconcileOwnerCounts: "self-heal").
CounterHeals == <>[]Exact
=============================================================================
