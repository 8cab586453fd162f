-------------------------- MODULE OwnerQuotaProofs --------------------------
(***************************************************************************)
(* The cap of an owner holds for every set of workspaces and workers and   *)
(* every limit: what is counted and what the counter says move together.   *)
(*                                                                         *)
(* CapHolds is not inductive: an update may only be trusted to change the  *)
(* count by one if the version a worker read still tells the state of the  *)
(* row, and an owner without a stored counter may only be admitted if he   *)
(* has no workspace.                                                       *)
(***************************************************************************)
EXTENDS OwnerQuota, FiniteSetTheorems, TLAPS

RowStates == {"absent", "live", "deleting", "terminated"}
Rows == [Workspaces -> [state : RowStates, version : Nat]]
Calls == [pc : {"idle", "terminate", "readmit", "restore", "addCount"},
          ws : Workspaces \cup {NoCall.ws}, version : Nat]

\* What a worker read of a row is out of date, or the row is in the state it was in;
\* and whoever will add to the counter later has not gone unnoticed.
Timely(c) ==
    c.pc # "idle" =>
        /\ c.ws \in Workspaces
        /\ c.version <= row[c.ws].version
        /\ c.version = row[c.ws].version =>
             /\ c.pc = "terminate" => row[c.ws].state = "deleting"
             /\ c.pc \in {"readmit", "restore"} => row[c.ws].state = "terminated"
        /\ c.pc \in {"restore", "addCount"} => drift

\* The counter tells the number of records, which is within the cap.
Capped ==
    ~drift => /\ IsFiniteSet(Counted) /\ count = Cardinality(Counted)
              /\ count <= Limit
              /\ ~stored => count = 0

QInv ==
    /\ row \in Rows /\ drift \in BOOLEAN
    /\ call \in [Worker -> Calls] /\ \A w \in Worker : Timely(call[w])
    /\ Capped

-----------------------------------------------------------------------------
\* A write moves one row and gives it a version nobody has read.
LEMMA RowMoves ==
    ASSUME QInv, NEW ws \in Workspaces, NEW state \in RowStates, Move(ws, state)
    PROVE  /\ row' \in Rows
           /\ row'[ws].state = state /\ row'[ws].version = row[ws].version + 1
           /\ \A x \in Workspaces \ {ws} : row'[x] = row[x]
BY DEF Move, QInv, Rows

\* The calls of the others remain timely.
LEMMA RowTimely ==
    ASSUME QInv, NEW ws \in Workspaces, NEW state \in RowStates, Move(ws, state),
           NEW w \in Worker, drift => drift'
    PROVE  Timely(call[w])'  \/ ~(call'[w] = call[w])
<1> SUFFICES ASSUME call'[w] = call[w]
             PROVE  Timely(call[w])'
  OBVIOUS
<1>1. /\ Timely(call[w]) /\ call[w] \in Calls /\ row \in Rows
  BY DEF QInv
<1>2. /\ row'[ws].version = row[ws].version + 1
      /\ \A x \in Workspaces \ {ws} : row'[x] = row[x]
  BY RowMoves
<1>3. CASE call[w].ws = ws
  BY <1>1, <1>2, <1>3 DEF Timely, Rows, Calls
<1>4. CASE call[w].ws # ws
  BY <1>1, <1>2, <1>4 DEF Timely, Rows, Calls
<1> QED
  BY <1>3, <1>4

\* A record that begins to count, one that ceases to, one that does neither.
LEMMA CountUp ==
    ASSUME QInv, ~drift, NEW ws \in Workspaces, row[ws].state \in {"absent", "terminated"},
           NEW state \in {"live", "deleting"}, Move(ws, state)
    PROVE  IsFiniteSet(Counted') /\ Cardinality(Counted') = Cardinality(Counted) + 1
<1>1. ws \notin Counted /\ Counted' = Counted \cup {ws}
  BY RowMoves DEF Counted, RowStates
<1>2. IsFiniteSet(Counted)
  BY DEF QInv, Capped
<1> QED
  BY <1>1, <1>2, FS_AddElement

LEMMA CountDown ==
    ASSUME QInv, ~drift, NEW ws \in Workspaces, row[ws].state = "deleting",
           Move(ws, "terminated")
    PROVE  IsFiniteSet(Counted') /\ Cardinality(Counted') = Cardinality(Counted) - 1
<1>1. ws \in Counted /\ Counted' = Counted \ {ws}
  BY RowMoves DEF Counted, RowStates
<1>2. IsFiniteSet(Counted)
  BY DEF QInv, Capped
<1> QED
  BY <1>1, <1>2, FS_RemoveElement

LEMMA CountStays ==
    ASSUME QInv, NEW ws \in Workspaces, NEW state \in RowStates,
           state \in {"live", "deleting"} <=> row[ws].state \in {"live", "deleting"},
           Move(ws, state)
    PROVE  Counted' = Counted
BY RowMoves DEF Counted

\* The number of records is a natural number, below the limit for whom is admitted.
LEMMA Room ==
    ASSUME QInv, ~drift
    PROVE  /\ count \in Nat /\ count = Cardinality(Counted)
           /\ Limit \in Nat /\ (Admitted(TRUE) => count < Limit)
<1>1. IsFiniteSet(Counted) /\ count = Cardinality(Counted) /\ (~stored => count = 0)
  BY DEF QInv, Capped
<1>2. Cardinality(Counted) \in Nat
  BY <1>1, FS_CardinalityType
<1> QED
  BY <1>1, <1>2, QuotaAssumption DEF Admitted

\* A worker's call ends, or is at another step.
LEMMA CallMoves ==
    ASSUME QInv, NEW w \in Worker, NEW c \in Calls, call' = [call EXCEPT ![w] = c]
    PROVE  /\ call' \in [Worker -> Calls] /\ call'[w] = c
           /\ \A v \in Worker \ {w} : call'[v] = call[v]
BY DEF QInv

LEMMA Returned ==
    ASSUME QInv, NEW w \in Worker, Return(w)
    PROVE  /\ call' \in [Worker -> Calls] /\ Timely(call[w])'
           /\ \A v \in Worker \ {w} : call'[v] = call[v]
<1>1. NoCall \in Calls /\ NoCall.pc = "idle"
  BY DEF NoCall, Calls
<1> QED
  BY <1>1, CallMoves DEF Return, Timely

\* A step that moves no row keeps the calls timely.
LEMMA StillTimely ==
    ASSUME QInv, row' = row, drift => drift', NEW w \in Worker, call'[w] = call[w]
    PROVE  Timely(call[w])'
BY DEF QInv, Timely

-----------------------------------------------------------------------------
LEMMA PersistNewKeeps ==
    ASSUME QInv, NEW ws \in Workspaces, NEW capped \in BOOLEAN, PersistNew(ws, capped)
    PROVE  QInv'
<1>1. /\ call' = call /\ drift' = (drift \/ ~capped) /\ row[ws].state = "absent"
      /\ drift' \in BOOLEAN /\ call' \in [Worker -> Calls]
  BY DEF PersistNew, QInv
<1>2. CASE Admitted(capped)
  <2>1. Move(ws, "live") /\ row' \in Rows
    BY <1>2, RowMoves DEF PersistNew, RowStates
  <2>2. \A v \in Worker : Timely(call[v])'
    BY <1>1, <2>1, RowTimely DEF RowStates
  <2>3. ASSUME ~drift' PROVE capped = TRUE /\ ~drift
    BY <1>1, <2>3
  <2>4. Capped'
    BY <1>1, <1>2, <2>1, <2>3, Room, CountUp DEF Capped, PersistNew, AddCount
  <2> QED
    BY <1>1, <2>1, <2>2, <2>4 DEF QInv
<1>3. CASE ~Admitted(capped)
  <2>1. row' = row /\ count' = count /\ stored' = stored
    BY <1>3 DEF PersistNew
  <2> QED
    BY <1>1, <2>1, StillTimely DEF QInv, Capped, Counted
<1> QED
  BY <1>2, <1>3

LEMMA RemoveKeeps ==
    ASSUME QInv, NEW ws \in Workspaces, Remove(ws) \/ Purge(ws)
    PROVE  QInv'
<1>1. call' = call /\ drift' = drift /\ count' = count /\ stored' = stored
  BY DEF Remove, Purge
<1>2. PICK state \in RowStates :
        /\ Move(ws, state)
        /\ state \in {"live", "deleting"} <=> row[ws].state \in {"live", "deleting"}
  BY DEF Remove, Purge, RowStates
<1>3. row' \in Rows /\ Counted' = Counted
  BY <1>2, RowMoves, CountStays
<1>4. \A v \in Worker : Timely(call[v])'
  BY <1>1, <1>2, RowTimely
<1> QED
  BY <1>1, <1>3, <1>4 DEF QInv, Capped

\* A call begins: what it read is the row.
LEMMA Begun ==
    ASSUME QInv, NEW w \in Worker, NEW c \in Calls, call' = [call EXCEPT ![w] = c],
           row' = row, count' = count, stored' = stored,
           drift' \in BOOLEAN, drift => drift',
           c.ws \in Workspaces, c.version = row[c.ws].version,
           \/ c.pc = "terminate" /\ row[c.ws].state = "deleting"
           \/ c.pc = "readmit" /\ row[c.ws].state = "terminated"
           \/ c.pc = "restore" /\ row[c.ws].state = "terminated" /\ drift'
    PROVE  QInv'
<1>1. call' \in [Worker -> Calls] /\ call'[w] = c /\ \A v \in Worker \ {w} : call'[v] = call[v]
  BY CallMoves
<1>2. Timely(call[w])'
  BY <1>1 DEF Timely, QInv, Rows
<1>3. \A v \in Worker \ {w} : Timely(call[v])'
  BY <1>1, StillTimely
<1> QED
  BY <1>1, <1>2, <1>3 DEF QInv, Capped, Counted

LEMMA FinishDeletingKeeps ==
    ASSUME QInv, NEW w \in Worker, NEW ws \in Workspaces, FinishDeleting(w, ws)
    PROVE  QInv'
<1>1. PICK c : c = [pc |-> "terminate", ws |-> ws, version |-> row[ws].version]
  OBVIOUS
<1>2. c \in Calls
  <2>1. row[ws].version \in Nat
    BY DEF QInv, Rows
  <2> QED
    BY <1>1, <2>1 DEF Calls
<1>3. drift' = drift /\ drift \in BOOLEAN
  BY DEF FinishDeleting, QInv
<1>4. c.pc = "terminate" /\ c.ws = ws /\ c.version = row[ws].version /\ row[ws].state = "deleting"
  BY <1>1 DEF FinishDeleting
<1>5. row' = row /\ count' = count /\ stored' = stored /\ call' = [call EXCEPT ![w] = c]
  BY <1>1 DEF FinishDeleting
<1> QED
  BY <1>2, <1>3, <1>4, <1>5, Begun

LEMMA UndeleteKeeps ==
    ASSUME QInv, NEW w \in Worker, NEW ws \in Workspaces, NEW capped \in BOOLEAN,
           Undelete(w, ws, capped)
    PROVE  QInv'
<1>1. PICK c : c = [pc |-> IF capped THEN "readmit" ELSE "restore", ws |-> ws,
                    version |-> row[ws].version]
  OBVIOUS
<1>2. c \in Calls
  BY <1>1 DEF QInv, Rows, Calls
<1>3. drift' = (drift \/ ~capped) /\ drift' \in BOOLEAN
  BY DEF Undelete, QInv
<1>4. \/ c.pc = "readmit" /\ row[ws].state = "terminated"
      \/ c.pc = "restore" /\ row[ws].state = "terminated" /\ drift'
  BY <1>1, <1>3 DEF Undelete
<1> QED
  BY <1>1, <1>2, <1>3, <1>4, Begun DEF Undelete

\* The delete ends once: whoever still holds the version of the row ends it.
LEMMA TerminateKeeps ==
    ASSUME QInv, NEW w \in Worker, Terminate(w)
    PROVE  QInv'
<1>1. /\ call' \in [Worker -> Calls] /\ Timely(call[w])' /\ drift' = drift /\ drift \in BOOLEAN
      /\ \A v \in Worker \ {w} : call'[v] = call[v]
  BY Returned DEF Terminate, QInv
<1>2. CASE row[call[w].ws].version = call[w].version
  <2>1. PICK ws \in Workspaces : ws = call[w].ws /\ row[ws].state = "deleting"
    BY <1>2 DEF QInv, Timely, Terminate
  <2>2. Move(ws, "terminated") /\ AddCount(-1) /\ row' \in Rows
    BY <1>2, <2>1, RowMoves DEF Terminate, RowStates
  <2>3. \A v \in Worker \ {w} : Timely(call[v])'
    BY <1>1, <2>2, RowTimely DEF RowStates
  <2>4. ASSUME ~drift
        PROVE  /\ IsFiniteSet(Counted') /\ count' = Cardinality(Counted')
               /\ count' <= Limit /\ stored' = TRUE
    <3>1. count \in Nat /\ count = Cardinality(Counted) /\ Limit \in Nat /\ count <= Limit
      BY <2>4, Room DEF QInv, Capped
    <3>2. IsFiniteSet(Counted') /\ Cardinality(Counted') = Cardinality(Counted) - 1
      BY <2>1, <2>2, <2>4, CountDown
    <3>3. count' = count - 1 /\ stored' = TRUE
      BY <2>2, <3>1 DEF AddCount
    <3> QED
      BY <3>1, <3>2, <3>3
  <2>5. Capped'
    BY <1>1, <2>4 DEF Capped
  <2> QED
    BY <1>1, <2>2, <2>3, <2>5 DEF QInv
<1>3. CASE row[call[w].ws].version # call[w].version
  <2>1. row' = row /\ count' = count /\ stored' = stored
    BY <1>3 DEF Terminate
  <2> QED
    BY <1>1, <2>1, StillTimely DEF QInv, Capped, Counted
<1> QED
  BY <1>2, <1>3

\* An undelete with a cap is admitted in the transaction that moves the row.
LEMMA ReadmitKeeps ==
    ASSUME QInv, NEW w \in Worker, Readmit(w)
    PROVE  QInv'
<1>1. /\ call' \in [Worker -> Calls] /\ Timely(call[w])' /\ drift' = drift /\ drift \in BOOLEAN
      /\ \A v \in Worker \ {w} : call'[v] = call[v]
  BY Returned DEF Readmit, QInv
<1>2. CASE row[call[w].ws].version = call[w].version /\ Admitted(TRUE)
  <2>1. PICK ws \in Workspaces : ws = call[w].ws /\ row[ws].state = "terminated"
    BY <1>2 DEF QInv, Timely, Readmit
  <2>2. Move(ws, "live") /\ AddCount(1) /\ row' \in Rows
    BY <1>2, <2>1, RowMoves DEF Readmit, RowStates
  <2>3. \A v \in Worker \ {w} : Timely(call[v])'
    BY <1>1, <2>2, RowTimely DEF RowStates
  <2>4. Capped'
    BY <1>1, <1>2, <2>1, <2>2, Room, CountUp DEF Capped, AddCount
  <2> QED
    BY <1>1, <2>2, <2>3, <2>4 DEF QInv
<1>3. CASE ~(row[call[w].ws].version = call[w].version /\ Admitted(TRUE))
  <2>1. row' = row /\ count' = count /\ stored' = stored
    BY <1>3 DEF Readmit
  <2> QED
    BY <1>1, <2>1, StillTimely DEF QInv, Capped, Counted
<1> QED
  BY <1>2, <1>3

\* An undelete without one is not: the counter is known to have drifted.
LEMMA RestoreKeeps ==
    ASSUME QInv, NEW w \in Worker, Restore(w) \/ CountRestored(w)
    PROVE  QInv'
<1>1. drift /\ drift' = drift /\ drift \in BOOLEAN /\ Capped'
  BY DEF Restore, CountRestored, QInv, Timely, Capped
<1>2. CASE Restore(w) /\ row[call[w].ws].version = call[w].version
  <2>1. PICK ws \in Workspaces : ws = call[w].ws
    BY <1>2 DEF QInv, Timely, Restore
  <2>2. Move(ws, "live") /\ row' \in Rows /\ row'[ws].version = row[ws].version + 1
    BY <1>2, <2>1, RowMoves DEF Restore, RowStates
  <2>3. PICK c : c = [call[w] EXCEPT !.pc = "addCount"] /\ call' = [call EXCEPT ![w] = c]
    BY <1>2 DEF Restore
  <2>4. c \in Calls /\ c.pc = "addCount" /\ c.ws = ws /\ c.version = row[ws].version
    BY <1>2, <2>1, <2>3 DEF QInv, Calls
  <2>5. call' \in [Worker -> Calls] /\ call'[w] = c /\ \A v \in Worker \ {w} : call'[v] = call[v]
    BY <2>3, <2>4, CallMoves
  <2>6. Timely(call[w])'
    BY <1>1, <2>1, <2>2, <2>4, <2>5 DEF Timely, QInv, Rows
  <2>7. \A v \in Worker \ {w} : Timely(call[v])'
    BY <1>1, <2>2, <2>5, RowTimely DEF RowStates
  <2> QED
    BY <1>1, <2>2, <2>5, <2>6, <2>7 DEF QInv
<1>3. CASE ~(Restore(w) /\ row[call[w].ws].version = call[w].version)
  <2>1. row' = row /\ Return(w)
    BY <1>3 DEF Restore, CountRestored
  <2> QED
    BY <1>1, <2>1, Returned, StillTimely DEF QInv
<1> QED
  BY <1>2, <1>3

\* A crash loses the call; a sweep writes the counter only to be noticed.
LEMMA CrashKeeps ==
    ASSUME QInv, NEW w \in Worker, Crash(w)
    PROVE  QInv'
<1>1. row' = row /\ Return(w) /\ drift' = drift /\ count' = count /\ stored' = stored
  BY DEF Crash
<1> QED
  BY <1>1, Returned, StillTimely DEF QInv, Capped, Counted

LEMMA SweepKeeps ==
    ASSUME QInv, Sweep
    PROVE  QInv'
<1>1. row' = row /\ call' = call
  BY DEF Sweep, StartSweep, QueryState, ScanCounters, CorrectCount
<1>2. drift' = TRUE \/ (drift' = drift /\ count' = count /\ stored' = stored)
  BY DEF Sweep, StartSweep, QueryState, ScanCounters, CorrectCount
<1> QED
  BY <1>1, <1>2, StillTimely DEF QInv, Capped, Counted

-----------------------------------------------------------------------------
LEMMA QuotaInitially == QuotaInit => QInv
<1> SUFFICES ASSUME QuotaInit
             PROVE  QInv
  OBVIOUS
<1>1. Counted = {} /\ row \in Rows
  BY DEF QuotaInit, Counted, Rows, RowStates
<1>2. NoCall \in Calls /\ NoCall.pc = "idle"
  BY DEF NoCall, Calls
<1>3. call \in [Worker -> Calls] /\ \A w \in Worker : Timely(call[w])
  BY <1>2 DEF QuotaInit, Timely
<1>4. Capped
  BY <1>1, FS_EmptySet, QuotaAssumption DEF Capped, QuotaInit
<1> QED
  BY <1>1, <1>3, <1>4 DEF QInv, QuotaInit

LEMMA QuotaStep == QInv /\ [QuotaNext]_quotaVars => QInv'
<1> SUFFICES ASSUME QInv, [QuotaNext]_quotaVars
             PROVE  QInv'
  OBVIOUS
<1>1. CASE Clients
  BY <1>1, RemoveKeeps, PersistNewKeeps, UndeleteKeeps DEF Clients
<1>2. ASSUME NEW w \in Worker, Proceed(w) \/ Crash(w)
      PROVE  QInv'
  BY <1>2, TerminateKeeps, ReadmitKeeps, RestoreKeeps, CrashKeeps DEF Proceed
<1>3. ASSUME NEW w \in Worker, NEW ws \in Workspaces, FinishDeleting(w, ws)
      PROVE  QInv'
  BY <1>3, FinishDeletingKeeps
<1>4. CASE UNCHANGED quotaVars
  BY <1>4, StillTimely DEF quotaVars, QInv, Capped, Counted
<1> QED
  BY <1>1, <1>2, <1>3, <1>4, SweepKeeps DEF QuotaNext

\* However many workers create, delete, finish deletes and undelete at once, an owner
\* whose calls pass the cap (persistNew, undelete and finishDeleting, one transaction
\* each) holds no more workspaces than it, until a sweep or an uncapped call intervenes.
THEOREM CapIsKept == QuotaSpec => []CapHolds
<1>1. QInv => CapHolds
  BY DEF QInv, Capped, CapHolds, Exact
<1> QED
  BY <1>1, QuotaInitially, QuotaStep, PTL DEF QuotaSpec
=============================================================================
