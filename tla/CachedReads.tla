----------------------------- MODULE CachedReads ----------------------------
(***************************************************************************)
(* The web processes' shared reads: the catalog list, the fleet totals,    *)
(* the cost report, the price list and the account's bill are each read    *)
(* through a ttlCache, which shares one load between the readers of a      *)
(* process.  Catalog mutations drop the cache of their own process.  The   *)
(* catalog list comes from a secondary index, which follows the table.     *)
(***************************************************************************)
EXTENDS Naturals, Sequences

CONSTANTS
    Replica,     \* web processes, each with its own cache
    Reader,      \* requests that read through the cache
    Load,        \* loads that can be under way or cached at once
    Ttl,         \* how long a loaded value is served
    MaxCacheClock,    \* bound: cacheClock
    MaxVersion   \* bound: catalog mutations

None == "none"

ASSUME CacheAssumption ==
    /\ Ttl \in Nat \ {0} /\ MaxCacheClock \in Nat /\ MaxVersion \in Nat
    /\ None \notin Load

VARIABLES
    kind,      \* which of the caches
    cacheClock,
    table,     \* versions of the catalog written
    index,     \* version the index has reached
    returned,  \* [Replica -> version its last mutation request returned with]
    mutation,  \* [Replica -> version written but whose request has not returned]
    entry,     \* [Replica -> the load cached, or None]
    load,      \* [Load -> [at, calls: calls left, value, began, base: table then]]
    reader     \* [Reader -> [at, replica, load, since, seen, failed]]

cacheVars == <<kind, cacheClock, table, index, returned, mutation, entry, load, reader>>

\* What each load awaits, in order; any of these may fail the load.
CatalogCalls == <<"byCatalog">>
FleetCalls == <<"list">>
CostCalls == <<"pricing", "report">>
PricingCalls == <<"AmazonECS", "gp3 volumes", "snapshots">>
AccountCalls == <<"windows", "services">>

Calls == [catalog |-> CatalogCalls, fleet |-> FleetCalls, cost |-> CostCalls,
          pricing |-> PricingCalls, account |-> AccountCalls]

NoLoad == [at |-> "free", calls |-> <<>>, value |-> 0, began |-> 0, base |-> 0]
NoRead == [at |-> "idle", replica |-> None, load |-> None, since |-> 0, seen |-> 0,
           failed |-> FALSE]

CacheInit ==
    /\ kind \in DOMAIN Calls
    /\ cacheClock = 0 /\ table = 0 /\ index = 0
    /\ returned = [p \in Replica |-> 0]
    /\ mutation = [p \in Replica |-> 0]
    /\ entry = [p \in Replica |-> None]
    /\ load = [l \in Load |-> NoLoad]
    /\ reader = [r \in Reader |-> NoRead]

\* A load nobody waits for and no cache holds is forgotten.
Referenced(l) == \/ \E p \in Replica : entry[p] = l
                 \/ \E r \in Reader : reader[r].at = "wait" /\ reader[r].load = l
Usable(l) == load[l].at = "free" \/ (load[l].at # "pending" /\ ~Referenced(l))

Waiting(r, p, l) ==
    reader' = [reader EXCEPT ![r] = [at |-> "wait", replica |-> p, load |-> l, since |-> cacheClock,
                                     seen |-> returned[p], failed |-> load'[l].at = "failed"]]

Fresh(p) == entry[p] # None /\ cacheClock - load[entry[p]].began < Ttl

ReadCached(r, p) ==
    /\ reader[r].at = "idle" /\ Fresh(p)
    /\ UNCHANGED load
    /\ Waiting(r, p, entry[p])
    /\ UNCHANGED <<kind, cacheClock, table, index, returned, mutation, entry>>

ReadLoading(r, p) ==
    LET l == CHOOSE x \in Load : Usable(x) IN
    /\ reader[r].at = "idle" /\ ~Fresh(p) /\ \E x \in Load : Usable(x)
    /\ load' = [load EXCEPT ![l] = [at |-> "pending", calls |-> Calls[kind], value |-> 0,
                                    began |-> cacheClock, base |-> table]]
    /\ entry' = [entry EXCEPT ![p] = l]
    /\ Waiting(r, p, l)
    /\ UNCHANGED <<kind, cacheClock, table, index, returned, mutation>>

LoadCall(l) ==
    /\ load[l].at = "pending"
    /\ load' = [load EXCEPT ![l].calls = Tail(@), ![l].value = index,
                            ![l].at = IF Len(load[l].calls) = 1 THEN "done" ELSE "pending"]
    /\ UNCHANGED <<kind, cacheClock, table, index, returned, mutation, entry, reader>>

\* Mutant: the failed load stays cached for the rest of its life.
FailureKept(l) == entry

\* A failed load is dropped, unless another has taken its place.
WithoutFailed(l) == [p \in Replica |-> IF entry[p] = l THEN None ELSE entry[p]]

LoadFails(l) ==
    /\ load[l].at = "pending"
    /\ load' = [load EXCEPT ![l].at = "failed"]
    /\ entry' = WithoutFailed(l)
    /\ UNCHANGED <<kind, cacheClock, table, index, returned, mutation, reader>>

Answered(r) ==
    /\ reader[r].at = "wait" /\ load[reader[r].load].at \in {"done", "failed"}
    /\ reader' = [reader EXCEPT ![r] = NoRead]
    /\ UNCHANGED <<kind, cacheClock, table, index, returned, mutation, entry, load>>

\* A mutation route writes the entry, then drops the list and answers.
MutateCatalog(p) ==
    /\ kind = "catalog" /\ mutation[p] = 0 /\ table < MaxVersion
    /\ table' = table + 1
    /\ mutation' = [mutation EXCEPT ![p] = table + 1]
    /\ UNCHANGED <<kind, cacheClock, index, returned, entry, load, reader>>

InvalidateCatalogList(p) ==
    /\ mutation[p] # 0
    /\ entry' = [entry EXCEPT ![p] = None]
    /\ returned' = [returned EXCEPT ![p] = mutation[p]]
    /\ mutation' = [mutation EXCEPT ![p] = 0]
    /\ UNCHANGED <<kind, cacheClock, table, index, load, reader>>

IndexFollows == /\ index < table
                /\ index' = table
                /\ UNCHANGED <<kind, cacheClock, table, returned, mutation, entry, load, reader>>

ClockTicks == /\ cacheClock < MaxCacheClock
              /\ cacheClock' = cacheClock + 1
              /\ UNCHANGED <<kind, table, index, returned, mutation, entry, load, reader>>

CacheNext ==
    \/ \E r \in Reader, p \in Replica : ReadCached(r, p) \/ ReadLoading(r, p)
    \/ \E r \in Reader : Answered(r)
    \/ \E l \in Load : LoadCall(l) \/ LoadFails(l)
    \/ \E p \in Replica : MutateCatalog(p) \/ InvalidateCatalogList(p)
    \/ IndexFollows \/ ClockTicks

CacheSpec == CacheInit /\ [][CacheNext]_cacheVars

-----------------------------------------------------------------------------
(* Properties *)

\* Every read is answered from a load that began within the lifetime before the
\* read, after the write of every mutation its process had answered by then, and
\* that had not failed already (ttlCache, invalidateCatalogList).
ReadsCurrent ==
    \A r \in Reader : reader[r].at = "wait" =>
        LET l == load[reader[r].load] IN
        /\ reader[r].since - l.began < Ttl
        /\ l.base >= reader[r].seen
        /\ ~reader[r].failed

=============================================================================
