----------------------------- MODULE MCPlatform -----------------------------
(* Around the sessions: billing, the health board, the catalog and the         *)
(* snapshots.  The components share no state, and in a behaviour one of them   *)
(* moves.                                                                      *)
EXTENDS CostLedger, HealthBoard, SessionCreate, EbsSettle, SnapshotConsole, TLC

VARIABLE part

vars == <<costVars, boardVars, catalogVars, ebsVars, consoleVars, part>>

PlatformInit ==
    /\ part \in {"cost", "board", "catalog", "ebs", "console"}
    /\ CostInit /\ BoardInit /\ CatalogInit /\ EbsInit /\ ConsoleInit
    \* What a component that stands still starts with makes no difference.
    /\ part # "board" => coordinates = "complete"

PlatformNext ==
    /\ UNCHANGED part
    /\ IF part = "cost" THEN CostNext ELSE UNCHANGED costVars
    /\ IF part = "board" THEN BoardNext ELSE UNCHANGED boardVars
    /\ IF part = "catalog" THEN CatalogNext ELSE UNCHANGED catalogVars
    /\ IF part = "ebs" THEN EbsNext ELSE UNCHANGED ebsVars
    /\ IF part = "console" THEN ConsoleNext ELSE UNCHANGED consoleVars

PlatformSpec == PlatformInit /\ [][PlatformNext]_vars

CONSTANTS w1, w2, y1, y2

\* One workspace with a whole life, one with the beginning of one.
Lives == w1 :> 4 @@ w2 :> 1

\* Requests, calls and permissions are interchangeable; the parts use the same two.
Y == {y1, y2}
Interchangeable == Permutations(Y)
=============================================================================
