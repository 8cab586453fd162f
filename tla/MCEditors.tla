----------------------------- MODULE MCEditors -----------------------------
(* Between the browser and the workspace: the traffic filter, the proxy, the   *)
(* caches of the web process, the editor manager, the Monaco editor and        *)
(* opencode's paths.  The components share no state, and in a behaviour one of *)
(* them moves.                                                                 *)
EXTENDS TrafficFilter, WorkspaceProxy, CachedReads, EditorManager, MonacoEditor, OpencodePaths, TLC

VARIABLE part

vars == <<filterVars, proxyVars, cacheVars, managerVars, monacoVars, pathVars, part>>

EditorsInit ==
    /\ part \in {"filter", "proxy", "cache", "manager", "monaco", "paths"}
    /\ FilterInit /\ ProxyInit /\ CacheInit /\ ManagerInit /\ MonacoInit /\ PathInit
    \* What a component that stands still starts with makes no difference.
    /\ part # "cache" => kind = "catalog"
    /\ part # "monaco" => ~command /\ \A f \in File : disk[f] = NoText

EditorsNext ==
    /\ UNCHANGED part
    /\ IF part = "filter" THEN FilterNext ELSE UNCHANGED filterVars
    /\ IF part = "proxy" THEN ProxyNext ELSE UNCHANGED proxyVars
    /\ IF part = "cache" THEN CacheNext ELSE UNCHANGED cacheVars
    /\ IF part = "manager" THEN ManagerNext ELSE UNCHANGED managerVars
    /\ IF part = "monaco" THEN MonacoNext ELSE UNCHANGED monacoVars
    /\ IF part = "paths" THEN PathNext ELSE UNCHANGED pathVars

EditorsSpec == EditorsInit /\ [][EditorsNext]_vars

\* Connections, readers, processes and files are interchangeable; the parts use
\* the same two.
CONSTANTS p1, y1, y2
Y == {y1, y2}
Interchangeable == Permutations(Y)

Networks == p1 :> {"a1"}

\* The two rules Terraform seeds the Web ACL with.
Seeded == {ToWafRule(Rule("baseline", "block", {}), n) : n \in {0, 1}}
=============================================================================
