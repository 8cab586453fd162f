----------------------------- MODULE EcsLaunch ------------------------------
(***************************************************************************)
(* Launching workspace tasks on ECS: runTask puts the per-workspace tokens *)
(* in Secrets Manager, registers a task definition that names them (cached *)
(* in the process), runs it and waits until it is ready.  In another       *)
(* process the reconciler deletes the secrets of workspaces that hold no   *)
(* task and deregisters all but the newest revisions of an image's family. *)
(* All workspaces here share one image.                                    *)
(***************************************************************************)
EXTENDS Naturals, Sequences, FiniteSets

CONSTANTS
    Ws,         \* workspaces
    Proc,       \* control-plane processes, each with its own cache
    Keep,       \* taskDefKeep: newest revisions the prune keeps per family
    MaxFamily   \* bound: active revisions of the family

ASSUME EcsAssumption == Keep \in Nat \ {0} /\ MaxFamily \in Nat /\ MaxFamily > Keep

VARIABLES
    injected,  \* the deployment has a Secrets Manager client and token secrets
    record,    \* [Ws -> "stopped" | "waking" | "running"]; running has a task id
    secret,    \* [Ws -> "none" | "young" | "old"]: its secrets, past the grace or not
    cached,    \* [Proc -> [key -> registered revision]]: [state, names], names: its
               \* secret ARNs are those of the secrets that exist now
    family,    \* active revisions, newest first: <<proc, key>> or Uncached
    run,       \* [Ws -> the runTask under way: at, proc, names]
    reaper     \* reapOrphanSecrets: [at, keep, todo]

ecsVars == <<injected, record, secret, cached, family, run, reaper>>

NoDef == [state |-> "none", names |-> FALSE]
Uncached == <<>>
AnyWs == "any workspace"
NoRun(p) == [at |-> "idle", proc |-> p, names |-> FALSE, retried |-> FALSE]
NoReap == [at |-> "idle", keep |-> {}, todo |-> {}]

EcsInit ==
    /\ injected \in BOOLEAN
    /\ record = [w \in Ws |-> "stopped"]
    /\ secret = [w \in Ws |-> "none"]
    /\ cached = [p \in Proc |-> [k \in Ws \cup {AnyWs} |-> NoDef]]
    /\ family = <<>>
    /\ run = [w \in Ws |-> NoRun(CHOOSE p \in Proc : TRUE)]
    /\ reaper = NoReap

\* A revision that names secrets is a workspace's own; otherwise the image's
\* workspaces share one, and the tokens go in the plain environment of the run.
TaskDefCacheKey(w) == IF injected THEN w ELSE AnyWs
Def(w) == cached[run[w].proc][TaskDefCacheKey(w)]

-----------------------------------------------------------------------------
(* runTask *)

LaunchTask(w, p) ==
    /\ record[w] = "stopped" /\ run[w].at = "idle"
    /\ record' = [record EXCEPT ![w] = "waking"]
    /\ run' = [run EXCEPT ![w] = [NoRun(p) EXCEPT !.at = IF injected THEN "secret" ELSE "def"]]
    /\ UNCHANGED <<injected, secret, cached, family, reaper>>

\* Created, or overwritten in place: its creation date stays.
EnsureWorkspaceSecret(w) ==
    /\ run[w].at = "secret"
    /\ secret' = [secret EXCEPT ![w] = IF @ = "none" THEN "young" ELSE @]
    /\ run' = [run EXCEPT ![w].at = "def", ![w].names = TRUE]
    /\ UNCHANGED <<injected, record, cached, family, reaper>>

\* The revision the process registered earlier under this key no longer counts.
Orphaned(f, p, k) == [i \in 1..Len(f) |-> IF f[i] = <<p, k>> THEN Uncached ELSE f[i]]

\* Cached under its key, whatever ARNs it names.
EnsureTaskDef(w) ==
    LET p == run[w].proc
        k == TaskDefCacheKey(w)
    IN
    /\ run[w].at = "def"
    /\ run' = [run EXCEPT ![w].at = "run"]
    /\ IF Def(w).state # "none"
       THEN UNCHANGED <<cached, family>>
       ELSE /\ Len(family) < MaxFamily
            /\ family' = <<<<p, k>>>> \o Orphaned(family, p, k)
            /\ cached' = [cached EXCEPT ![p][k] = [state |-> "active", names |-> run[w].names]]
    /\ UNCHANGED <<injected, record, secret, reaper>>

Fails(w) == /\ record' = [record EXCEPT ![w] = "stopped"]
            /\ run' = [run EXCEPT ![w] = NoRun(run[w].proc)]

\* Mutant: the dead revision stays in the cache.
KeepDef(w) == Def(w)

\* What the cache holds once RunTask has refused an inactive revision.
EvictDef(w) == NoDef

\* The API call: placement may be refused; an inactive revision is evicted and
\* registered again, once.
RunTaskApi(w) ==
    LET p == run[w].proc IN
    /\ run[w].at = "run"
    /\ \/ /\ Def(w).state = "active"
          /\ run' = [run EXCEPT ![w].at = "boot", ![w].names = Def(w).names]
          /\ UNCHANGED <<record, cached>>
       \/ /\ Def(w).state = "active"
          /\ Fails(w) /\ UNCHANGED cached
       \/ /\ Def(w).state = "inactive" /\ ~run[w].retried
          /\ cached' = [cached EXCEPT ![p][TaskDefCacheKey(w)] = EvictDef(w)]
          /\ run' = [run EXCEPT ![w].at = "def", ![w].retried = TRUE]
          /\ UNCHANGED record
       \/ /\ Def(w).state = "inactive" /\ run[w].retried
          /\ Fails(w) /\ UNCHANGED cached
    /\ UNCHANGED <<injected, secret, family, reaper>>

\* Tokens that are injected are left out of the environment, so ECS must resolve
\* the secrets the revision names.
TokensResolve(w) == injected => run[w].names

\* The task boots with its tokens; otherwise it stops before it is ready, and
\* runTask stops it and throws.
TaskReady(w) ==
    /\ run[w].at = "boot" /\ TokensResolve(w)
    /\ record' = [record EXCEPT ![w] = "running"]
    /\ run' = [run EXCEPT ![w] = NoRun(run[w].proc)]
    /\ UNCHANGED <<injected, secret, cached, family, reaper>>

TaskStopsEarly(w) ==
    /\ run[w].at = "boot"
    /\ Fails(w)
    /\ UNCHANGED <<injected, secret, cached, family, reaper>>

StopWorkspaceTask(w) ==
    /\ record[w] = "running"
    /\ record' = [record EXCEPT ![w] = "stopped"]
    /\ UNCHANGED <<injected, secret, cached, family, run, reaper>>

-----------------------------------------------------------------------------
(* The reconciler's sweeps *)

AgeSecret(w) == /\ secret[w] = "young"
                /\ secret' = [secret EXCEPT ![w] = "old"]
                /\ UNCHANGED <<injected, record, cached, family, run, reaper>>

\* The workspaces whose secrets are kept: those that hold a task.
RuntimeSecretWorkspaceIds == {w \in Ws : record[w] = "running"}

ListSecretReferences ==
    /\ injected /\ reaper.at = "idle"
    /\ reaper' = [at |-> "list", keep |-> RuntimeSecretWorkspaceIds, todo |-> {}]
    /\ UNCHANGED <<injected, record, secret, cached, family, run>>

SelectOrphanSecrets(existing, keep) == {w \in existing \ keep : secret[w] = "old"}

ListWorkspaceAgentSecrets ==
    /\ reaper.at = "list"
    /\ LET orphans == SelectOrphanSecrets({w \in Ws : secret[w] # "none"}, reaper.keep)
       IN  reaper' = IF orphans = {} THEN NoReap
                     ELSE [at |-> "delete", keep |-> {}, todo |-> orphans]
    /\ UNCHANGED <<injected, record, secret, cached, family, run>>

\* The secret goes at once; whatever names its ARN names nothing from now on.
\* A delete that fails leaves it to the next sweep.
DeleteAgentSecret(w) ==
    /\ reaper.at = "delete" /\ w \in reaper.todo
    /\ reaper' = IF reaper.todo = {w} THEN NoReap ELSE [reaper EXCEPT !.todo = @ \ {w}]
    /\ \/ /\ secret' = [secret EXCEPT ![w] = "none"]
          /\ cached' = [p \in Proc |-> [cached[p] EXCEPT ![w].names = FALSE]]
          /\ run' = [run EXCEPT ![w].names = FALSE]
       \/ UNCHANGED <<secret, cached, run>>
    /\ UNCHANGED <<injected, record, family>>

\* One deregistration of the prune, oldest first.
PruneTaskDefinitions ==
    /\ Len(family) > Keep
    /\ LET oldest == family[Len(family)] IN
       /\ family' = SubSeq(family, 1, Len(family) - 1)
       /\ cached' = IF oldest = Uncached THEN cached
                    ELSE [cached EXCEPT ![oldest[1]][oldest[2]].state = "inactive"]
    /\ UNCHANGED <<injected, record, secret, run, reaper>>

RunStep(w) == EnsureWorkspaceSecret(w) \/ EnsureTaskDef(w) \/ RunTaskApi(w)
                  \/ TaskReady(w) \/ TaskStopsEarly(w)

EcsNext ==
    \/ \E w \in Ws : \/ \E p \in Proc : LaunchTask(w, p)
                     \/ EnsureWorkspaceSecret(w) \/ EnsureTaskDef(w) \/ RunTaskApi(w)
                     \/ TaskReady(w) \/ TaskStopsEarly(w) \/ StopWorkspaceTask(w)
                     \/ AgeSecret(w) \/ DeleteAgentSecret(w)
    \/ ListSecretReferences \/ ListWorkspaceAgentSecrets
    \/ PruneTaskDefinitions

\* A launch runs to its end and the prune goes on; RunTask and the boot succeed in
\* the end if they are tried for ever. Nobody has to wake a workspace.
EcsFairness ==
    /\ \A w \in Ws : /\ WF_ecsVars(RunStep(w))
                     /\ SF_ecsVars(RunTaskApi(w) /\ run'[w].at = "boot")
                     /\ SF_ecsVars(TaskReady(w))
    /\ WF_ecsVars(PruneTaskDefinitions)

EcsSpec == EcsInit /\ [][EcsNext]_ecsVars /\ EcsFairness

-----------------------------------------------------------------------------
(* Properties *)

\* A pruned task definition does not brick a workspace: without injected
\* secrets, a workspace that is woken again and again comes up again and again,
\* although the reconciler deregisters revisions the process has cached (runTask).
PrunedDefHeals ==
    \A w \in Ws : []<>(record[w] = "waking") => []<>(injected \/ record[w] = "running")

=============================================================================
