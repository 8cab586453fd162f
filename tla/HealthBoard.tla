----------------------------- MODULE HealthBoard -----------------------------
(***************************************************************************)
(* What an operator is told about the deployment.  A report asks every     *)
(* dependency at once and waits for all the answers, while dependencies    *)
(* fail and recover under it.  The health page, the configuration          *)
(* self-check and the published observation are made from such a report.   *)
(***************************************************************************)
EXTENDS Naturals, FiniteSets

CONSTANTS
    IamAction,     \* actions the control plane's role requires
    StaleAfter,    \* heartbeat age past which the reconciler counts as stalled
    MaxBeatAge,    \* the age stops counting here
    MaxOutages     \* dependency changes of the run

ASSUME BoardAssumption == StaleAfter \in Nat /\ MaxBeatAge \in Nat /\ MaxOutages \in Nat

Dependency == {"dynamodb", "compute", "storage"}
Check == Dependency \cup {"reconciler", "git-integration"}

VARIABLES
    coordinates,   \* what the environment configures: "complete" or "missing"
    dependency,    \* [Dependency -> "up", "impaired", "absent" or "unreachable"]
    outages,       \* dependency changes so far
    beatAge,       \* time since the reconciler's last recorded sweep, or NoBeat
    report,        \* the report being made, or NoReport
    told           \* the latest verdict, by whichever page gave it

boardVars == <<coordinates, dependency, outages, beatAge, report, told>>

NoBeat == MaxBeatAge + 1
NoReport == [at |-> "none"]
Unchecked == "unchecked"

BoardInit ==
    /\ coordinates \in {"complete", "missing"}
    /\ dependency = [d \in Dependency |-> "up"]
    /\ outages = 0
    /\ beatAge = NoBeat
    /\ report = NoReport
    /\ told = [by |-> "nobody"]

-----------------------------------------------------------------------------
(* The deployment *)

\* What is wrong at a moment. A report remembers, for the properties, what was
\* wrong when it began and has not recovered since.
Broken(dep, age) ==
    {d \in Dependency : dep[d] # "up"}
        \cup (IF age \in (StaleAfter + 1)..MaxBeatAge THEN {"reconciler"} ELSE {})

StillBroken(now) ==
    report' = IF report = NoReport THEN NoReport
              ELSE [report EXCEPT !.throughout = @ \cap now]

\* The cluster, the zones or the table work, are there but not active, or cannot
\* be reached; the table may also be missing.
DependencyState(d) ==
    {"up", "impaired", "unreachable"} \cup (IF d = "dynamodb" THEN {"absent"} ELSE {})

DependencyChanges(d) ==
    /\ outages < MaxOutages
    /\ outages' = outages + 1
    /\ \E s \in DependencyState(d) \ {dependency[d]} :
            dependency' = [dependency EXCEPT ![d] = s]
    /\ StillBroken(Broken(dependency', beatAge))
    /\ UNCHANGED <<coordinates, beatAge, told>>

\* Rows can be read and written.
Readable == dependency["dynamodb"] \in {"up", "impaired"}

\* The heartbeat is written after a completed sweep and before the gauges; a
\* failed write is logged.
SweepCompletes ==
    /\ Readable /\ beatAge # 0
    /\ beatAge' = 0
    /\ StillBroken(Broken(dependency, 0))
    /\ UNCHANGED <<coordinates, dependency, outages, told>>

BeatAges ==
    /\ beatAge < MaxBeatAge
    /\ beatAge' = beatAge + 1
    /\ UNCHANGED <<coordinates, dependency, outages, report, told>>

-----------------------------------------------------------------------------
(* HealthService.report: the checks run at once, Promise.all waits for them *)

\* An earlier verdict says nothing about the new report, so it is forgotten.
StartReport ==
    /\ report = NoReport
    /\ report' = [at |-> "checking", found |-> [c \in Check |-> Unchecked],
                  throughout |-> Broken(dependency, beatAge)]
    /\ told' = [by |-> "nobody"]
    /\ UNCHANGED <<coordinates, dependency, outages, beatAge>>

ReconcilerHealthFromHeartbeat ==
    CASE beatAge = NoBeat -> "unknown"
      [] beatAge <= StaleAfter -> "ok"
      [] OTHER -> "degraded"

\* DescribeTable: a table that is missing or not active is degraded.
PingTable ==
    CASE dependency["dynamodb"] = "up" -> "ok"
      [] dependency["dynamodb"] = "unreachable" -> "down"
      [] OTHER -> "degraded"

\* DescribeClusters: the configured cluster is active, or not, or the call fails.
ComputeHealth ==
    CASE dependency["compute"] = "up" -> "ok"
      [] dependency["compute"] = "impaired" -> "degraded"
      [] OTHER -> "down"

\* DescribeAvailabilityZones: some zone is available, or none, or the call fails.
StorageHealth ==
    CASE dependency["storage"] = "up" -> "ok"
      [] dependency["storage"] = "impaired" -> "degraded"
      [] OTHER -> "down"

\* A GitHub App is asked for its installations; account linking is taken as it
\* is, and having neither is degraded.
GitIntegrationHealth(tokens, app) ==
    CASE tokens = "app" /\ app = "installed" -> "ok"
      [] tokens = "app" /\ app = "installed nowhere" -> "degraded"
      [] tokens = "app" /\ app = "refuses" -> "down"
      [] tokens = "oauth" -> "ok"
      [] OTHER -> "degraded"

GitFindings ==
    {GitIntegrationHealth(tokens, app) :
        tokens \in {"app", "oauth", "none"}, app \in {"installed", "installed nowhere", "refuses"}}

Finds(c) ==
    CASE c = "dynamodb" -> {PingTable}
      [] c = "compute" -> {ComputeHealth}
      [] c = "storage" -> {StorageHealth}
      [] c = "reconciler" -> {ReconcilerHealthFromHeartbeat}
      [] OTHER -> GitFindings

\* Reading the heartbeat throws when the table cannot be read, and the whole
\* report is rejected with it.
RunCheck(c) ==
    /\ report.at = "checking" /\ report.found[c] = Unchecked
    /\ IF c = "reconciler" /\ ~Readable
       THEN report' = [report EXCEPT !.at = "rejected"]
       ELSE \E s \in Finds(c) : report' = [report EXCEPT !.found[c] = s]
    /\ UNCHANGED <<coordinates, dependency, outages, beatAge, told>>

Severity(s) == CASE s = "down" -> 2 [] s = "degraded" -> 1 [] OTHER -> 0

\* Mutant: a later component's status replaces an equal or worse one.
SummarizeLast(found) ==
    IF found["reconciler"] = "unknown" THEN found["storage"] ELSE found["reconciler"]

\* The worst status; unknown ranks with ok.
SummarizeHealth(found) ==
    IF \A c \in DOMAIN found : Severity(found[c]) = 0 THEN "ok"
    ELSE CHOOSE s \in {"degraded", "down"} :
            /\ \E c \in DOMAIN found : found[c] = s
            /\ \A c \in DOMAIN found : Severity(found[c]) <= Severity(s)

Complete == report.at = "checking" /\ \A c \in Check : report.found[c] # Unchecked

ShowReport ==
    /\ Complete
    /\ told' = [by |-> "board", status |-> SummarizeHealth(report.found),
                throughout |-> report.throughout]
    /\ report' = NoReport
    /\ UNCHANGED <<coordinates, dependency, outages, beatAge>>

\* The request answers 500; a page that has shown a report keeps it under a banner.
ShowError ==
    /\ report.at = "rejected"
    /\ told' = [by |-> "nobody"]
    /\ report' = NoReport
    /\ UNCHANGED <<coordinates, dependency, outages, beatAge>>

-----------------------------------------------------------------------------
(* The configuration self-check *)

\* iamPreflight: unavailable when it lacks an identity or a coordinate of its own
\* or a call is refused; else the decisions for each action, one per statement and
\* resource, a provisional allow counting as a denial.
IamPreflight ==
    {[kind |-> "unavailable"]} \cup
    [kind : {"checked"}, decisions : [IamAction -> SUBSET {"allowed", "denied"}]]

\* An action is held when some decision allows it.
EvaluateIamPermissions(signal) ==
    CASE signal.kind = "unavailable" -> "unknown"
      [] \A a \in IamAction : "allowed" \in signal.decisions[a] -> "ok"
      [] OTHER -> "drift"

DependencyCheck(s) == CASE s = "ok" -> "ok" [] s = "unknown" -> "unknown" [] OTHER -> "drift"

EvaluateConfigSync(found, signal) ==
    /\ coordinates # "missing"
    /\ DependencyCheck(found["dynamodb"]) # "drift"
    /\ DependencyCheck(found["compute"]) # "drift"
    /\ EvaluateIamPermissions(signal) # "drift"

NotAllowed(signal) ==
    IF signal.kind = "unavailable" THEN {}
    ELSE {a \in IamAction : "allowed" \notin signal.decisions[a]}

\* unmet keeps, for the properties, what the verdict had to take into account.
GetConfigSyncReport ==
    /\ Complete
    /\ \E signal \in IamPreflight :
        told' = [by |-> "config sync", inSync |-> EvaluateConfigSync(report.found, signal),
                 unmet |-> (report.throughout \cap {"dynamodb", "compute"})
                           \cup (IF coordinates = "missing" THEN {"coordinates"} ELSE {})
                           \cup NotAllowed(signal)]
    /\ report' = NoReport
    /\ UNCHANGED <<coordinates, dependency, outages, beatAge>>

-----------------------------------------------------------------------------
(* The infrastructure view, and the observation for the monitoring collector *)

\* Its health leaves the git integration out.
InfrastructureReport(found) == [c \in Check \ {"git-integration"} |-> found[c]]

\* The nodes of the system's graph; the clients, the gateway and the workspaces
\* have no check of their own.
SystemTopology ==
    Dependency \cup {"reconciler", "control-plane", "user", "ssh-gateway", "workspace"}

\* A node takes its component's status, and is unknown without one. The control
\* plane answers for itself.
OverlayTopologyHealth(found) ==
    [n \in SystemTopology |-> CASE n \in DOMAIN found -> found[n]
                               [] n = "control-plane" -> "ok"
                               [] OTHER -> "unknown"]

ShowInfrastructure ==
    /\ Complete
    /\ told' = [by |-> "infrastructure", throughout |-> report.throughout,
                nodes |-> OverlayTopologyHealth(InfrastructureReport(report.found))]
    /\ report' = NoReport
    /\ UNCHANGED <<coordinates, dependency, outages, beatAge>>

\* readSelfMemory: each counter of memory.events is read by itself; one the
\* kernel does not have, and every one without cgroup v2, is absent.
ReadSelfMemory == [ceilingHits : {"zero", "positive", "absent"},
                   socketThrottles : {"zero", "positive", "absent"}]

\* The container is judged on the counters that could be read.
ContainerHealth(m) ==
    LET readable == {m.ceilingHits, m.socketThrottles} \ {"absent"}
    IN  CASE readable = {} -> "unknown"
          [] "positive" \in readable -> "degraded"
          [] OTHER -> "healthy"

MapHealth(s) == CASE s = "ok" -> "healthy" [] s = "down" -> "unhealthy" [] OTHER -> s

\* The control plane's row carries the roll-up, the container's its own counters.
BuildObservation ==
    /\ Complete
    /\ \E m \in ReadSelfMemory :
        told' = [by |-> "observation",
                 status |-> MapHealth(SummarizeHealth(InfrastructureReport(report.found))),
                 container |-> ContainerHealth(m),
                 throughout |-> report.throughout
                     \cup (IF "positive" \in {m.ceilingHits, m.socketThrottles}
                           THEN {"container"} ELSE {})]
    /\ report' = NoReport
    /\ UNCHANGED <<coordinates, dependency, outages, beatAge>>

BoardNext ==
    \/ \E d \in Dependency : DependencyChanges(d)
    \/ SweepCompletes
    \/ BeatAges
    \/ StartReport
    \/ \E c \in Check : RunCheck(c)
    \/ ShowReport
    \/ ShowError
    \/ GetConfigSyncReport
    \/ ShowInfrastructure
    \/ BuildObservation

BoardSpec == BoardInit /\ [][BoardNext]_boardVars

-----------------------------------------------------------------------------
(* Properties *)

\* Nothing is called healthy over a fault that lasted the whole report: not the
\* board, not a node of the infrastructure view, and neither the control plane
\* nor the container in the published observation; and the deployment is called in
\* sync only with its coordinates, its dependencies and every required permission
\* in place (core/src/observability/health.ts, topology.ts, config-sync.ts,
\* iam-requirements.ts, apps/web/lib/observation.ts).
NoFalseAllClear ==
    /\ told.by = "board" /\ told.status = "ok" => told.throughout = {}
    /\ told.by = "observation" =>
        /\ told.status = "healthy" => told.throughout \subseteq {"container"}
        /\ told.container = "healthy" => "container" \notin told.throughout
    /\ told.by = "infrastructure" =>
        \A n \in told.throughout : told.nodes[n] \in {"degraded", "down"}
    /\ told.by = "config sync" /\ told.inSync => told.unmet = {}

=============================================================================
