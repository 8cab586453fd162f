----------------------------- MODULE ApiAccess ------------------------------
(***************************************************************************)
(* Who may change a workspace through the REST API.  A request is          *)
(* authenticated (the server session of its browser, lowered by the "view  *)
(* as" cookie, or a per-workspace machine token), checked against the      *)
(* ability of the role, the workspace is loaded and its owner compared,    *)
(* and only then does the route call the service, which reads the record   *)
(* again.  Each of these is awaited, so sign-ins, the cookie and the       *)
(* record may change in between.  What the service does is reduced to the  *)
(* part of the record authorization depends on; WorkspaceService has the   *)
(* rest.  Response bodies and the catalog of read routes are left out.     *)
(***************************************************************************)
EXTENDS Naturals

CONSTANTS Person, Call, Workspace

Role == {"viewer", "developer", "admin"}
Rank == [viewer |-> 0, developer |-> 1, admin |-> 2]

VARIABLES
    seat,     \* who is signed in on the shared browser, with the role of the sign-in
    cookie,   \* its persona cookie
    wsRow,    \* [Workspace -> owner, state and share flag of the record]
    call      \* [Call -> the request in progress]

apiVars == <<seat, cookie, wsRow, call>>

-----------------------------------------------------------------------------
(* Principals and abilities *)

Nobody == [user |-> "nobody", role |-> "viewer"]

\* Mutant: the cookie is taken as it is, because it was clamped when it was set.
CookieRole(real, requested) ==
    IF requested \in Role THEN requested ELSE real

\* The persona a request asks for is clamped to the role of the session.
EffectiveRole(real, requested) ==
    IF requested \in Role /\ Rank[requested] <= Rank[real] THEN requested ELSE real

\* A cookie of another schema version reads as no override.
WithPersona == [seat EXCEPT !.role = EffectiveRole(seat.role, cookie)]

Can(role, action) == action # "read" => role \in {"developer", "admin"}

OwnsOrAdmin(p, owner) == p.role = "admin" \/ p.user = owner

-----------------------------------------------------------------------------
(* Credentials and routes *)

\* A machine token is derived from a secret of its kind and one workspace.
Credential == [kind : {"agent", "gateway"}, ws : Workspace \cup {"another"}]
                \cup {[kind |-> "session"], [kind |-> "garbage"]}

CheckMachineAuth(cred, kind, w) ==
    CASE cred.kind = "session" -> "absent"
      [] cred = [kind |-> kind, ws |-> w] -> "valid"
      [] OTHER -> "invalid"

\* machine: the tokens a route takes; people: whose session it takes, if any;
\* action: the ability it needs; effect: the service call it makes.
Route(machine, people, action, effect) ==
    [machine |-> machine, people |-> people, action |-> action, effect |-> effect]

\* Session routes on one workspace, for its owner and admins.
StartRoute      == Route({}, "owned", "update", "start")
StopRoute       == Route({}, "owned", "update", "stop")
CancelStopRoute == Route({}, "owned", "update", "cancelStop")
RetryRoute      == Route({}, "owned", "update", "none")   \* none: what wsRow keeps of the
SnapshotRoute   == Route({}, "owned", "update", "none")   \* record stays as it is
RestoreRoute    == Route({}, "owned", "update", "none")
PatchRoute      == Route({}, "owned", "update", "none")
UndeleteRoute   == Route({}, "owned", "update", "undelete")
ShareRoute      == {Route({}, "owned", "update", e) : e \in {"share", "unshare"}}
DeleteRoute     == Route({}, "owned", "delete", "delete")
PurgeRoute      == Route({}, "owned", "delete", "purge")
LogsRoute       == Route({}, "owned", "read", "none")
MonitoringRoute == Route({}, "owned", "read", "none")
SnapshotsRoute  == Route({}, "owned", "read", "none")

\* Routes the gateway or the agent of the workspace may use as well, or alone.
GetRoute           == Route({"gateway"}, "owned", "read", "none")
ConnectRoute       == Route({"gateway"}, "owned", "update", "start")
ConnectInfoRoute   == Route({"gateway"}, "owned", "read", "none")
HeartbeatRoute     == Route({"agent"}, "owned", "update", "touch")
SecurityEventRoute == Route({"agent"}, "none", "read", "none")
BrokerRoute        == Route({"agent"}, "none", "read", "secrets")
SshAuthorizeRoute  == Route({"agent", "gateway"}, "none", "read", "none")

\* Fleet-wide routes, for admins: none of them changes a record's owner or state.
AdminRoute == Route({}, "admin", "manage", "none")

Routes ==
    ShareRoute \cup
    {StartRoute, StopRoute, CancelStopRoute, RetryRoute, SnapshotRoute, RestoreRoute,
     PatchRoute, UndeleteRoute, DeleteRoute, PurgeRoute, LogsRoute, MonitoringRoute,
     SnapshotsRoute, GetRoute, ConnectRoute, ConnectInfoRoute, HeartbeatRoute,
     SecurityEventRoute, BrokerRoute, SshAuthorizeRoute, AdminRoute}

MachineValid(cred, r, w) == \E k \in r.machine : CheckMachineAuth(cred, k, w) = "valid"

RequireAdmin(p) == p.role = "admin"

\* Without a token the route's session rules apply; a wrong token is refused.
SessionValid(cred, r) ==
    /\ cred.kind = "session" /\ seat # Nobody
    /\ \/ r.people = "owned" /\ Can(WithPersona.role, r.action)
       \/ r.people = "admin" /\ RequireAdmin(WithPersona)

-----------------------------------------------------------------------------
NoRow == [owner |-> "nobody", state |-> "absent", shared |-> FALSE]
Purged == [NoRow EXCEPT !.state = "purged"]   \* ids are never used again
Found(w) == wsRow[w] \notin {NoRow, Purged}
Free == [at |-> "idle"]

ApiInit ==
    /\ seat = Nobody
    /\ cookie = "none"
    /\ wsRow = [w \in Workspace |-> NoRow]
    /\ call = [c \in Call |-> Free]

Step(c, next) == /\ call' = [call EXCEPT ![c] = next]
                 /\ UNCHANGED <<seat, cookie>>

\* The identity provider's groups decide the role, once per sign-in.
SignInAs(u, role) ==
    /\ seat = Nobody
    /\ seat' = [user |-> u, role |-> role]
    /\ UNCHANGED <<cookie, wsRow, call>>

\* Signing out ends the session and leaves the persona cookie.
SignOut ==
    /\ seat # Nobody
    /\ seat' = Nobody
    /\ UNCHANGED <<cookie, wsRow, call>>

\* The switcher stores the clamped role, or nothing when it is the real one.
SetPersona(requested) ==
    /\ seat # Nobody
    /\ LET clamped == EffectiveRole(seat.role, requested)
       IN  cookie' = IF clamped = seat.role THEN "none" ELSE clamped
    /\ UNCHANGED <<seat, wsRow, call>>

\* "Reset cookies" drops the sign-in with everything else.
ResetCookies ==
    /\ seat' = Nobody
    /\ cookie' = "none"
    /\ UNCHANGED <<wsRow, call>>

\* A request reaches its route: session and persona are resolved together.
\* real is the session behind the persona, kept to state the property.
Send(c, cred, r, w) ==
    /\ call[c] = Free
    /\ \/ /\ MachineValid(cred, r, w)
          /\ Step(c, [at |-> "load", effect |-> r.effect, ws |-> w, principal |-> Nobody,
                      real |-> Nobody, machine |-> TRUE])
       \/ /\ SessionValid(cred, r)
          /\ Step(c, [at |-> "load", effect |-> r.effect, ws |-> w, principal |-> WithPersona,
                      real |-> seat, machine |-> FALSE])
    /\ UNCHANGED wsRow

\* POST /workspaces: ability, body, catalog entry and repository are checked
\* before the record is reserved for the caller.
SendCreate(c, w) ==
    /\ call[c] = Free /\ seat # Nobody
    /\ Can(WithPersona.role, "create")
    /\ Step(c, [at |-> "create", ws |-> w, principal |-> WithPersona, real |-> seat])
    /\ UNCHANGED wsRow

ReserveWorkspace(c) ==
    /\ call[c].at = "create"
    /\ wsRow[call[c].ws] = NoRow
    /\ wsRow' = [wsRow EXCEPT ![call[c].ws] =
                    [NoRow EXCEPT !.owner = call[c].principal.user, !.state = "live"]]
    /\ Step(c, Free)

\* A malformed body, a disabled image, an exhausted quota, an unreachable
\* repository or a failing service call: answered without an effect.
Refused(c) ==
    /\ call[c] # Free
    /\ Step(c, Free)
    /\ UNCHANGED wsRow

\* cp.get and the ownership check, the last use of the principal; a route
\* without an effect answers here.
LoadOwnedWorkspace(c) ==
    /\ call[c].at = "load"
    /\ LET it == call[c]
           found == wsRow[it.ws]
       IN  /\ Found(it.ws)
           /\ it.machine \/ OwnsOrAdmin(it.principal, found.owner)
           /\ it.effect = "secrets" => found.state \notin {"deleting", "terminated"}
           /\ Step(c, IF it.effect \in {"none", "secrets"} THEN Free
                      ELSE [it EXCEPT !.at = "run", !.principal = Nobody])
    /\ UNCHANGED wsRow

\* What the service makes of the record it finds; other states are a conflict.
Effect(found, effect) ==
    CASE effect = "start" /\ found.state = "stopped" -> [found EXCEPT !.state = "live"]
      [] effect = "stop" /\ found.state \in {"live", "idle"} -> [found EXCEPT !.state = "stopping"]
      [] effect = "cancelStop" /\ found.state = "stopping" -> [found EXCEPT !.state = "live"]
      [] effect = "share" /\ found.state \in {"live", "idle"} -> [found EXCEPT !.shared = TRUE]
      [] effect = "unshare" -> [found EXCEPT !.shared = FALSE]
      [] effect = "touch" /\ found.state = "idle" -> [found EXCEPT !.state = "live"]
      [] effect = "delete" /\ found.state \notin {"deleting", "terminated"} ->
            [found EXCEPT !.state = "deleting", !.shared = FALSE]
      [] effect = "undelete" /\ found.state = "terminated" -> [found EXCEPT !.state = "stopped"]
      [] effect = "purge" /\ found.state = "terminated" -> Purged
      [] OTHER -> found

RunLifecycleAction(c) ==
    /\ call[c].at = "run"
    /\ LET it == call[c]
       IN  /\ Found(it.ws)
           /\ wsRow' = [wsRow EXCEPT ![it.ws] = Effect(@, it.effect)]
    /\ Step(c, Free)

\* The reconciler's sweeps: a delete or a stop is finished, a quiet session
\* goes idle.  A launch under way, running or failed is "live".
SweepsTo == {<<"deleting", "terminated">>, <<"stopping", "stopped">>, <<"live", "idle">>}

Sweep(w) ==
    /\ \E move \in SweepsTo :
         /\ wsRow[w].state = move[1]
         /\ wsRow' = [wsRow EXCEPT ![w].state = move[2],
                                   ![w].shared = @ /\ move[2] = "idle"]
    /\ UNCHANGED <<seat, cookie, call>>

ApiNext ==
    \/ \E u \in Person, role \in Role : SignInAs(u, role)
    \/ SignOut
    \/ \E requested \in Role : SetPersona(requested)
    \/ ResetCookies
    \/ \E c \in Call, cred \in Credential, r \in Routes, w \in Workspace : Send(c, cred, r, w)
    \/ \E c \in Call, w \in Workspace : SendCreate(c, w)
    \/ \E c \in Call : \/ ReserveWorkspace(c)
                       \/ Refused(c)
                       \/ LoadOwnedWorkspace(c)
                       \/ RunLifecycleAction(c)
    \/ \E w \in Workspace : Sweep(w)

ApiSpec == ApiInit /\ [][ApiNext]_apiVars

-----------------------------------------------------------------------------
(* Properties *)

\* A person's own request: the session behind it, not the persona it asks for.
ByOwner(it, w) == it.real.user = wsRow[w].owner /\ it.real.role # "viewer"
ByAdmin(it) == it.real.role = "admin"
ByMachine(it) == it.machine /\ it.effect \in {"start", "touch"}

\* A record changes only through a request of its owner signed in as a
\* developer or admin, of an admin, of the workspace's own agent or gateway
\* (which may wake it or report activity), or by the deletion sweep; whatever
\* sign-ins, personas and deletions happen while the request is under way.
\* (apps/web/lib/api.ts loadOwnedWorkspace, loadConnectableWorkspace;
\* packages/authz effectiveRole, "can only downgrade".)
ChangesAuthorized ==
    [][\A w \in Workspace :
         Found(w) /\ wsRow'[w] # wsRow[w] =>
            \/ Sweep(w)
            \/ \E c \in Call :
                 /\ call[c].at = "run" /\ call[c].ws = w
                 /\ ByOwner(call[c], w) \/ ByAdmin(call[c]) \/ ByMachine(call[c])]_apiVars
=============================================================================
