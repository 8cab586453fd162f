--------------------------- MODULE WorkspaceProxy ---------------------------
(***************************************************************************)
(* The in-app proxy in front of one workspace's editor: /w/<id>/ requests  *)
(* and WebSocket upgrades are authorized against the caller's session, may *)
(* wake the workspace, and are forwarded; each editor socket counts as     *)
(* presence until it closes or its session lapses, and a periodic sweep    *)
(* turns presence into heartbeats.                                         *)
(***************************************************************************)
EXTENDS Naturals, FiniteSets

CONSTANTS
    Conn,           \* browser connections the replica may serve at a time
    User, Owner,    \* the people with a sign-in session; the workspace's owner
    Admin,          \* those with the admin role
    SessionLength,  \* lifetime of a session cookie and of its row, in ticks
    MaxTime         \* bound: ticks

ASSUME ProxyAssumption == /\ Owner \in User /\ Admin \subseteq User
                          /\ SessionLength \in Nat /\ MaxTime \in Nat

VARIABLES
    now,
    session,   \* [User -> [token, row, live]]: expiry of cookie and row, not revoked
    desk,      \* [state, host, ok]: the record, is a host bound, functional = "ok"
    conn,      \* [Conn -> what the proxy is doing for the connection]
    presence,  \* [tracked, lost]: expiry tracked per connection, and the latest expiry
               \* of the entries nobody will untrack
    presenceSweep      \* the presence sweep: [at, now]

proxyVars == <<now, session, desk, conn, presence, presenceSweep>>

Closed == [at |-> "free", kind |-> "none", user |-> Owner, tokened |-> FALSE,
           grant |-> 0, open |-> FALSE]

Lesser(a, b) == IF a < b THEN a ELSE b

Greater(a, b) == IF a < b THEN b ELSE a

ProxyInit ==
    /\ now = 0
    /\ session = [u \in User |-> [token |-> SessionLength, row |-> SessionLength, live |-> TRUE]]
    /\ desk = [state |-> "running", host |-> TRUE, ok |-> TRUE]
    /\ conn = [c \in Conn |-> Closed]
    /\ presence = [tracked |-> [c \in Conn |-> 0], lost |-> 0]
    /\ presenceSweep = [at |-> "idle", now |-> 0]

-----------------------------------------------------------------------------
(* The world around the proxy *)

ProxyTick == /\ now < MaxTime
             /\ now' = now + 1
             /\ UNCHANGED <<session, desk, conn, presence, presenceSweep>>

\* A page of the application re-issues the cookie; validating it rolls the row.
VisitApp(u) ==
    /\ session' = [session EXCEPT ![u] = [token |-> now + SessionLength,
                                          row |-> now + SessionLength, live |-> TRUE]]
    /\ UNCHANGED <<now, desk, conn, presence, presenceSweep>>

LeaveApp(u) == /\ session[u].live
               /\ session' = [session EXCEPT ![u].live = FALSE]
               /\ UNCHANGED <<now, desk, conn, presence, presenceSweep>>

\* The lifecycle the proxy reads: a launch binds a host, the agent reports the
\* editor healthy, the reconciler stops it, a delete removes the record.
DeskChanges ==
    /\ \/ /\ desk.state = "starting"
          /\ desk' = [state |-> "running", host |-> TRUE, ok |-> FALSE]
       \/ desk.state = "running" /\ ~desk.ok /\ desk' = [desk EXCEPT !.ok = TRUE]
       \/ /\ desk.state = "running"
          /\ desk' = [state |-> "stopped", host |-> FALSE, ok |-> FALSE]
       \/ desk.state = "stopped" /\ desk' = [desk EXCEPT !.state = "absent"]
    /\ UNCHANGED <<now, session, conn, presence, presenceSweep>>

-----------------------------------------------------------------------------
(* Presence registry *)

\* Mutant: the registry is keyed by workspace, so one tab's close untracks all.
UntrackWorkspace(c) == [presence EXCEPT !.tracked = [d \in Conn |-> 0]]

\* The closing socket's own entry is removed; another socket's never is.
Untrack(c) == [presence EXCEPT !.tracked[c] = 0]

Track(c, expires) == [presence EXCEPT !.tracked[c] = expires]

\* A finished connection leaves behind an entry that no close event removed.
Forget(p, c) == [tracked |-> [p.tracked EXCEPT ![c] = 0],
                 lost |-> Greater(p.lost, p.tracked[c])]

\* Entries whose session has lapsed are pruned on the way.
LoadedWorkspaces(t) ==
    LET unlapsed(e) == IF e > t THEN e ELSE 0 IN
    [tracked |-> [c \in Conn |-> unlapsed(presence.tracked[c])], lost |-> unlapsed(presence.lost)]

AnyoneIn(p) == p.lost > 0 \/ \E c \in Conn : p.tracked[c] > 0

SweepPresence ==
    /\ presenceSweep.at = "idle"
    /\ presence' = LoadedWorkspaces(now)
    /\ presenceSweep' = IF AnyoneIn(presence') THEN [at |-> "beat", now |-> now] ELSE presenceSweep
    /\ UNCHANGED <<now, session, desk, conn>>

\* The heartbeat itself belongs to the workspace service; a refusal is ignored.
SendHeartbeat == /\ presenceSweep.at = "beat"
                 /\ presenceSweep' = [at |-> "idle", now |-> 0]
                 /\ UNCHANGED <<now, session, desk, conn, presence>>

-----------------------------------------------------------------------------
(* Authorization *)

Granted(u) == u \in Admin \/ u = Owner

\* The cookie's expiry and the row's as read; the refresh may roll the row on.
SessionExpiresAt(u) == Lesser(session[u].token, session[u].row)

PresenceGrant(u) == SessionExpiresAt(u)

Ready == desk.state = "running" /\ desk.ok

\* The connection is over: its socket is destroyed, and a close that is heard
\* untracks it.
Finish(c, heard) ==
    /\ conn' = [conn EXCEPT ![c] = Closed]
    /\ presence' = Forget(IF heard THEN Untrack(c) ELSE presence, c)

\* What of a request's head decides whether it is the browser opening the
\* workspace or the editor's own traffic: Sec-Fetch-Dest, an Accept with
\* text/html, and the path /w/<id>/ itself.
Heads == [dest : {"document", "other", "absent"}, html : BOOLEAN, root : BOOLEAN]

IsDocumentNavigation(h) == h.dest = "document" \/ (h.dest = "absent" /\ h.html)

IsWorkspaceDocumentNavigation(h) == IsDocumentNavigation(h) \/ h.root

Receive(c, u, kind) ==
    /\ conn[c].at = "free"
    /\ conn' = [conn EXCEPT ![c] = [Closed EXCEPT !.at = "authenticate", !.kind = kind,
                                                  !.user = u, !.open = TRUE]]
    /\ UNCHANGED <<now, session, desk, presence, presenceSweep>>

HttpRequest(c, u, h) ==
    Receive(c, u, IF IsWorkspaceDocumentNavigation(h) THEN "document" ELSE "asset")

UpgradeRequest(c, u) == Receive(c, u, "upgrade")

\* liveSessionToken: an unlapsed cookie over a live, unlapsed row; otherwise a
\* redirect to the login page, or 403 on an upgrade.
LiveSessionToken(c) ==
    LET u == conn[c].user IN
    /\ conn[c].at = "authenticate"
    /\ IF session[u].live /\ session[u].token > now /\ session[u].row > now
       THEN /\ conn' = [conn EXCEPT ![c].at = "inspect",
                   ![c].grant = IF conn[c].kind = "upgrade" THEN PresenceGrant(u) ELSE 0]
            /\ \E rolled \in {session[u].row, now + SessionLength} :
                   session' = [session EXCEPT ![u].row = rolled]
            /\ UNCHANGED presence
       ELSE Finish(c, TRUE) /\ UNCHANGED session
    /\ UNCHANGED <<now, desk, presenceSweep>>

\* authorizeWorkspace from the read of the record on, and what server.ts does
\* with the verdict in the same turn of the event loop.
AuthorizeWorkspace(c) ==
    /\ conn[c].at = "inspect"
    /\ \/ /\ desk.state = "absent" \/ ~Granted(conn[c].user)
          /\ Finish(c, TRUE)
       \/ /\ desk.state # "absent" /\ Granted(conn[c].user)
          /\ \/ /\ conn[c].kind = "upgrade"
                /\ presence' = Track(c, conn[c].grant)
                /\ conn' = [conn EXCEPT ![c].at = "resolve"]
             \/ /\ conn[c].kind = "document" /\ ~Ready
                /\ Finish(c, TRUE)
             \/ /\ conn[c].kind = "document" /\ Ready /\ ~conn[c].tokened
                /\ conn' = [conn EXCEPT ![c].at = "authenticate", ![c].tokened = TRUE]
                /\ UNCHANGED presence
             \/ /\ conn[c].kind = "asset"
                /\ Finish(c, TRUE)
             \/ /\ conn[c].kind = "asset" \/ (conn[c].kind = "document" /\ Ready /\ conn[c].tokened)
                /\ conn' = [conn EXCEPT ![c].at = "resolve"]
                /\ UNCHANGED presence
    /\ UNCHANGED <<now, session, desk, presenceSweep>>

-----------------------------------------------------------------------------
(* Wake and find the upstream *)

\* connect wakes a stopped workspace; a refusal is 502.
ConnectWorkspace(c) ==
    /\ conn[c].at = "resolve"
    /\ \/ /\ desk.state # "absent"
          /\ desk' = IF desk.state = "stopped" THEN [desk EXCEPT !.state = "starting"] ELSE desk
          /\ conn' = [conn EXCEPT ![c].at = "host"]
          /\ UNCHANGED presence
       \/ Finish(c, conn[c].open) /\ UNCHANGED desk
    /\ UNCHANGED <<now, session, presenceSweep>>

ResolveUpstream(c) ==
    /\ conn[c].at = "host"
    /\ IF desk.host
       THEN /\ conn' = [conn EXCEPT ![c].at =
                            IF conn[c].kind = "upgrade" THEN "connect" ELSE "send"]
            /\ UNCHANGED presence
       ELSE Finish(c, conn[c].open)
    /\ UNCHANGED <<now, session, desk, presenceSweep>>

-----------------------------------------------------------------------------
(* Forwarding a request *)

\* The upstream's head: its body is streamed, or buffered to be rewritten.
UpstreamAnswers(c) ==
    /\ conn[c].at = "send"
    /\ \E at \in {"stream", "buffer"} : conn' = [conn EXCEPT ![c].at = at]
    /\ UNCHANGED <<now, session, desk, presence, presenceSweep>>

\* The body ends (rewritten, or 502 when a rewrite throws or the body is over
\* the cap), or the connection fails or times out.
UpstreamEnds(c) ==
    /\ conn[c].at \in {"send", "stream", "buffer"}
    /\ Finish(c, TRUE)
    /\ UNCHANGED <<now, session, desk, presenceSweep>>

\* Mutant: the buffering handler does not listen for errors either.
UpstreamDropsUnheard(c) ==
    /\ conn[c].at \in {"stream", "buffer"}
    /\ conn' = [conn EXCEPT ![c].at = "hung"]
    /\ UNCHANGED <<now, session, desk, presence, presenceSweep>>

\* The upstream closes in the middle of a body: the buffering handler answers
\* 502, a pipe leaves the response open.
UpstreamDrops(c) ==
    /\ conn[c].at \in {"stream", "buffer"}
    /\ IF conn[c].at = "buffer"
       THEN Finish(c, TRUE)
       ELSE conn' = [conn EXCEPT ![c].at = "hung"] /\ UNCHANGED presence
    /\ UNCHANGED <<now, session, desk, presenceSweep>>

-----------------------------------------------------------------------------
(* Tunnelling an upgrade *)

Upgraded(c) == /\ conn[c].at = "connect"
               /\ conn' = [conn EXCEPT ![c].at = "tunnel"]
               /\ UNCHANGED <<now, session, desk, presence, presenceSweep>>

\* No upgrade, an error or the connect timeout; later, the upstream closing.
TunnelEnds(c) == /\ conn[c].at \in {"connect", "tunnel"}
                 /\ Finish(c, conn[c].open)
                 /\ UNCHANGED <<now, session, desk, presenceSweep>>

\* The browser goes away.  Nobody listens before the handler has decided: the
\* handler runs on, and what it registers later never fires.  (A request that
\* is not yet forwarded is answered into the void.)
ClientCloses(c) ==
    /\ conn[c].open
    /\ conn[c].kind = "upgrade" \/ conn[c].at \in {"send", "stream", "buffer", "hung"}
    /\ IF conn[c].at \in {"connect", "tunnel", "send", "stream", "buffer", "hung"}
       THEN Finish(c, TRUE)
       ELSE /\ conn' = [conn EXCEPT ![c].open = FALSE]
            /\ presence' = IF conn[c].at \in {"resolve", "host"} THEN Untrack(c) ELSE presence
    /\ UNCHANGED <<now, session, desk, presenceSweep>>

Handler(c) == LiveSessionToken(c) \/ AuthorizeWorkspace(c) \/ ConnectWorkspace(c)
                  \/ ResolveUpstream(c)

ProxyNext ==
    \/ ProxyTick \/ DeskChanges \/ SweepPresence \/ SendHeartbeat
    \/ \E u \in User : VisitApp(u) \/ LeaveApp(u)
    \/ \E c \in Conn :
           \/ \E u \in User : UpgradeRequest(c, u) \/ \E h \in Heads : HttpRequest(c, u, h)
           \/ Handler(c)
           \/ UpstreamAnswers(c) \/ UpstreamEnds(c) \/ UpstreamDrops(c)
           \/ Upgraded(c) \/ TunnelEnds(c)
           \/ ClientCloses(c)

\* The handler goes on, an editor that was sent a request answers or drops it,
\* and a tunnel that is being opened opens or ends.
ProxyFairness ==
    \A c \in Conn : /\ WF_proxyVars(Handler(c))
                    /\ WF_proxyVars(UpstreamEnds(c) \/ UpstreamDrops(c) \/ UpstreamAnswers(c))
                    /\ WF_proxyVars(Upgraded(c) \/ TunnelEnds(c))

ProxySpec == ProxyInit /\ [][ProxyNext]_proxyVars /\ ProxyFairness

-----------------------------------------------------------------------------
(* Properties *)

\* An open editor tab keeps its workspace awake: while the browser holds its
\* socket and the session that opened it has not lapsed, the connection is in
\* the registry, whatever other tabs opened or closed (PresenceRegistry).
OpenTabCounts ==
    \A c \in Conn :
        (conn[c].at \in {"connect", "tunnel"} /\ conn[c].open /\ conn[c].grant > now)
            => presence.tracked[c] = conn[c].grant

\* Every request is answered, streamed or tunnelled in the end: no redirect to the
\* editor repeats itself, and a body buffered for rewriting is answered even when
\* the editor dies in the middle of it; only a response whose body is already
\* streaming can be left hanging (server.ts, proxyWorkspaceHttp).
RequestAnswered ==
    /\ \A c \in Conn : []<>(conn[c].at \in {"free", "stream", "hung", "tunnel"})
    /\ [][\A c \in Conn : conn'[c].at = "hung" => conn[c].at \in {"stream", "hung"}]_conn

=============================================================================
