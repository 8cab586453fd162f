------------------------------ MODULE Spectate ------------------------------
(***************************************************************************)
(* Public spectating of one workspace.  The owner's editor tabs poll the   *)
(* share flag and publish frames to the relay of the replica their socket  *)
(* lands on; viewers subscribe on the replica theirs lands on and retry    *)
(* until one of them holds the publisher.                                  *)
(***************************************************************************)
EXTENDS Integers

CONSTANTS
    Tab,           \* the owner's editor tabs on the workspace
    Sock,          \* publish sockets, reused once both ends have closed
    Relay,         \* replicas, each with its own relay
    Viewer,        \* spectators
    MaxRetries,    \* MAX_RETRIES: retries after "no publisher"
    MaxTransient   \* retries after any other close

ASSUME SpectateAssumption == {MaxRetries, MaxTransient} \subseteq Nat

VARIABLES
    share,    \* shareEnabled of the workspace record
    tab,      \* [Tab -> [open, sharing, sock, timer]]: module state of the tab
    sock,     \* [Sock -> [state, tab, relay, ends]]: ends whose close event is due
    channel,  \* [Relay -> NoChannel or [publisher, subscribers, snapshot]]
    viewer    \* [Viewer -> [phase, attempts]]

spectateVars == <<share, tab, sock, channel, viewer>>

NoSock == "no socket"
NoTab == "no tab"
NoChannel == [publisher |-> NoSock, subscribers |-> {}, snapshot |-> NoSock]
Free == [state |-> "free", tab |-> NoTab, relay |-> "none", ends |-> {}]
ClosedTab == [open |-> FALSE, sharing |-> FALSE, sock |-> NoSock, timer |-> FALSE]

SpectateInit ==
    /\ share = FALSE
    /\ tab = [t \in Tab |-> ClosedTab]
    /\ sock = [k \in Sock |-> Free]
    /\ channel = [r \in Relay |-> NoChannel]
    /\ viewer = [v \in Viewer |-> [phase |-> "connecting", attempts |-> 0]]

Watching(v) == \E r \in Relay : v \in channel[r].subscribers

-----------------------------------------------------------------------------
(* Sockets *)

\* One end closes: close events become due.
Closing(k, ends) == [sock[k] EXCEPT !.state = "closing", !.ends = ends]
Handled(k, end) == IF sock[k].ends = {end} THEN Free ELSE [sock[k] EXCEPT !.ends = @ \ {end}]

-----------------------------------------------------------------------------
(* The owner: the share toggle and the tabs *)

SetShare(b) ==
    /\ share # b
    /\ share' = b
    /\ UNCHANGED <<tab, sock, channel, viewer>>

OpenTab(t) ==
    /\ ~tab[t].open
    /\ tab' = [tab EXCEPT ![t] = [ClosedTab EXCEPT !.open = TRUE]]
    /\ UNCHANGED <<share, sock, channel, viewer>>

\* Closing or reloading the page closes its socket; an upgrade under way fails.
UnloadTab(t) ==
    /\ tab[t].open
    /\ tab' = [tab EXCEPT ![t] = ClosedTab]
    /\ sock' = [k \in Sock |->
                  CASE sock[k].tab # t -> sock[k]
                    [] sock[k].tab = t /\ sock[k].state = "open" -> Closing(k, {"server"})
                    [] "server" \in sock[k].ends -> Closing(k, {"server"})
                    [] OTHER -> Free]
    /\ UNCHANGED <<share, channel, viewer>>

FreeSocks == {k \in Sock : sock[k].state = "free"}

\* openPublishSocket: the connection reaches some replica.
OpenPublishSocket(t, timer) ==
    /\ FreeSocks # {}
    /\ LET k == CHOOSE k \in FreeSocks : TRUE
       IN /\ \E r \in Relay : sock' = [sock EXCEPT ![k] =
                [state |-> "connecting", tab |-> t, relay |-> r, ends |-> {}]]
          /\ tab' = [tab EXCEPT ![t] = [@ EXCEPT !.sharing = TRUE, !.sock = k, !.timer = timer]]

\* The poll finds the flag on: startSharing.
StartSharing(t) ==
    /\ tab[t].open /\ share /\ ~tab[t].sharing
    /\ OpenPublishSocket(t, tab[t].timer)
    /\ UNCHANGED <<share, channel, viewer>>

\* Mutant: the publish socket is left open.
StopCapturing(t) ==
    /\ tab[t].open /\ ~share /\ tab[t].sharing
    /\ tab' = [tab EXCEPT ![t].sharing = FALSE]
    /\ UNCHANGED <<share, sock, channel, viewer>>

\* The poll finds it off: stopSharing.
StopSharing(t) ==
    /\ tab[t].open /\ ~share /\ tab[t].sharing
    /\ tab' = [tab EXCEPT ![t].sharing = FALSE, ![t].sock = NoSock]
    /\ LET k == tab[t].sock
       IN sock' = IF k = NoSock \/ sock[k].state = "closing" THEN sock
                  ELSE [sock EXCEPT ![k] = Closing(k,
                          IF sock[k].state = "open" THEN {"client", "server"} ELSE {"client"})]
    /\ UNCHANGED <<share, channel, viewer>>

\* The close event at the tab; while sharing it schedules a reconnect.
PublishSocketClosed(k) ==
    /\ "client" \in sock[k].ends
    /\ LET t == sock[k].tab
       IN tab' = [tab EXCEPT ![t].sock = IF @ = k THEN NoSock ELSE @,
                             ![t].timer = @ \/ tab[t].sharing]
    /\ sock' = [sock EXCEPT ![k] = Handled(k, "client")]
    /\ UNCHANGED <<share, channel, viewer>>

Reconnect(t) ==
    /\ tab[t].timer
    /\ IF tab[t].sharing /\ tab[t].sock = NoSock
       THEN OpenPublishSocket(t, FALSE)
       ELSE /\ tab' = [tab EXCEPT ![t].timer = FALSE]
            /\ UNCHANGED sock
    /\ UNCHANGED <<share, channel, viewer>>

-----------------------------------------------------------------------------
(* The relay *)

\* authorizeSpectate, for the owner's own tabs and for signed-in viewers.
AuthorizeSpectate == share

\* SpectateRelay.publish: a newer publisher replaces the one before, whose socket
\* is closed.
Publish(k, r) ==
    LET old == channel[r].publisher
    IN /\ channel' = [channel EXCEPT ![r].publisher = k, ![r].snapshot = NoSock]
       /\ sock' = IF old = NoSock \/ sock[old].state = "closing"
                  THEN [sock EXCEPT ![k].state = "open"]
                  ELSE [sock EXCEPT ![k].state = "open",
                                    ![old] = Closing(old, {"client", "server"})]

\* The upgrade listener: the publisher is registered, or refused without the flag.
PublishUpgrade(k) ==
    /\ sock[k].state = "connecting"
    /\ IF AuthorizeSpectate
       THEN Publish(k, sock[k].relay)
       ELSE /\ sock' = [sock EXCEPT ![k] = Closing(k, {"client"})]
            /\ UNCHANGED channel
    /\ UNCHANGED <<share, tab, viewer>>

\* A frame is forwarded as long as its socket delivers messages, and cached.
Forward(k) ==
    /\ sock[k].state = "open" \/ "server" \in sock[k].ends
    /\ channel[sock[k].relay] # NoChannel
    /\ channel' = [channel EXCEPT ![sock[k].relay].snapshot = k]
    /\ UNCHANGED <<share, tab, sock, viewer>>

EndedAt(r) ==
    viewer' = [v \in Viewer |-> IF v \in channel[r].subscribers
                                THEN [viewer[v] EXCEPT !.phase = "ended"] ELSE viewer[v]]

\* The close event at the relay: the current publisher's ends the channel, and
\* its subscribers are closed with SHARING_ENDED_CODE.
Unpublish(k) ==
    /\ "server" \in sock[k].ends
    /\ sock' = [sock EXCEPT ![k] = Handled(k, "server")]
    /\ IF channel[sock[k].relay].publisher = k
       THEN /\ channel' = [channel EXCEPT ![sock[k].relay] = NoChannel]
            /\ EndedAt(sock[k].relay)
       ELSE UNCHANGED <<channel, viewer>>
    /\ UNCHANGED <<share, tab>>

-----------------------------------------------------------------------------
(* Viewers *)

\* A close other than "sharing ended": another try, within a budget that no
\* success refills.
Retry(v, budget) ==
    viewer' = [viewer EXCEPT ![v] =
        IF @.attempts < budget THEN [phase |-> "connecting", attempts |-> @.attempts + 1]
        ELSE [@ EXCEPT !.phase = "unavailable"]]

\* SpectateRelay.subscribe on the replica the viewer lands on.
Subscribe(v, r) ==
    /\ viewer[v].phase = "connecting"
    /\ \/ /\ AuthorizeSpectate /\ channel[r] # NoChannel
          /\ channel' = [channel EXCEPT ![r].subscribers = @ \union {v}]
          /\ viewer' = [viewer EXCEPT ![v].phase = "live"]
       \/ /\ AuthorizeSpectate /\ channel[r] = NoChannel
          /\ Retry(v, MaxRetries) /\ UNCHANGED channel
       \/ ~AuthorizeSpectate /\ Retry(v, MaxTransient) /\ UNCHANGED channel
    /\ UNCHANGED <<share, tab, sock>>

ViewerDrops(v, r) ==
    /\ v \in channel[r].subscribers
    /\ channel' = [channel EXCEPT ![r].subscribers = @ \ {v}]
    /\ Retry(v, MaxTransient)
    /\ UNCHANGED <<share, tab, sock>>

\* The page is opened again, with a new budget.
ReloadViewer(v) ==
    /\ viewer[v].phase \in {"ended", "unavailable"}
    /\ viewer' = [viewer EXCEPT ![v] = [phase |-> "connecting", attempts |-> 0]]
    /\ UNCHANGED <<share, tab, sock, channel>>

SpectateNext ==
    \/ \E b \in BOOLEAN : SetShare(b)
    \/ \E t \in Tab : \/ OpenTab(t) \/ UnloadTab(t)
                      \/ StartSharing(t) \/ StopSharing(t) \/ Reconnect(t)
    \/ \E k \in Sock : PublishSocketClosed(k) \/ PublishUpgrade(k) \/ Forward(k) \/ Unpublish(k)
    \/ \E v \in Viewer : \/ \E r \in Relay : Subscribe(v, r) \/ ViewerDrops(v, r)
                         \/ ReloadViewer(v)

\* An open tab's poll and the sockets' events go on.
SpectateFairness ==
    /\ \A t \in Tab : WF_spectateVars(StopSharing(t))
    /\ WF_spectateVars(\E k \in Sock : \/ PublishSocketClosed(k) \/ PublishUpgrade(k)
                                      \/ Unpublish(k))

SpectateSpec == SpectateInit /\ [][SpectateNext]_spectateVars /\ SpectateFairness

-----------------------------------------------------------------------------
(* Properties *)

\* The share flag: once the owner turns sharing off, no viewer stays attached,
\* although nothing but the polling tab closes the stream.
ShareOffEnds == \A v \in Viewer : []<>(share \/ ~Watching(v))

=============================================================================
