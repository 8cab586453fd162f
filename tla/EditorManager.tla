--------------------------- MODULE EditorManager ---------------------------
(* Process 1 of an OpenVSCode workspace container (edd-editor-manager.mjs)   *)
(* and the boot that precedes it (entrypoint.sh).  The manager owns the      *)
(* public port: a connection starts the editor if need be and is then piped  *)
(* to it, and an editor nobody has used for EDD_EDITOR_IDLE_MS is stopped.   *)
(* Terminals of an agent run under tmux (edd-shell), not under the editor;   *)
(* the registry of them is on the volume (edd-session.mjs) and outlives the  *)
(* container, the tmux server does not.  The handlers of the manager run one *)
(* at a time, so each is one action; what lies between them is the editor    *)
(* process, the clients and the container.                                   *)
EXTENDS Naturals, FiniteSets

CONSTANTS EditorProc,   \* identities of editor processes, reused once reaped
          Client,       \* TCP connections to the public port
          Agent,        \* names of agent sessions
          NoProc          \* no process

ASSUME EditorAssumption == NoProc \notin EditorProc /\ IsFiniteSet(Client)

VARIABLES container,    \* "down", "up", or "closing" once it got SIGTERM
          editor,       \* the variable editor: the child last spawned, or NoProc
          process,      \* what each editor process really is
          startingFor,  \* the promise of a start in flight
          client,       \* what each connection waits for or is joined to
          quiet,        \* EDD_EDITOR_IDLE_MS has passed since lastUsed
          tmux,         \* the sessions the tmux server holds
          registry      \* the entries on the volume, by session

managerVars ==
  <<container, editor, process, startingFor, client, quiet, tmux, registry>>

ClientAt == {"absent", "first", "retry", "piped", "ended"}

EntryStatus == {"none", "running", "stopped", "restored"}

ManagerTypeOK ==
  /\ container \in {"down", "up", "closing"}
  /\ editor \in EditorProc \cup {NoProc}
  /\ process \in [EditorProc -> {"none", "booting", "serving", "stopping", "dead"}]
  /\ startingFor \in BOOLEAN
  /\ client \in [Client -> ClientAt]
  /\ quiet \in BOOLEAN
  /\ tmux \subseteq Agent
  /\ registry \in [Agent -> EntryStatus]

ManagerInit ==
  /\ container = "down"
  /\ editor = NoProc
  /\ process = [p \in EditorProc |-> "none"]
  /\ startingFor = FALSE
  /\ client = [c \in Client |-> "absent"]
  /\ quiet = FALSE
  /\ tmux = {}
  /\ registry = [a \in Agent |-> "none"]

-----------------------------------------------------------------------------
(* Starting and stopping.                                                    *)

\* An exit the event loop has not been told of leaves exitCode null.
EditorRunning == editor # NoProc

Live == {c \in Client : client[c] # "absent"}

Spawn(p) ==
  /\ process[p] = "none"
  /\ process' = [process EXCEPT ![p] = "booting"]
  /\ editor' = p
  /\ startingFor' = TRUE

\* startEditor for a caller that goes to `waiting` when it has to wait: an
\* editor that runs is taken at once, whether or not it has answered yet.
StartEditor(c, waiting) ==
  \/ /\ EditorRunning
     /\ client' = [client EXCEPT ![c] = "piped"]
     /\ UNCHANGED <<editor, process, startingFor>>
  \/ /\ ~EditorRunning /\ startingFor
     /\ client' = [client EXCEPT ![c] = waiting]
     /\ UNCHANGED <<editor, process, startingFor>>
  \/ /\ ~EditorRunning /\ ~startingFor
     /\ client' = [client EXCEPT ![c] = waiting]
     /\ \E p \in EditorProc : Spawn(p)

\* edd-session sweep, then restore: what died with the last container is
\* stopped, and each entry is made again unless tmux refuses.  The agent itself
\* only runs again where EDD_SESSION_AUTORESUME asks for it.
EntrypointRestores ==
  LET recorded == {a \in Agent : registry[a] # "none"}
  IN  \E made \in SUBSET recorded, status \in {"restored", "running"} :
        /\ tmux' = made
        /\ registry' = [a \in Agent |->
                           CASE a \in made -> status
                             [] registry[a] = "running" /\ a \notin made -> "stopped"
                             [] OTHER -> registry[a]]

\* entrypoint.sh, then the listen callback, which warms the editor.
Boot ==
  /\ container = "down"
  /\ container' = "up"
  /\ quiet' = FALSE
  /\ EntrypointRestores
  /\ \E p \in EditorProc : Spawn(p)
  /\ UNCHANGED client

\* The TCP server's connection handler.
Connect(c) ==
  /\ container = "up" /\ client[c] = "absent"
  /\ quiet' = FALSE
  /\ StartEditor(c, "first")
  /\ UNCHANGED <<container, tmux, registry>>

\* The client's "close" handler; closing does not call the start off.
TcpClientCloses(c) ==
  /\ client[c] # "absent"
  /\ client' = [client EXCEPT ![c] = "absent"]
  /\ quiet' = FALSE
  /\ UNCHANGED <<container, editor, process, startingFor, tmux, registry>>

\* waitForEditorReady: some process answers HTTP on the editor's port.
EditorReady ==
  /\ startingFor /\ \E p \in EditorProc : process[p] = "serving"
  /\ startingFor' = FALSE
  /\ client' = [c \in Client |->
                  IF client[c] \in {"first", "retry"} THEN "piped" ELSE client[c]]
  /\ UNCHANGED <<container, editor, process, quiet, tmux, registry>>

\* START_TIMEOUT_MS passes.  A second failure destroys the client; a first one
\* calls startEditor again, which takes a slow editor or spawns another.
StartTimesOut ==
  LET firsts == {c \in Client : client[c] = "first"}
      after(first) == [c \in Client |-> CASE client[c] = "first" -> first
                                          [] client[c] = "retry" -> "absent"
                                          [] OTHER -> client[c]]
  IN  /\ startingFor
      /\ \/ /\ firsts = {} \/ EditorRunning
            /\ startingFor' = FALSE
            /\ client' = after("piped")
            /\ UNCHANGED <<editor, process>>
         \/ /\ firsts # {} /\ ~EditorRunning
            /\ client' = after("retry")
            /\ \E p \in EditorProc : Spawn(p)
      /\ quiet' = (quiet /\ \A c \in Client : client[c] # "retry")
      /\ UNCHANGED <<container, tmux, registry>>

\* The upstream socket fails or ends: nothing that serves is behind it.
UpstreamCloses(c) ==
  /\ client[c] = "piped"
  /\ \A p \in EditorProc : process[p] # "serving"
  /\ client' = [client EXCEPT ![c] = "ended"]
  /\ UNCHANGED <<container, editor, process, startingFor, quiet, tmux, registry>>

\* Mutant: the editor is forgotten as soon as it is told to stop.
StopEditorForgets ==
  /\ process' = [p \in EditorProc |->
                   IF p = editor /\ process[p] \in {"booting", "serving"}
                   THEN "stopping" ELSE process[p]]
  /\ editor' = NoProc

\* stopEditor sends SIGTERM and forgets nothing: the exit handler does that.
StopEditor ==
  /\ process' = [p \in EditorProc |->
                   IF p = editor /\ process[p] \in {"booting", "serving"}
                   THEN "stopping" ELSE process[p]]
  /\ UNCHANGED editor

\* The 30 s sweep.
IdleSweep ==
  /\ container # "down"
  /\ EditorRunning /\ Live = {} /\ quiet
  /\ StopEditor
  /\ UNCHANGED <<container, startingFor, client, quiet, tmux, registry>>

\* SIGTERM from ECS: the editor is stopped and the port closed.
Shutdown ==
  /\ container = "up"
  /\ container' = "closing"
  /\ IF EditorRunning THEN StopEditor ELSE UNCHANGED <<editor, process>>
  /\ UNCHANGED <<startingFor, client, quiet, tmux, registry>>

\* The child's "exit" handler.
EditorExit(p) ==
  /\ process[p] = "dead"
  /\ process' = [process EXCEPT ![p] = "none"]
  /\ editor' = IF editor = p THEN NoProc ELSE editor
  /\ UNCHANGED <<container, startingFor, client, quiet, tmux, registry>>

-----------------------------------------------------------------------------
(* The container, the editor and the sessions in it.                         *)

IdleElapses ==
  /\ container # "down" /\ ~quiet
  /\ quiet' = TRUE
  /\ UNCHANGED <<container, editor, process, startingFor, client, tmux, registry>>

EditorServes(p) ==
  /\ process[p] = "booting"
  /\ process' = [process EXCEPT ![p] = "serving"]
  /\ UNCHANGED <<container, editor, startingFor, client, quiet, tmux, registry>>

\* A crash at any time, or the end that SIGTERM asked for.
EditorDies(p) ==
  /\ process[p] \in {"booting", "serving", "stopping"}
  /\ process' = [process EXCEPT ![p] = "dead"]
  /\ UNCHANGED <<container, editor, startingFor, client, quiet, tmux, registry>>

\* The manager exits, or the task is killed: tmux goes with it.
ContainerEnds ==
  /\ container # "down"
  /\ container' = "down"
  /\ editor' = NoProc
  /\ process' = [p \in EditorProc |-> "none"]
  /\ startingFor' = FALSE
  /\ client' = [c \in Client |-> "absent"]
  /\ quiet' = FALSE
  /\ tmux' = {}
  /\ UNCHANGED registry

\* edd-shell: record first, then attach to the session or make it.
RecordSession(a) ==
  /\ container # "down"
  /\ registry' = [registry EXCEPT ![a] = "running"]
  /\ tmux' = tmux \cup {a}
  /\ UNCHANGED <<container, editor, process, startingFor, client, quiet>>

AgentExits(a) ==
  /\ a \in tmux
  /\ tmux' = tmux \ {a}
  /\ UNCHANGED <<container, editor, process, startingFor, client, quiet, registry>>

ManagerNext ==
  \/ Boot \/ EditorReady \/ StartTimesOut \/ IdleSweep \/ Shutdown
  \/ IdleElapses \/ ContainerEnds
  \/ \E c \in Client : Connect(c) \/ TcpClientCloses(c) \/ UpstreamCloses(c)
  \/ \E p \in EditorProc : EditorServes(p) \/ EditorDies(p) \/ EditorExit(p)
  \/ \E a \in Agent : RecordSession(a) \/ AgentExits(a)

ManagerSpec == ManagerInit /\ [][ManagerNext]_managerVars

-----------------------------------------------------------------------------
(* Properties.                                                               *)

\* N simultaneous connections, a retry after a timed out start, a connection
\* that arrives while a stopped editor is still going down: there is never
\* more than one editor process on the port and on the user data directory.
OneEditor ==
  Cardinality({p \in EditorProc :
                 process[p] \in {"booting", "serving", "stopping"}}) <= 1

=============================================================================
