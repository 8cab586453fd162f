---------------------------- MODULE MonacoEditor ----------------------------
(* The first-party editor (services/editor-monaco): one browser page with a  *)
(* file tree, one buffer with autosave, and terminal tabs; and the server    *)
(* behind it, a file API and one PTY for each terminal socket.  A fetch is a *)
(* request, what the server does with it and what the page does with the     *)
(* answer, in steps that other requests come between.                        *)
EXTENDS Naturals, FiniteSets

CONSTANTS File, Tab,
          MaxEdits,     \* bound on the edits typed into one file
          MaxRequests,  \* bound on the file requests in flight
          NoFile        \* nothing open; nothing there

ASSUME MonacoAssumption == /\ MaxEdits \in Nat /\ MaxRequests \in Nat
                           /\ NoFile \notin File

VARIABLES disk,         \* what the volume holds under each path
          typed,        \* history: the last edit the user made to each file
          tree,         \* the paths the page lists
          buffer,       \* currentPath and the editor's text
          timer,        \* the autosave timer is armed
          opens,        \* openFile calls and what the server answered
          puts,         \* PUT requests the server has not handled
          sock,         \* each terminal tab's WebSocket, as the server sees it
          pty,          \* and the terminal process behind it
          command,      \* the server boots terminals into an agent, under tmux
          agent         \* that agent's tmux session exists

fileVars == <<disk, typed, tree, buffer, timer, opens, puts>>
termVars == <<sock, pty, command, agent>>
monacoVars == <<fileVars, termVars>>

\* A text is known by the file it was loaded from and the edit it includes;
\* edit 0 is what the file held before, or nothing for a file just made.
Text == [of : File, edit : 0..MaxEdits]
FileLoaded(f) == [of |-> f, edit |-> 0]
NoText == [of |-> NoFile, edit |-> 0]

MonacoTypeOK ==
  /\ disk \in [File -> Text \cup {NoText}]
  /\ typed \in [File -> 0..MaxEdits]
  /\ tree \subseteq File
  /\ buffer \in [path : File \cup {NoFile}, text : Text \cup {NoText}]
  /\ timer \in BOOLEAN
  /\ opens \subseteq [file : File, asked : BOOLEAN, text : Text \cup {NoText}]
  /\ puts \subseteq [file : File, text : Text, create : BOOLEAN]
  /\ sock \in [Tab -> {"closed", "open"}]
  /\ pty \in [Tab -> {"none", "spawning", "running", "killed"}]
  /\ command \in BOOLEAN /\ agent \in BOOLEAN

MonacoInit ==
  /\ \E there \in SUBSET File :
       disk = [f \in File |-> IF f \in there THEN FileLoaded(f) ELSE NoText]
  /\ typed = [f \in File |-> 0]
  /\ tree = {}
  /\ buffer = [path |-> NoFile, text |-> NoText]
  /\ timer = FALSE
  /\ opens = {} /\ puts = {}
  /\ sock = [t \in Tab |-> "closed"]
  /\ pty = [t \in Tab |-> "none"]
  /\ command \in BOOLEAN
  /\ agent = FALSE

MayAsk == Cardinality(opens) + Cardinality(puts) < MaxRequests

-----------------------------------------------------------------------------
(* Files.                                                                    *)

\* loadTree, at start, every 2 s and after a create.
LoadTree ==
  /\ tree' = {f \in File : disk[f] # NoText}
  /\ tree' # tree
  /\ UNCHANGED <<disk, typed, buffer, timer, opens, puts, termVars>>

\* Mutant: the path changes with the click, the text with the answer.
ClickFileAtOnce(f) ==
  /\ f \in tree /\ MayAsk
  /\ opens' = opens \cup {[file |-> f, asked |-> TRUE, text |-> NoText]}
  /\ buffer' = [buffer EXCEPT !.path = f]
  /\ UNCHANGED <<disk, typed, tree, timer, puts, termVars>>

\* A click on a row: openFile sends its GET and changes nothing yet.
ClickFile(f) ==
  /\ f \in tree /\ MayAsk
  /\ opens' = opens \cup {[file |-> f, asked |-> TRUE, text |-> NoText]}
  /\ UNCHANGED <<disk, typed, tree, buffer, timer, puts, termVars>>

\* readTextFile.
ServeGet(o) ==
  /\ o \in opens /\ o.asked
  /\ opens' = (opens \ {o}) \cup {[o EXCEPT !.asked = FALSE, !.text = disk[o.file]]}
  /\ UNCHANGED <<disk, typed, tree, buffer, timer, puts, termVars>>

\* The rest of openFile: path and text change together; a failure changes
\* nothing.  The timer of an earlier edit stays armed.
OpenAnswered(o) ==
  /\ o \in opens /\ ~o.asked
  /\ opens' = opens \ {o}
  /\ buffer' = IF o.text = NoText THEN buffer
               ELSE [path |-> o.file, text |-> o.text]
  /\ UNCHANGED <<disk, typed, tree, timer, puts, termVars>>

\* onDidChangeModelContent for the user's own edits.
TypeText ==
  /\ buffer.path # NoFile
  /\ typed[buffer.path] < MaxEdits
  /\ typed' = [typed EXCEPT ![buffer.path] = @ + 1]
  /\ buffer' = [buffer EXCEPT !.text.edit = typed'[buffer.path]]
  /\ timer' = TRUE
  /\ UNCHANGED <<disk, tree, opens, puts, termVars>>

\* save() reads the path and the text of the moment it runs.
SendSave ==
  puts' = puts \cup {[file |-> buffer.path, text |-> buffer.text, create |-> FALSE]}

Autosave ==
  /\ timer /\ timer' = FALSE /\ MayAsk
  /\ SendSave
  /\ UNCHANGED <<disk, typed, tree, buffer, opens, termVars>>

\* Ctrl/Cmd+S.
SaveNow ==
  /\ buffer.path # NoFile /\ MayAsk
  /\ SendSave
  /\ UNCHANGED <<disk, typed, tree, buffer, timer, opens, termVars>>

\* createFile: an empty PUT to the path the user gave, whatever is there.
CreateFile(f) ==
  /\ MayAsk
  /\ puts' = puts \cup {[file |-> f, text |-> FileLoaded(f), create |-> TRUE]}
  /\ UNCHANGED <<disk, typed, tree, buffer, timer, opens, termVars>>

\* writeTextFile; a create then reloads the tree and opens the new file.
ServePut(p) ==
  /\ p \in puts
  /\ puts' = puts \ {p}
  /\ disk' = [disk EXCEPT ![p.file] = p.text]
  /\ \/ /\ ~p.create /\ UNCHANGED <<typed, tree, opens>>
     \/ /\ p.create
        /\ typed' = [typed EXCEPT ![p.file] = 0]
        /\ tree' = {f \in File : disk'[f] # NoText}
        /\ opens' = opens \cup {[file |-> p.file, asked |-> TRUE, text |-> NoText]}
  /\ UNCHANGED <<buffer, timer, termVars>>

\* The request fails: the page says so and does not try again.
PutFails(p) ==
  /\ p \in puts
  /\ puts' = puts \ {p}
  /\ UNCHANGED <<disk, typed, tree, buffer, timer, opens, termVars>>

-----------------------------------------------------------------------------
(* Terminals.                                                                *)

\* openNewTerminalTab: the upgrade is accepted and startShell awaits the spawn.
OpenTab(t) ==
  /\ sock[t] = "closed" /\ pty[t] = "none"
  /\ sock' = [sock EXCEPT ![t] = "open"]
  /\ pty' = [pty EXCEPT ![t] = "spawning"]
  /\ UNCHANGED <<command, agent, fileVars>>

\* The spawn returned: handlers are registered, unless the socket is gone.
Spawned(t) ==
  /\ pty[t] = "spawning"
  /\ pty' = [pty EXCEPT ![t] = IF sock[t] = "open" THEN "running" ELSE "killed"]
  /\ agent' = (agent \/ command)
  /\ UNCHANGED <<sock, command, fileVars>>

SpawnFails(t) ==
  /\ pty[t] = "spawning"
  /\ pty' = [pty EXCEPT ![t] = "none"]
  /\ sock' = [sock EXCEPT ![t] = "closed"]
  /\ UNCHANGED <<command, agent, fileVars>>

\* The tab is closed, the page left or the network lost.  The close handler
\* kills the PTY, but exists only once the spawn has returned.
SocketCloses(t) ==
  /\ sock[t] = "open"
  /\ sock' = [sock EXCEPT ![t] = "closed"]
  /\ pty' = [pty EXCEPT ![t] = IF @ = "running" THEN "killed" ELSE @]
  /\ UNCHANGED <<command, agent, fileVars>>

\* SIGHUP, or SIGKILL a second later, ends the process group; of an agent's tab
\* that is the tmux client alone.
PtyEnds(t) ==
  /\ pty[t] = "killed"
  /\ pty' = [pty EXCEPT ![t] = "none"]
  /\ UNCHANGED <<sock, command, agent, fileVars>>

\* The shell exits, or tmux does because the agent ended: the socket is closed.
ShellExits(t) ==
  /\ pty[t] = "running"
  /\ pty' = [pty EXCEPT ![t] = "none"]
  /\ sock' = [sock EXCEPT ![t] = "closed"]
  /\ agent' = FALSE
  /\ UNCHANGED <<command, fileVars>>

MonacoNext ==
  \/ LoadTree \/ TypeText \/ Autosave \/ SaveNow
  \/ \E f \in File : ClickFile(f) \/ CreateFile(f)
  \/ \E o \in opens : ServeGet(o) \/ OpenAnswered(o)
  \/ \E p \in puts : ServePut(p) \/ PutFails(p)
  \/ \E t \in Tab : \/ OpenTab(t) \/ Spawned(t) \/ SpawnFails(t)
                    \/ SocketCloses(t) \/ PtyEnds(t) \/ ShellExits(t)

MonacoSpec == MonacoInit /\ [][MonacoNext]_monacoVars

-----------------------------------------------------------------------------
(* Properties.                                                               *)

\* A file is only ever overwritten with text that was loaded from it: opening
\* another file while a save is due never writes one file's text to the other.
FilesKeepTheirText == \A f \in File : disk[f] # NoText => disk[f].of = f

=============================================================================
