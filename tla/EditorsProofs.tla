---------------------------- MODULE EditorsProofs ----------------------------
(***************************************************************************)
(* Between the browser and the workspace, for every set of processes,      *)
(* files, connections and readers: one editor at a time, files that keep   *)
(* their own text, cached reads that are current, open tabs that count as  *)
(* presence, opencode's routes kept under the prefix, and the traffic      *)
(* filter that is reported being the one that decides.  Each component has *)
(* an invariant of its own.                                                *)
(***************************************************************************)
EXTENDS EditorManager, MonacoEditor, CachedReads, WorkspaceProxy, OpencodePaths, TrafficFilter,
        FiniteSetTheorems, SequenceTheorems, WellFoundedInduction, TLAPS

-----------------------------------------------------------------------------
(* EditorManager: a process that is not reaped is the one `editor' points to. *)

EditorInv ==
    /\ ManagerTypeOK
    /\ container = "down" => editor = NoProc /\ startingFor = FALSE
    /\ \A p \in EditorProc : process[p] # "none" => editor = p

\* Only a manager that has no editor spawns one.
LEMMA SpawnKeeps ==
    ASSUME EditorInv, editor = NoProc, NEW p \in EditorProc, Spawn(p)
    PROVE  /\ editor' \in EditorProc /\ startingFor' \in BOOLEAN
           /\ process' \in [EditorProc -> {"none", "booting", "serving", "stopping", "dead"}]
           /\ \A q \in EditorProc : process'[q] # "none" => editor' = q
BY EditorAssumption DEF EditorInv, ManagerTypeOK, Spawn

LEMMA BootKeeps ==
    ASSUME EditorInv, Boot
    PROVE  EditorInv'
<1>1. PICK p \in EditorProc : Spawn(p)
  BY DEF Boot
<1>2. container' = "up" /\ quiet' = FALSE /\ client' = client /\ editor = NoProc
  BY DEF Boot, EditorInv
<1>3. tmux' \subseteq Agent /\ registry' \in [Agent -> EntryStatus]
  BY DEF Boot, EntrypointRestores, EditorInv, ManagerTypeOK, EntryStatus
<1> QED
  BY <1>1, <1>2, <1>3, SpawnKeeps DEF EditorInv, ManagerTypeOK

\* What calls startEditor: an editor that runs is used, another is not spawned.
LEMMA StartKeeps ==
    ASSUME EditorInv, container \in {"up", "closing"}, container' = container,
           tmux' = tmux, registry' = registry, quiet' \in BOOLEAN,
           client' \in [Client -> ClientAt], startingFor' \in BOOLEAN,
           \/ editor' = editor /\ process' = process
           \/ editor = NoProc /\ \E p \in EditorProc : Spawn(p)
    PROVE  EditorInv'
<1>1. CASE editor' = editor /\ process' = process
  BY <1>1 DEF EditorInv, ManagerTypeOK
<1>2. ASSUME editor = NoProc, NEW p \in EditorProc, Spawn(p)
      PROVE  EditorInv'
  BY <1>2, SpawnKeeps DEF EditorInv, ManagerTypeOK
<1> QED
  BY <1>1, <1>2

LEMMA ConnectKeeps ==
    ASSUME EditorInv, NEW c \in Client, Connect(c)
    PROVE  EditorInv'
<1>1. client' \in [Client -> ClientAt] /\ startingFor' \in BOOLEAN
  BY DEF Connect, StartEditor, Spawn, EditorInv, ManagerTypeOK, ClientAt
<1>2. \/ editor' = editor /\ process' = process
      \/ editor = NoProc /\ \E p \in EditorProc : Spawn(p)
  BY DEF Connect, StartEditor, EditorRunning
<1> QED
  BY <1>1, <1>2, StartKeeps DEF Connect

LEMMA TimeoutKeeps ==
    ASSUME EditorInv, StartTimesOut
    PROVE  EditorInv'
<1>1. client' \in [Client -> ClientAt]
  BY DEF StartTimesOut, EditorInv, ManagerTypeOK, ClientAt
<1>2. quiet' \in BOOLEAN /\ startingFor' \in BOOLEAN
  BY DEF StartTimesOut, Spawn, EditorInv, ManagerTypeOK
<1>3. \/ editor' = editor /\ process' = process
      \/ editor = NoProc /\ \E p \in EditorProc : Spawn(p)
  BY DEF StartTimesOut, EditorRunning
<1> QED
  BY <1>1, <1>2, <1>3, StartKeeps DEF StartTimesOut, EditorInv, ManagerTypeOK

LEMMA EditorStep == EditorInv /\ [ManagerNext]_managerVars => EditorInv'
<1> SUFFICES ASSUME EditorInv, [ManagerNext]_managerVars
             PROVE  EditorInv'
  OBVIOUS
<1>1. CASE EditorReady \/ IdleElapses \/ UNCHANGED managerVars
  BY <1>1 DEF EditorReady, IdleElapses, managerVars, EditorInv, ManagerTypeOK, ClientAt
<1>2. CASE IdleSweep \/ Shutdown
  BY <1>2 DEF IdleSweep, Shutdown, StopEditor, EditorInv, ManagerTypeOK
<1>3. CASE ContainerEnds
  BY <1>3 DEF ContainerEnds, EditorInv, ManagerTypeOK, ClientAt
<1>4. ASSUME NEW c \in Client, TcpClientCloses(c) \/ UpstreamCloses(c)
      PROVE  EditorInv'
  BY <1>4 DEF TcpClientCloses, UpstreamCloses, EditorInv, ManagerTypeOK, ClientAt
<1>5. ASSUME NEW p \in EditorProc, EditorServes(p) \/ EditorDies(p) \/ EditorExit(p)
      PROVE  EditorInv'
  BY <1>5 DEF EditorServes, EditorDies, EditorExit, EditorInv, ManagerTypeOK
<1>6. ASSUME NEW a \in Agent, RecordSession(a) \/ AgentExits(a)
      PROVE  EditorInv'
  BY <1>6 DEF RecordSession, AgentExits, EditorInv, ManagerTypeOK, EntryStatus
<1> QED
  BY <1>1, <1>2, <1>3, <1>4, <1>5, <1>6, BootKeeps, ConnectKeeps, TimeoutKeeps
     DEF ManagerNext

\* Never more than one editor process has the port and the user data directory,
\* whatever connections, timed out starts, idle stops, crashes and restarts of the
\* container overlap (edd-editor-manager.mjs).
THEOREM EditorIsOne == ManagerSpec => []OneEditor
<1>1. ManagerInit => EditorInv
  BY DEF ManagerInit, EditorInv, ManagerTypeOK, ClientAt, EntryStatus
<1>2. EditorInv => OneEditor
  <2> SUFFICES ASSUME EditorInv
               PROVE  OneEditor
    OBVIOUS
  <2> DEFINE S == {p \in EditorProc : process[p] \in {"booting", "serving", "stopping"}}
  <2>1. S \subseteq {editor}
    BY DEF EditorInv
  <2>2. Cardinality({}) = 0 /\ Cardinality({editor}) = 1
    BY FS_EmptySet, FS_Singleton
  <2>3. S = {} \/ S = {editor}
    BY <2>1
  <2>4. Cardinality(S) <= 1
    BY <2>2, <2>3
  <2> QED
    BY <2>4 DEF OneEditor
<1> QED
  BY <1>1, <1>2, EditorStep, PTL DEF ManagerSpec

-----------------------------------------------------------------------------
(* MonacoEditor: a text travels with the path it was loaded from. *)

MonacoInv ==
    /\ MonacoTypeOK
    /\ FilesKeepTheirText
    /\ timer => buffer.path # NoFile
    /\ buffer.path # NoFile => buffer.text # NoText /\ buffer.text.of = buffer.path
    /\ \A o \in opens : o.text # NoText => o.text.of = o.file
    /\ \A p \in puts : p.text.of = p.file

LEMMA NoTextIsNone == NoText \notin Text /\ \A f \in File : FileLoaded(f) \in Text /\ FileLoaded(f).of = f
BY MonacoAssumption DEF NoText, Text, FileLoaded

\* save() sends the path and the text of one moment.
LEMMA SaveKeeps ==
    ASSUME MonacoInv, buffer.path # NoFile, SendSave
    PROVE  /\ puts' \subseteq [file : File, text : Text, create : BOOLEAN]
           /\ \A p \in puts' : p.text.of = p.file
<1>1. /\ buffer.path \in File /\ buffer.text \in Text /\ buffer.text.of = buffer.path
      /\ puts \subseteq [file : File, text : Text, create : BOOLEAN]
  BY DEF MonacoInv, MonacoTypeOK
<1>2. PICK n : n = [file |-> buffer.path, text |-> buffer.text, create |-> FALSE]
  OBVIOUS
<1>3. n \in [file : File, text : Text, create : BOOLEAN] /\ n.text.of = n.file
  BY <1>1, <1>2
<1>4. puts' = puts \cup {n} /\ \A p \in puts : p.text.of = p.file
  BY <1>2 DEF SendSave, MonacoInv
<1> QED
  BY <1>1, <1>3, <1>4

LEMMA FileStep ==
    ASSUME MonacoInv, UNCHANGED termVars,
           \/ LoadTree \/ TypeText \/ Autosave \/ SaveNow
           \/ \E f \in File : ClickFile(f) \/ CreateFile(f)
           \/ \E o \in opens : ServeGet(o) \/ OpenAnswered(o)
           \/ \E p \in puts : ServePut(p) \/ PutFails(p)
    PROVE  MonacoInv'
<1>0. MonacoTypeOK /\ FilesKeepTheirText
  BY DEF MonacoInv
<1>1. CASE LoadTree
  BY <1>1 DEF LoadTree, MonacoInv, MonacoTypeOK, FilesKeepTheirText, termVars
<1>2. CASE TypeText
  <2>1. /\ buffer.path \in File /\ buffer.text \in Text /\ buffer.text.of = buffer.path
        /\ typed \in [File -> 0..MaxEdits] /\ typed[buffer.path] + 1 \in 0..MaxEdits
    BY <1>2, MonacoAssumption DEF TypeText, MonacoInv, MonacoTypeOK
  <2>2. typed' \in [File -> 0..MaxEdits] /\ typed'[buffer.path] \in 0..MaxEdits
    BY <1>2, <2>1 DEF TypeText
  <2>3. /\ buffer' \in [path : File \cup {NoFile}, text : Text \cup {NoText}]
        /\ buffer'.path = buffer.path /\ buffer'.text \in Text /\ buffer'.text.of = buffer.text.of
    BY <1>2, <2>1, <2>2 DEF TypeText, MonacoInv, MonacoTypeOK, Text
  <2>4. UNCHANGED <<disk, tree, opens, puts>> /\ timer' = TRUE
    BY <1>2 DEF TypeText
  <2>5. MonacoTypeOK'
    BY <1>0, <2>2, <2>3, <2>4 DEF MonacoTypeOK, termVars
  <2>6. buffer'.text # NoText /\ buffer'.text.of = buffer'.path
    BY <2>1, <2>3, NoTextIsNone
  <2>7. buffer'.path # NoFile
    BY <1>2, <2>3 DEF TypeText
  <2> QED
    BY <2>4, <2>5, <2>6, <2>7 DEF MonacoInv, FilesKeepTheirText
<1>3. CASE Autosave \/ SaveNow
  <2>1. /\ UNCHANGED <<disk, typed, tree, buffer, opens>> /\ SendSave /\ timer' \in BOOLEAN
        /\ buffer.path # NoFile
    BY <1>3 DEF Autosave, SaveNow, MonacoInv, MonacoTypeOK
  <2>2. MonacoTypeOK'
    BY <1>0, <2>1, SaveKeeps DEF MonacoTypeOK, termVars
  <2> QED
    BY <2>1, <2>2, SaveKeeps DEF MonacoInv, FilesKeepTheirText
<1>4. ASSUME NEW f \in File, ClickFile(f)
      PROVE  MonacoInv'
  <2>1. [file |-> f, asked |-> TRUE, text |-> NoText]
          \in [file : File, asked : BOOLEAN, text : Text \cup {NoText}]
    OBVIOUS
  <2>2. MonacoTypeOK'
    BY <1>0, <1>4, <2>1 DEF ClickFile, MonacoTypeOK, termVars
  <2> QED
    BY <1>4, <2>2 DEF ClickFile, MonacoInv, FilesKeepTheirText
<1>5. ASSUME NEW f \in File, CreateFile(f)
      PROVE  MonacoInv'
  <2>1. [file |-> f, text |-> FileLoaded(f), create |-> TRUE]
          \in [file : File, text : Text, create : BOOLEAN]
    BY NoTextIsNone
  <2>2. MonacoTypeOK'
    BY <1>0, <1>5, <2>1 DEF CreateFile, MonacoTypeOK, termVars
  <2> QED
    BY <1>5, <2>2, NoTextIsNone DEF CreateFile, MonacoInv, FilesKeepTheirText
<1>6. ASSUME NEW o \in opens, ServeGet(o)
      PROVE  MonacoInv'
  <2>1. PICK n : n = [o EXCEPT !.asked = FALSE, !.text = disk[o.file]]
    OBVIOUS
  <2>2. o.file \in File /\ disk[o.file] \in Text \cup {NoText}
    BY <1>0 DEF MonacoTypeOK
  <2>3. /\ n \in [file : File, asked : BOOLEAN, text : Text \cup {NoText}]
        /\ n.file = o.file /\ n.text = disk[o.file]
    BY <1>0, <2>1, <2>2 DEF MonacoTypeOK
  <2>4. n.text # NoText => n.text.of = n.file
    BY <1>0, <2>2, <2>3 DEF FilesKeepTheirText
  <2>5. opens' = (opens \ {o}) \cup {n} /\ UNCHANGED <<disk, typed, tree, buffer, timer, puts>>
    BY <1>6, <2>1 DEF ServeGet
  <2>6. MonacoTypeOK'
    BY <1>0, <2>3, <2>5 DEF MonacoTypeOK, termVars
  <2> QED
    BY <2>4, <2>5, <2>6 DEF MonacoInv, FilesKeepTheirText
<1>7. ASSUME NEW o \in opens, OpenAnswered(o)
      PROVE  MonacoInv'
  <2>1. o.file \in File /\ o.text \in Text \cup {NoText} /\ (o.text # NoText => o.text.of = o.file)
    BY <1>0 DEF MonacoTypeOK, MonacoInv
  <2>2. /\ UNCHANGED <<disk, typed, tree, timer, puts>> /\ opens' \subseteq opens
        /\ \/ buffer' = buffer
           \/ o.text # NoText /\ buffer' = [path |-> o.file, text |-> o.text]
    BY <1>7 DEF OpenAnswered
  <2>3. MonacoTypeOK'
    BY <1>0, <2>1, <2>2 DEF MonacoTypeOK, termVars
  <2> QED
    BY <2>1, <2>2, <2>3, MonacoAssumption DEF MonacoInv, FilesKeepTheirText
<1>8. ASSUME NEW p \in puts, ServePut(p)
      PROVE  MonacoInv'
  <2>1. p.file \in File /\ p.text \in Text /\ p.text.of = p.file
    BY <1>0 DEF MonacoTypeOK, MonacoInv
  <2>2. /\ disk' = [disk EXCEPT ![p.file] = p.text] /\ UNCHANGED <<buffer, timer>>
        /\ puts' \subseteq puts
        /\ disk' \in [File -> Text \cup {NoText}]
    BY <1>0, <1>8, <2>1 DEF ServePut, MonacoTypeOK
  <2>3. FilesKeepTheirText'
    BY <1>0, <2>1, <2>2 DEF FilesKeepTheirText, MonacoTypeOK
  <2>4. /\ opens' \subseteq [file : File, asked : BOOLEAN, text : Text \cup {NoText}]
        /\ \A o \in opens' : o.text # NoText => o.text.of = o.file
    <3>1. PICK n : n = [file |-> p.file, asked |-> TRUE, text |-> NoText]
      OBVIOUS
    <3>2. n \in [file : File, asked : BOOLEAN, text : Text \cup {NoText}] /\ n.text = NoText
      BY <2>1, <3>1
    <3>3. opens' = opens \/ opens' = opens \cup {n}
      BY <1>8, <3>1 DEF ServePut
    <3>4. /\ opens \subseteq [file : File, asked : BOOLEAN, text : Text \cup {NoText}]
          /\ \A o \in opens : o.text # NoText => o.text.of = o.file
      BY <1>0 DEF MonacoTypeOK, MonacoInv
    <3> QED
      BY <3>2, <3>3, <3>4
  <2>5. typed' \in [File -> 0..MaxEdits] /\ tree' \subseteq File
    BY <1>0, <1>8, MonacoAssumption DEF ServePut, MonacoTypeOK
  <2>6. MonacoTypeOK'
    BY <1>0, <2>2, <2>4, <2>5 DEF MonacoTypeOK, termVars
  <2> QED
    BY <2>2, <2>3, <2>4, <2>6 DEF MonacoInv
<1>9. ASSUME NEW p \in puts, PutFails(p)
      PROVE  MonacoInv'
  <2>1. MonacoTypeOK'
    BY <1>0, <1>9 DEF PutFails, MonacoTypeOK, termVars
  <2> QED
    BY <1>9, <2>1 DEF PutFails, MonacoInv, FilesKeepTheirText
<1> QED
  BY <1>1, <1>2, <1>3, <1>4, <1>5, <1>6, <1>7, <1>8, <1>9

LEMMA TerminalStep ==
    ASSUME MonacoInv, UNCHANGED fileVars, NEW t \in Tab,
           \/ OpenTab(t) \/ Spawned(t) \/ SpawnFails(t)
           \/ SocketCloses(t) \/ PtyEnds(t) \/ ShellExits(t)
    PROVE  MonacoInv'
<1>1. MonacoTypeOK /\ MonacoTypeOK'
  BY DEF MonacoInv, MonacoTypeOK, fileVars, OpenTab, Spawned, SpawnFails, SocketCloses,
     PtyEnds, ShellExits
<1> QED
  BY <1>1 DEF MonacoInv, fileVars, FilesKeepTheirText

LEMMA MonacoStep == MonacoInv /\ [MonacoNext]_monacoVars => MonacoInv'
<1> SUFFICES ASSUME MonacoInv, [MonacoNext]_monacoVars
             PROVE  MonacoInv'
  OBVIOUS
<1>1. CASE UNCHANGED monacoVars
  BY <1>1 DEF monacoVars, fileVars, termVars, MonacoInv, MonacoTypeOK, FilesKeepTheirText
<1>2. ASSUME \/ LoadTree \/ TypeText \/ Autosave \/ SaveNow
             \/ \E f \in File : ClickFile(f) \/ CreateFile(f)
             \/ \E o \in opens : ServeGet(o) \/ OpenAnswered(o)
             \/ \E p \in puts : ServePut(p) \/ PutFails(p)
      PROVE  MonacoInv'
  <2>1. UNCHANGED termVars
    BY <1>2 DEF LoadTree, TypeText, Autosave, SaveNow, ClickFile, CreateFile, ServeGet,
       OpenAnswered, ServePut, PutFails
  <2> QED
    BY <1>2, <2>1, FileStep
<1>3. ASSUME NEW t \in Tab,
             \/ OpenTab(t) \/ Spawned(t) \/ SpawnFails(t)
             \/ SocketCloses(t) \/ PtyEnds(t) \/ ShellExits(t)
      PROVE  MonacoInv'
  <2>1. UNCHANGED fileVars
    BY <1>3 DEF OpenTab, Spawned, SpawnFails, SocketCloses, PtyEnds, ShellExits
  <2> QED
    BY <1>3, <2>1, TerminalStep
<1> QED
  BY <1>1, <1>2, <1>3 DEF MonacoNext

\* A file is only ever overwritten with text that was loaded from it, in whatever
\* order clicks, edits, autosaves, creates and answers come (openFile and save of the
\* page, writeTextFile of the server).
THEOREM TextsStayHome == MonacoSpec => []FilesKeepTheirText
<1>1. MonacoInit => MonacoInv
  <2> SUFFICES ASSUME MonacoInit
               PROVE  MonacoInv
    OBVIOUS
  <2>1. MonacoTypeOK
    <3>1. disk \in [File -> Text \cup {NoText}]
      BY NoTextIsNone DEF MonacoInit
    <3>2. typed \in [File -> 0..MaxEdits]
      BY MonacoAssumption DEF MonacoInit
    <3> QED
      BY <3>1, <3>2 DEF MonacoInit, MonacoTypeOK
  <2> QED
    BY <2>1, NoTextIsNone DEF MonacoInit, MonacoInv, FilesKeepTheirText
<1>2. MonacoInv => FilesKeepTheirText
  BY DEF MonacoInv
<1> QED
  BY <1>1, <1>2, MonacoStep, PTL DEF MonacoSpec

-----------------------------------------------------------------------------
(* CachedReads: what is cached has not failed and is as new as what its process *)
(* has answered; a load somebody waits for is not used for another.             *)

Loads(C, V) == [at : {"free", "pending", "done", "failed"}, calls : C, value : V,
                began : Nat, base : Nat]

IsLoad(x) == \E C, V : x \in Loads(C, V)

\* What a cache holds and what a reader waits for.
EntryOK(p) ==
    entry[p] # None => /\ load[entry[p]].at \in {"pending", "done"}
                       /\ load[entry[p]].base >= returned[p]

ReaderOK(r) ==
    reader[r].at = "wait" =>
        /\ reader[r].load \in Load /\ load[reader[r].load].at # "free"
        /\ reader[r].since - load[reader[r].load].began < Ttl
        /\ load[reader[r].load].base >= reader[r].seen
        /\ reader[r].failed = FALSE

CacheInv ==
    /\ cacheClock \in Nat /\ table \in Nat
    /\ returned \in [Replica -> Nat] /\ \A p \in Replica : returned[p] <= table
    /\ mutation \in [Replica -> Nat] /\ \A p \in Replica : mutation[p] <= table
    /\ entry \in [Replica -> Load \cup {None}] /\ \A p \in Replica : EntryOK(p)
    /\ DOMAIN load = Load /\ \A l \in Load : IsLoad(load[l])
    /\ DOMAIN reader = Reader /\ \A r \in Reader : ReaderOK(r)

\* A reader begins to wait for a load that is fresh; nothing else moves but loads
\* nobody refers to and, perhaps, his process's entry.
LEMMA ReaderWaits ==
    ASSUME CacheInv, NEW r \in Reader, NEW p \in Replica, NEW l \in Load, Waiting(r, p, l),
           UNCHANGED <<cacheClock, table, returned, mutation>>,
           DOMAIN load' = Load, \A x \in Load : IsLoad(load'[x]),
           \A x \in Load : load'[x] = load[x] \/ (x = l /\ Usable(l)),
           load'[l].at \in {"pending", "done"}, load'[l].base >= returned[p],
           cacheClock - load'[l].began < Ttl,
           entry' = entry \/ entry' = [entry EXCEPT ![p] = l]
    PROVE  CacheInv'
<1>1. /\ DOMAIN reader' = Reader /\ \A q \in Reader \ {r} : reader'[q] = reader[q]
      /\ reader'[r].at = "wait" /\ reader'[r].load = l /\ reader'[r].since = cacheClock
      /\ reader'[r].seen = returned[p] /\ reader'[r].failed = FALSE
  BY DEF Waiting, CacheInv
<1>2. ReaderOK(r)'
  BY <1>1 DEF ReaderOK
<1>3. ASSUME NEW q \in Reader \ {r}
      PROVE  ReaderOK(q)'
  <2>1. reader'[q] = reader[q] /\ ReaderOK(q)
    BY <1>1, <1>3 DEF CacheInv
  <2>2. ASSUME reader[q].at = "wait"
        PROVE  load'[reader[q].load] = load[reader[q].load]
    BY <2>1, <2>2 DEF ReaderOK, Usable, Referenced
  <2> QED
    BY <2>1, <2>2 DEF ReaderOK
<1>4. ASSUME NEW q \in Replica
      PROVE  EntryOK(q)'
  <2>1. EntryOK(q) /\ entry[q] \in Load \cup {None} /\ entry \in [Replica -> Load \cup {None}]
    BY DEF CacheInv
  <2>2. ASSUME entry[q] # None
        PROVE  load'[entry[q]] = load[entry[q]]
    BY <2>1, <2>2 DEF EntryOK, Usable, Referenced
  <2>3. CASE entry'[q] = entry[q]
    BY <2>1, <2>2, <2>3 DEF EntryOK
  <2>4. CASE q = p /\ entry'[q] = l
    BY <2>4 DEF EntryOK
  <2> QED
    BY <2>1, <2>3, <2>4
<1>5. entry' \in [Replica -> Load \cup {None}]
  BY DEF CacheInv
<1> QED
  BY <1>1, <1>2, <1>3, <1>4, <1>5 DEF CacheInv

LEMMA ReadCachedKeeps ==
    ASSUME CacheInv, NEW r \in Reader, NEW p \in Replica, ReadCached(r, p)
    PROVE  CacheInv'
<1>1. PICK l \in Load : l = entry[p] /\ Waiting(r, p, l) /\ cacheClock - load[l].began < Ttl
  BY DEF ReadCached, Fresh, CacheInv
<1>2. load[l].at \in {"pending", "done"} /\ load[l].base >= returned[p]
  BY <1>1, CacheAssumption DEF CacheInv, EntryOK
<1>3. load' = load /\ UNCHANGED <<cacheClock, table, returned, mutation, entry>>
  BY DEF ReadCached
<1>4. DOMAIN load = Load /\ \A x \in Load : IsLoad(load[x])
  BY DEF CacheInv
<1> QED
  BY <1>1, <1>2, <1>3, <1>4, ReaderWaits

LEMMA ReadLoadingKeeps ==
    ASSUME CacheInv, NEW r \in Reader, NEW p \in Replica, ReadLoading(r, p)
    PROVE  CacheInv'
<1>1. PICK l \in Load : l = (CHOOSE x \in Load : Usable(x)) /\ Usable(l)
  BY DEF ReadLoading
<1>2. PICK n : n = [at |-> "pending", calls |-> Calls[kind], value |-> 0,
                    began |-> cacheClock, base |-> table]
  OBVIOUS
<1>3. load' = [load EXCEPT ![l] = n] /\ entry' = [entry EXCEPT ![p] = l] /\ Waiting(r, p, l)
      /\ UNCHANGED <<cacheClock, table, returned, mutation>>
  BY <1>1, <1>2 DEF ReadLoading
<1>4. IsLoad(n) /\ n.at = "pending" /\ n.base = table /\ n.began = cacheClock
  <2>1. n \in Loads({Calls[kind]}, {0})
    BY <1>2 DEF Loads, CacheInv
  <2> QED
    BY <1>2, <2>1 DEF IsLoad
<1>5. /\ DOMAIN load' = Load /\ load'[l] = n /\ \A x \in Load \ {l} : load'[x] = load[x]
      /\ \A x \in Load : IsLoad(load'[x])
  BY <1>3, <1>4 DEF CacheInv
<1>6. cacheClock - n.began < Ttl /\ n.base >= returned[p]
  BY <1>4, CacheAssumption DEF CacheInv
<1> QED
  BY <1>1, <1>3, <1>4, <1>5, <1>6, ReaderWaits

\* A load proceeds or fails: when it began and what was written by then stay.
LEMMA LoadMoves ==
    ASSUME CacheInv, NEW l \in Load, NEW n, load' = [load EXCEPT ![l] = n], IsLoad(n),
           n.began = load[l].began, n.base = load[l].base, n.at \in {"pending", "done", "failed"},
           UNCHANGED <<cacheClock, table, returned, mutation, reader>>,
           entry' \in [Replica -> Load \cup {None}],
           \A p \in Replica : \/ entry'[p] = None
                              \/ entry'[p] = entry[p] /\ (entry[p] = l => n.at # "failed")
    PROVE  CacheInv'
<1>1. /\ DOMAIN load' = Load /\ load'[l] = n /\ \A x \in Load \ {l} : load'[x] = load[x]
      /\ \A x \in Load : IsLoad(load'[x])
  BY DEF CacheInv
<1>2. ASSUME NEW q \in Reader
      PROVE  ReaderOK(q)'
  BY <1>1 DEF ReaderOK, CacheInv
<1>3. ASSUME NEW p \in Replica
      PROVE  EntryOK(p)'
  BY <1>1, CacheAssumption DEF EntryOK, CacheInv
<1> QED
  BY <1>1, <1>2, <1>3 DEF CacheInv

LEMMA LoadKeeps ==
    ASSUME CacheInv, NEW l \in Load, LoadCall(l) \/ LoadFails(l)
    PROVE  CacheInv'
<1>1. PICK C, V : load[l] \in Loads(C, V)
  BY DEF CacheInv, IsLoad
<1>2. CASE LoadCall(l)
  <2>1. PICK to \in {"pending", "done"} :
          load' = [load EXCEPT ![l].calls = Tail(@), ![l].value = index, ![l].at = to]
    BY <1>2 DEF LoadCall
  <2>2. PICK n : n = [load[l] EXCEPT !.calls = Tail(@), !.value = index, !.at = to]
    OBVIOUS
  <2>3. load' = [load EXCEPT ![l] = n]
    BY <2>1, <2>2
  <2>4. /\ n \in Loads(C \cup {Tail(load[l].calls)}, V \cup {index})
        /\ n.began = load[l].began /\ n.base = load[l].base /\ n.at = to
    BY <1>1, <2>2 DEF Loads
  <2>5. IsLoad(n)
    BY <2>4 DEF IsLoad
  <2> QED
    BY <1>2, <2>1, <2>3, <2>4, <2>5, LoadMoves DEF LoadCall, CacheInv
<1>3. CASE LoadFails(l)
  <2>1. PICK n : n = [load[l] EXCEPT !.at = "failed"]
    OBVIOUS
  <2>2. load' = [load EXCEPT ![l] = n]
    BY <1>3, <2>1 DEF LoadFails
  <2>3. /\ n \in Loads(C, V) /\ n.began = load[l].began /\ n.base = load[l].base
        /\ n.at = "failed"
    BY <1>1, <2>1 DEF Loads
  <2>4. /\ entry' \in [Replica -> Load \cup {None}]
        /\ \A p \in Replica : entry'[p] = None \/ (entry'[p] = entry[p] /\ entry[p] # l)
    BY <1>3 DEF LoadFails, WithoutFailed, CacheInv
  <2>5. IsLoad(n)
    BY <2>3 DEF IsLoad
  <2> QED
    BY <1>3, <2>2, <2>3, <2>4, <2>5, LoadMoves DEF LoadFails
<1> QED
  BY <1>2, <1>3

LEMMA CacheStep == CacheInv /\ [CacheNext]_cacheVars => CacheInv'
<1> SUFFICES ASSUME CacheInv, [CacheNext]_cacheVars
             PROVE  CacheInv'
  OBVIOUS
<1>1. ASSUME NEW r \in Reader, Answered(r)
      PROVE  CacheInv'
  <2>1. NoRead.at = "idle"
    BY DEF NoRead
  <2> QED
    BY <1>1, <2>1 DEF Answered, CacheInv, ReaderOK, EntryOK
<1>2. ASSUME NEW p \in Replica, MutateCatalog(p)
      PROVE  CacheInv'
  BY <1>2 DEF MutateCatalog, CacheInv, ReaderOK, EntryOK
<1>3. ASSUME NEW p \in Replica, InvalidateCatalogList(p)
      PROVE  CacheInv'
  BY <1>3 DEF InvalidateCatalogList, CacheInv, ReaderOK, EntryOK
<1>4. CASE IndexFollows \/ ClockTicks \/ UNCHANGED cacheVars
  BY <1>4 DEF IndexFollows, ClockTicks, cacheVars, CacheInv, ReaderOK, EntryOK
<1> QED
  BY <1>1, <1>2, <1>3, <1>4, ReadCachedKeeps, ReadLoadingKeeps, LoadKeeps DEF CacheNext

\* Every read is answered from a load that is young enough, that began after the
\* writes its process has answered for, and that had not failed (ttlCache,
\* invalidateCatalogList): for every number of processes, readers and loads.
THEOREM ReadsAreCurrent == CacheSpec => []ReadsCurrent
<1>1. CacheInit => CacheInv
  <2> SUFFICES ASSUME CacheInit
               PROVE  CacheInv
    OBVIOUS
  <2>1. IsLoad(NoLoad) /\ NoRead.at = "idle"
    <3>1. NoLoad \in Loads({<<>>}, {0})
      BY DEF NoLoad, Loads
    <3> QED
      BY <3>1 DEF IsLoad, NoRead
  <2> QED
    BY <2>1 DEF CacheInit, CacheInv, ReaderOK, EntryOK
<1>2. CacheInv => ReadsCurrent
  BY DEF CacheInv, ReaderOK, ReadsCurrent
<1> QED
  BY <1>1, <1>2, CacheStep, PTL DEF CacheSpec

-----------------------------------------------------------------------------
(* WorkspaceProxy: from the moment an upgrade is authorized its socket is tracked *)
(* until it closes or lapses.                                                     *)

Conns == [at : {"free", "authenticate", "inspect", "resolve", "host", "send", "stream", "buffer",
                "hung", "connect", "tunnel"},
          kind : {"none", "document", "asset", "upgrade"}, user : User, tokened : BOOLEAN,
          grant : Nat, open : BOOLEAN]

Sockets == {"resolve", "host", "connect", "tunnel"}

\* A connection n whose entry in the registry is e.
TrackedOK(n, e) ==
    /\ n.at \in {"connect", "tunnel"} => n.kind = "upgrade"
    /\ n.kind = "upgrade" /\ n.at \in Sockets /\ n.open = TRUE /\ n.grant > now => e = n.grant

ProxyInv ==
    /\ now \in Nat
    /\ session \in [User -> [token : Nat, row : Nat, live : BOOLEAN]]
    /\ conn \in [Conn -> Conns]
    /\ presence \in [tracked : [Conn -> Nat], lost : Nat]
    /\ \A c \in Conn : TrackedOK(conn[c], presence.tracked[c])

LEMMA ClosedConn == Closed \in Conns /\ Closed.at = "free"
BY ProxyAssumption DEF Closed, Conns

\* One connection moves, with its own entry; the clock and the sessions stand still.
LEMMA ConnMoves ==
    ASSUME ProxyInv, NEW c \in Conn, NEW n \in Conns, conn' = [conn EXCEPT ![c] = n],
           now' = now, session' \in [User -> [token : Nat, row : Nat, live : BOOLEAN]],
           presence' \in [tracked : [Conn -> Nat], lost : Nat],
           \A d \in Conn \ {c} : presence'.tracked[d] = presence.tracked[d],
           TrackedOK(n, presence'.tracked[c])
    PROVE  ProxyInv'
<1>1. /\ conn' \in [Conn -> Conns] /\ conn'[c] = n
      /\ \A d \in Conn \ {c} : conn'[d] = conn[d]
  BY DEF ProxyInv
<1>2. \A d \in Conn : TrackedOK(conn[d], presence.tracked[d])
  BY DEF ProxyInv
<1>3. \A d \in Conn : TrackedOK(conn[d], presence.tracked[d])'
  BY <1>1, <1>2 DEF TrackedOK
<1> QED
  BY <1>1, <1>3 DEF ProxyInv

\* Entries of the registry are written one at a time.
LEMMA PresenceFields ==
    ASSUME ProxyInv, NEW c \in Conn, NEW e \in Nat, NEW p,
           p = [presence EXCEPT !.tracked[c] = e]
    PROVE  /\ p \in [tracked : [Conn -> Nat], lost : Nat] /\ p.tracked[c] = e
           /\ \A d \in Conn \ {c} : p.tracked[d] = presence.tracked[d]
<1>1. presence \in [tracked : [Conn -> Nat], lost : Nat]
  BY DEF ProxyInv
<1> QED
  BY <1>1

LEMMA FinishKeeps ==
    ASSUME ProxyInv, NEW c \in Conn, NEW heard, Finish(c, heard), now' = now,
           session' \in [User -> [token : Nat, row : Nat, live : BOOLEAN]]
    PROVE  ProxyInv'
<1>1. PICK p : p = (IF heard THEN Untrack(c) ELSE presence) /\ presence' = Forget(p, c)
  BY DEF Finish
<1>2. /\ p \in [tracked : [Conn -> Nat], lost : Nat]
      /\ \A d \in Conn \ {c} : p.tracked[d] = presence.tracked[d]
  <2>1. CASE p = presence
    BY <2>1 DEF ProxyInv
  <2>2. CASE p = Untrack(c)
    BY <2>2, PresenceFields DEF Untrack
  <2> QED
    BY <1>1, <2>1, <2>2
<1>3. /\ presence' \in [tracked : [Conn -> Nat], lost : Nat]
      /\ \A d \in Conn \ {c} : presence'.tracked[d] = presence.tracked[d]
  BY <1>1, <1>2 DEF Forget, Greater
<1>4. conn' = [conn EXCEPT ![c] = Closed] /\ TrackedOK(Closed, presence'.tracked[c])
  BY ClosedConn DEF Finish, TrackedOK, Sockets
<1> QED
  BY <1>3, <1>4, ClosedConn, ConnMoves

\* The steps that change nothing about a connection's presence.
MayReach(n, at) ==
    \/ at \in {"send", "stream", "buffer", "hung"}
    \/ at \in Sockets /\ n.kind = "upgrade" /\ n.at \in Sockets
    \/ at \in {"resolve", "host"} /\ n.kind # "upgrade"

\* A connection reaches its next step, and the registry is left alone.
LEMMA Reaches ==
    ASSUME ProxyInv, NEW c \in Conn, NEW at, conn' = [conn EXCEPT ![c].at = at],
           MayReach(conn[c], at), presence' = presence, now' = now, session' = session
    PROVE  ProxyInv'
<1>1. PICK n : n = [conn[c] EXCEPT !.at = at]
  OBVIOUS
<1>2. conn[c] \in Conns /\ TrackedOK(conn[c], presence.tracked[c])
  BY DEF ProxyInv
<1>3. n \in Conns /\ n.at = at /\ n.kind = conn[c].kind /\ n.open = conn[c].open
      /\ n.grant = conn[c].grant
  BY <1>1, <1>2 DEF Conns, Sockets, MayReach
<1>4. TrackedOK(n, presence.tracked[c])
  BY <1>2, <1>3 DEF TrackedOK, Sockets, MayReach
<1>5. conn' = [conn EXCEPT ![c] = n]
  BY <1>1
<1> QED
  BY <1>3, <1>4, <1>5, ConnMoves DEF ProxyInv

LEMMA ReceiveKeeps ==
    ASSUME ProxyInv, NEW c \in Conn, NEW u \in User, NEW k \in {"document", "asset", "upgrade"},
           Receive(c, u, k)
    PROVE  ProxyInv'
<1>1. PICK n : n = [Closed EXCEPT !.at = "authenticate", !.kind = k, !.user = u, !.open = TRUE]
  OBVIOUS
<1>2. n \in Conns /\ n.at = "authenticate"
  BY <1>1, ClosedConn DEF Conns
<1>3. conn' = [conn EXCEPT ![c] = n]
  BY <1>1 DEF Receive
<1> QED
  BY <1>2, <1>3, ConnMoves DEF Receive, ProxyInv, TrackedOK, Sockets

LEMMA AuthenticateKeeps ==
    ASSUME ProxyInv, NEW c \in Conn, LiveSessionToken(c)
    PROVE  ProxyInv'
<1>1. now' = now /\ conn[c] \in Conns /\ conn[c].user \in User
  BY DEF LiveSessionToken, ProxyInv, Conns
<1>2. CASE presence' = presence
  <2>1. PICK u \in User : u = conn[c].user
    BY <1>1
  <2>2. CASE Finish(c, TRUE) /\ session' = session
    BY <1>1, <2>2, FinishKeeps DEF ProxyInv
  <2>3. CASE ~(Finish(c, TRUE) /\ session' = session)
    <3>1. /\ conn' = [conn EXCEPT ![c].at = "inspect",
                        ![c].grant = IF conn[c].kind = "upgrade" THEN PresenceGrant(u) ELSE 0]
          /\ \E rolled \in {session[u].row, now + SessionLength} :
               session' = [session EXCEPT ![u].row = rolled]
      BY <2>1, <2>3 DEF LiveSessionToken
    <3>2. session' \in [User -> [token : Nat, row : Nat, live : BOOLEAN]]
      BY <3>1, ProxyAssumption DEF ProxyInv
    <3>3. PICK g \in Nat : g = IF conn[c].kind = "upgrade" THEN PresenceGrant(u) ELSE 0
      BY DEF PresenceGrant, SessionExpiresAt, Lesser, ProxyInv
    <3>4. PICK n : n = [conn[c] EXCEPT !.at = "inspect", !.grant = g]
      OBVIOUS
    <3>5. n \in Conns /\ n.at = "inspect"
      BY <1>1, <3>4 DEF Conns
    <3>6. conn' = [conn EXCEPT ![c] = n]
      BY <3>1, <3>3, <3>4
    <3> QED
      BY <1>1, <1>2, <3>2, <3>5, <3>6, ConnMoves DEF ProxyInv, TrackedOK, Sockets
  <2> QED
    BY <2>2, <2>3
<1>3. CASE presence' # presence
  BY <1>1, <1>3, FinishKeeps DEF LiveSessionToken, ProxyInv
<1> QED
  BY <1>2, <1>3

LEMMA AuthorizeKeeps ==
    ASSUME ProxyInv, NEW c \in Conn, AuthorizeWorkspace(c)
    PROVE  ProxyInv'
<1>1. now' = now /\ session' = session /\ conn[c] \in Conns /\ conn[c].at = "inspect"
      /\ session \in [User -> [token : Nat, row : Nat, live : BOOLEAN]]
  BY DEF AuthorizeWorkspace, ProxyInv
<1>2. CASE Finish(c, TRUE)
  BY <1>1, <1>2, FinishKeeps
<1>3. CASE conn[c].kind = "upgrade" /\ presence' = Track(c, conn[c].grant)
           /\ conn' = [conn EXCEPT ![c].at = "resolve"]
  <2>1. PICK n : n = [conn[c] EXCEPT !.at = "resolve"]
    OBVIOUS
  <2>2. n \in Conns /\ n.at = "resolve" /\ n.grant = conn[c].grant /\ conn[c].grant \in Nat
    BY <1>1, <2>1 DEF Conns
  <2>3. /\ presence' \in [tracked : [Conn -> Nat], lost : Nat] /\ presence'.tracked[c] = n.grant
        /\ \A d \in Conn \ {c} : presence'.tracked[d] = presence.tracked[d]
    BY <1>3, <2>2, PresenceFields DEF Track
  <2>4. conn' = [conn EXCEPT ![c] = n] /\ TrackedOK(n, presence'.tracked[c])
    BY <1>3, <2>1, <2>2, <2>3 DEF TrackedOK
  <2> QED
    BY <1>1, <2>2, <2>3, <2>4, ConnMoves
<1>4. CASE conn' = [conn EXCEPT ![c].at = "authenticate", ![c].tokened = TRUE]
           /\ presence' = presence
  <2>1. PICK n : n = [conn[c] EXCEPT !.at = "authenticate", !.tokened = TRUE]
    OBVIOUS
  <2>2. n \in Conns /\ n.at = "authenticate"
    BY <1>1, <2>1 DEF Conns
  <2>3. conn' = [conn EXCEPT ![c] = n] /\ TrackedOK(n, presence'.tracked[c])
    BY <1>4, <2>1, <2>2 DEF TrackedOK, Sockets
  <2> QED
    BY <1>1, <1>4, <2>2, <2>3, ConnMoves DEF ProxyInv
<1>5. CASE conn[c].kind # "upgrade" /\ presence' = presence
           /\ conn' = [conn EXCEPT ![c].at = "resolve"]
  <2>1. MayReach(conn[c], "resolve")
    BY <1>5 DEF MayReach
  <2> QED
    BY <1>1, <1>5, <2>1, Reaches
<1> QED
  BY <1>2, <1>3, <1>4, <1>5 DEF AuthorizeWorkspace

\* The browser goes away: whatever was tracked is not counted on any more.
LEMMA ClientClosesKeeps ==
    ASSUME ProxyInv, NEW c \in Conn, ClientCloses(c)
    PROVE  ProxyInv'
<1>1. now' = now /\ session' = session /\ conn[c] \in Conns
      /\ session \in [User -> [token : Nat, row : Nat, live : BOOLEAN]]
  BY DEF ClientCloses, ProxyInv
<1>2. CASE Finish(c, TRUE)
  BY <1>1, <1>2, FinishKeeps
<1>3. CASE conn' = [conn EXCEPT ![c].open = FALSE] /\ presence' \in {presence, Untrack(c)}
  <2>1. PICK n : n = [conn[c] EXCEPT !.open = FALSE]
    OBVIOUS
  <2>2. n \in Conns /\ n.at = conn[c].at /\ n.kind = conn[c].kind /\ n.open = FALSE
    BY <1>1, <2>1 DEF Conns
  <2>3. conn' = [conn EXCEPT ![c] = n] /\ TrackedOK(n, presence'.tracked[c])
    BY <1>3, <2>1, <2>2 DEF TrackedOK, ProxyInv
  <2>4. /\ presence' \in [tracked : [Conn -> Nat], lost : Nat]
        /\ \A d \in Conn \ {c} : presence'.tracked[d] = presence.tracked[d]
    BY <1>3, PresenceFields DEF Untrack, ProxyInv
  <2> QED
    BY <1>1, <2>2, <2>3, <2>4, ConnMoves
<1> QED
  BY <1>2, <1>3 DEF ClientCloses

\* The sweep prunes what has lapsed, and time only makes entries lapse.
LEMMA SweepKeeps ==
    ASSUME ProxyInv, SweepPresence \/ ProxyTick
    PROVE  ProxyInv'
<1>1. CASE SweepPresence
  <2>1. /\ presence' \in [tracked : [Conn -> Nat], lost : Nat]
        /\ \A c \in Conn : presence.tracked[c] > now => presence'.tracked[c] = presence.tracked[c]
    BY <1>1 DEF SweepPresence, LoadedWorkspaces, ProxyInv
  <2> QED
    BY <1>1, <2>1 DEF SweepPresence, ProxyInv, TrackedOK, Conns
<1>2. CASE ProxyTick
  <2>1. /\ now \in Nat /\ now' = now + 1 /\ conn \in [Conn -> Conns]
        /\ UNCHANGED <<session, conn, presence>>
    BY <1>2 DEF ProxyTick, ProxyInv
  <2>2. \A c \in Conn : conn[c].grant \in Nat /\ TrackedOK(conn[c], presence.tracked[c])
    BY <2>1 DEF ProxyInv, Conns
  <2>3. \A c \in Conn : TrackedOK(conn[c], presence.tracked[c])'
    BY <2>1, <2>2 DEF TrackedOK
  <2> QED
    BY <2>1, <2>3 DEF ProxyInv
<1> QED
  BY <1>1, <1>2

LEMMA HandlerKeeps ==
    ASSUME ProxyInv, NEW c \in Conn, Handler(c)
    PROVE  ProxyInv'
<1>0. session \in [User -> [token : Nat, row : Nat, live : BOOLEAN]]
  BY DEF ProxyInv
<1>1. CASE ConnectWorkspace(c)
  <2>1. now' = now /\ session' = session /\ conn[c].at = "resolve"
    BY <1>1 DEF ConnectWorkspace
  <2>2. CASE Finish(c, conn[c].open)
    BY <1>0, <2>1, <2>2, FinishKeeps
  <2>3. CASE conn' = [conn EXCEPT ![c].at = "host"] /\ presence' = presence
    <3>1. MayReach(conn[c], "host")
      BY <2>1 DEF MayReach, Sockets
    <3> QED
      BY <2>1, <2>3, <3>1, Reaches
  <2> QED
    BY <1>1, <2>2, <2>3 DEF ConnectWorkspace
<1>2. CASE ResolveUpstream(c)
  <2>1. now' = now /\ session' = session /\ conn[c].at = "host"
    BY <1>2 DEF ResolveUpstream
  <2>2. CASE Finish(c, conn[c].open)
    BY <1>0, <2>1, <2>2, FinishKeeps
  <2>3. CASE ~Finish(c, conn[c].open)
    <3>1. PICK at : /\ at = IF conn[c].kind = "upgrade" THEN "connect" ELSE "send"
                    /\ conn' = [conn EXCEPT ![c].at = at] /\ presence' = presence
      BY <1>2, <2>3 DEF ResolveUpstream
    <3>2. MayReach(conn[c], at)
      BY <2>1, <3>1 DEF MayReach, Sockets
    <3> QED
      BY <2>1, <3>1, <3>2, Reaches
  <2> QED
    BY <2>2, <2>3
<1> QED
  BY <1>1, <1>2, AuthenticateKeeps, AuthorizeKeeps DEF Handler

LEMMA ProxyStep == ProxyInv /\ [ProxyNext]_proxyVars => ProxyInv'
<1> SUFFICES ASSUME ProxyInv, [ProxyNext]_proxyVars
             PROVE  ProxyInv'
  OBVIOUS
<1>0. session \in [User -> [token : Nat, row : Nat, live : BOOLEAN]]
  BY DEF ProxyInv
<1>1. CASE DeskChanges \/ SendHeartbeat \/ UNCHANGED proxyVars
  BY <1>1 DEF DeskChanges, SendHeartbeat, proxyVars, ProxyInv, TrackedOK
<1>2. ASSUME NEW u \in User, VisitApp(u) \/ LeaveApp(u)
      PROVE  ProxyInv'
  <2>1. session' \in [User -> [token : Nat, row : Nat, live : BOOLEAN]]
    <3>1. CASE VisitApp(u)
      <4>1. now + SessionLength \in Nat
        BY ProxyAssumption DEF ProxyInv
      <4> QED
        BY <1>0, <3>1, <4>1 DEF VisitApp
    <3>2. CASE LeaveApp(u)
      BY <1>0, <3>2 DEF LeaveApp
    <3> QED
      BY <1>2, <3>1, <3>2
  <2> QED
    BY <1>2, <2>1 DEF VisitApp, LeaveApp, ProxyInv, TrackedOK
<1>3. ASSUME NEW c \in Conn, NEW u \in User,
             UpgradeRequest(c, u) \/ \E h \in Heads : HttpRequest(c, u, h)
      PROVE  ProxyInv'
  BY <1>3, ReceiveKeeps DEF UpgradeRequest, HttpRequest
<1>4. ASSUME NEW c \in Conn, UpstreamAnswers(c) \/ UpstreamEnds(c) \/ UpstreamDrops(c)
      PROVE  ProxyInv'
  <2>1. now' = now /\ session' = session
    BY <1>4 DEF UpstreamAnswers, UpstreamEnds, UpstreamDrops
  <2>2. CASE Finish(c, TRUE)
    BY <1>0, <2>1, <2>2, FinishKeeps
  <2>3. CASE ~Finish(c, TRUE)
    <3>1. PICK at \in {"stream", "buffer", "hung"} :
            conn' = [conn EXCEPT ![c].at = at] /\ presence' = presence
      BY <1>4, <2>3 DEF UpstreamAnswers, UpstreamEnds, UpstreamDrops
    <3>2. MayReach(conn[c], at)
      BY DEF MayReach
    <3> QED
      BY <2>1, <3>1, <3>2, Reaches
  <2> QED
    BY <2>2, <2>3
<1>5. ASSUME NEW c \in Conn, Upgraded(c) \/ TunnelEnds(c)
      PROVE  ProxyInv'
  <2>1. conn[c].at \in {"connect", "tunnel"} => conn[c].kind = "upgrade"
    BY DEF ProxyInv, TrackedOK
  <2>2. now' = now /\ session' = session
    BY <1>5 DEF Upgraded, TunnelEnds
  <2>3. CASE TunnelEnds(c)
    BY <1>0, <2>2, <2>3, FinishKeeps DEF TunnelEnds
  <2>4. CASE Upgraded(c)
    <3>1. MayReach(conn[c], "tunnel")
      BY <2>1, <2>4 DEF Upgraded, MayReach, Sockets
    <3> QED
      BY <2>2, <2>4, <3>1, Reaches DEF Upgraded
  <2> QED
    BY <1>5, <2>3, <2>4
<1> QED
  BY <1>1, <1>2, <1>3, <1>4, <1>5, SweepKeeps, HandlerKeeps, ClientClosesKeeps DEF ProxyNext

\* While a browser holds its socket and the session that opened it has not lapsed, the
\* workspace has it as presence, whatever other tabs open and close and whatever the
\* sweep prunes (PresenceRegistry): for every set of connections and people.
THEOREM TabsAreCounted == ProxySpec => []OpenTabCounts
<1>1. ProxyInit => ProxyInv
  BY ClosedConn, ProxyAssumption DEF ProxyInit, ProxyInv, TrackedOK, Sockets
<1>2. ProxyInv => OpenTabCounts
  BY DEF ProxyInv, TrackedOK, Sockets, OpenTabCounts, Conns
<1> QED
  BY <1>1, <1>2, ProxyStep, PTL DEF ProxySpec

-----------------------------------------------------------------------------
(* OpencodePaths: an address in the history is its route under the base. *)

Entries == [addr : Seq(Seg), meant : Seq(Seg)]

\* Every entry of the history means the route that is under the prefix.
PathInv ==
    /\ doc \in [at : {"none", "document", "running", "failed", "left"},
                parts : SUBSET Parts, route : Seq(Seg)]
    /\ entries \in Seq(Entries) /\ pos \in 1..Len(entries)
    /\ \A i \in 1..Len(entries) :
         Under(entries[i].addr) /\ Strip(entries[i].addr) = entries[i].meant
    /\ doc.at = "running" => doc.route = entries[pos].meant
    /\ sent.reached = sent.meant
    /\ doc.at \in {"document", "running"} => doc.parts = Parts

LEMMA OwnPaths == \A p \in Own : p \in Seq(Seg) /\ ~Under(p)
<1> SUFFICES ASSUME NEW p \in Own
             PROVE  p \in Seq(Seg) /\ ~Under(p)
  OBVIOUS
<1>1. PICK n \in 0..MaxPath : p \in [1..n -> Seg] /\ ~Under(p)
  BY DEF Own
<1>2. n \in Nat
  BY PathAssumption
<1> QED
  BY <1>1, <1>2

\* What the script adds, the proxy and the router take away.
LEMMA BaseComesAndGoes ==
    ASSUME NEW p \in Seq(Seg)
    PROVE  /\ WithBase(p) \in Seq(Seg) /\ Under(WithBase(p))
           /\ WithoutBase(WithBase(p)) = p
           /\ Under(p) => WithoutBase(p) \in Seq(Seg)
<1>1. Base \in Seq(Seg) /\ Len(Base) = 2 /\ Base[1] = "w" /\ Base[2] = Id
  BY PathAssumption DEF Base
<1>2. PICK q : q = WithBase(p)
  OBVIOUS
<1>3. /\ q \in Seq(Seg) /\ Len(q) = 2 + Len(p) /\ Len(p) \in Nat
      /\ \A i \in 1..Len(q) : q[i] = IF i <= 2 THEN Base[i] ELSE p[i - 2]
  <2>1. PICK b : b = Base
    OBVIOUS
  <2>2. q = b \o p /\ b \in Seq(Seg) /\ Len(b) = 2
    BY <1>1, <1>2, <2>1 DEF WithBase
  <2>3. /\ b \o p \in Seq(Seg) /\ Len(b \o p) = Len(b) + Len(p)
        /\ \A i \in 1..Len(b) + Len(p) : (b \o p)[i] = IF i <= Len(b) THEN b[i] ELSE p[i - Len(b)]
    BY <2>2, ConcatProperties
  <2> QED
    BY <2>1, <2>2, <2>3
<1>4. Under(q)
  <2>1. SubSeq(Base, 1, 2) = SubSeq(q, 1, 2)
    <3>1. /\ SubSeq(Base, 1, 2) \in Seq(Seg) /\ Len(SubSeq(Base, 1, 2)) = 2
          /\ \A i \in 1..2 : SubSeq(Base, 1, 2)[i] = Base[i]
      BY <1>1
    <3>2. /\ SubSeq(q, 1, 2) \in Seq(Seg) /\ Len(SubSeq(q, 1, 2)) = 2
          /\ \A i \in 1..2 : SubSeq(q, 1, 2)[i] = Base[i]
      BY <1>3
    <3> QED
      BY <3>1, <3>2, SeqEqual
  <2> QED
    BY <1>1, <1>3, <2>1 DEF Under, IsPrefix
<1>5. WithoutBase(q) = p
  <2>1. WithoutBase(q) = SubSeq(q, 3, 2 + Len(p))
    BY <1>1, <1>3 DEF WithoutBase
  <2>2. /\ SubSeq(q, 3, 2 + Len(p)) \in Seq(Seg) /\ Len(SubSeq(q, 3, 2 + Len(p))) = Len(p)
        /\ \A i \in 1..Len(p) : SubSeq(q, 3, 2 + Len(p))[i] = p[i]
    BY <1>3
  <2> QED
    BY <2>1, <2>2, SeqEqual
<1>6. Under(p) => WithoutBase(p) \in Seq(Seg)
  BY <1>1 DEF WithoutBase
<1> QED
  BY <1>2, <1>3, <1>4, <1>5, <1>6

\* So an address that gets the base if it has none is under it, means what was
\* meant, and reaches what was meant.
LEMMA Rebased ==
    ASSUME NEW p \in Seq(Seg)
    PROVE  /\ AddBase(p) \in Seq(Seg) /\ Under(AddBase(p)) /\ Strip(p) \in Seq(Seg)
           /\ Strip(AddBase(p)) = Strip(p)
           /\ RequestPath(Rebase(p)) = Strip(p)
  BY BaseComesAndGoes DEF AddBase, Strip, Rebase, RequestPath

\* All three parts find their place and work, or the document is refused.
LEMMA PartsRun ==
    ASSUME PathInv, NEW tags \in SUBSET {"head", "body"}, NEW csp \in Csp, LoadDocument(tags, csp)
    PROVE  PathInv'
<1> DEFINE h0 == [tags |-> tags, parts |-> {}]
           h1 == InjectWorkspaceHomeLink(h0)
           h2 == InjectOpencodeTerminalOverlay(h1)
           h3 == InjectOpencodeBasePathShim(h2)
           policy == CspAllowingSelfFrame(CspAllowingInlineScript(csp))
<1>1. h3.parts = {} \/ h3.parts = Parts
  BY DEF InjectWorkspaceHomeLink, InjectOpencodeTerminalOverlay, InjectOpencodeBasePathShim,
         Inject, Parts
<1>2. Runs(policy) = Parts
  <2>2. /\ policy \cap {"script-src", "script-src-elem"} = {} \/ "hash" \in policy
        /\ "frame-src" \notin policy \/ "self" \in policy
    BY DEF CspAllowingSelfFrame, CspAllowingInlineScript
  <2> QED
    BY <2>2 DEF Runs
<1>3. /\ doc' = IF h3.parts = {} THEN [NoDoc EXCEPT !.at = "failed"]
                ELSE [NoDoc EXCEPT !.at = "document", !.parts = h3.parts \cap Runs(policy)]
      /\ UNCHANGED <<entries, pos, sent, term>>
  BY DEF LoadDocument
<1> HIDE DEF h3, policy
<1>4. /\ doc' \in [at : {"none", "document", "running", "failed", "left"},
                   parts : SUBSET Parts, route : Seq(Seg)]
      /\ doc'.at \in {"failed", "document"}
      /\ doc'.at = "document" => doc'.parts = Parts
  <2>0. <<>> \in Seq(Seg)
    OBVIOUS
  <2>1. CASE h3.parts = {}
    <3>1. doc' = [at |-> "failed", parts |-> {}, route |-> <<>>]
      BY <1>3, <2>1 DEF NoDoc
    <3> QED
      BY <2>0, <3>1
  <2>2. CASE h3.parts = Parts
    <3>1. h3.parts # {} /\ h3.parts \cap Runs(policy) = Parts
      BY <1>2, <2>2 DEF Parts
    <3>2. doc' = [at |-> "document", parts |-> Parts, route |-> <<>>]
      BY <1>3, <3>1 DEF NoDoc
    <3> QED
      BY <2>0, <3>2
  <2> QED
    BY <1>1, <2>1, <2>2
<1> QED
  BY <1>3, <1>4 DEF PathInv, Under, Strip

LEMMA PathStart == PathInit => PathInv
<1> SUFFICES ASSUME PathInit
             PROVE  PathInv
  OBVIOUS
<1>1. PICK e : e = <<>>
  OBVIOUS
<1>2. e \in Seq(Seg) /\ Base \in Seq(Seg)
  BY <1>1, PathAssumption DEF Base
<1>3. WithBase(e) = Base
  BY <1>1, <1>2 DEF WithBase
<1>4. Under(Base) /\ Strip(Base) = <<>>
  BY <1>1, <1>2, <1>3, BaseComesAndGoes DEF Strip
<1>5. /\ doc = [at |-> "none", parts |-> {}, route |-> e]
      /\ entries = <<[addr |-> Base, meant |-> e]>>
      /\ pos = 1 /\ sent.reached = sent.meant
  BY <1>1 DEF PathInit, NoDoc, NoRequest
<1>6. doc \in [at : {"none", "document", "running", "failed", "left"},
               parts : SUBSET Parts, route : Seq(Seg)]
  BY <1>2, <1>5
<1>7. entries \in Seq(Entries) /\ Len(entries) = 1 /\ entries[1] = [addr |-> Base, meant |-> e]
  BY <1>2, <1>5 DEF Entries
<1> QED
  BY <1>1, <1>4, <1>5, <1>6, <1>7 DEF PathInv

\* The app writes an entry: a route of its own, or the address it is at.
LEMMA EntryWritten ==
    ASSUME PathInv, NEW p \in Seq(Seg)
    PROVE  LET e == [addr |-> AddBase(p), meant |-> Strip(p)]
           IN  e \in Entries /\ Under(e.addr) /\ Strip(e.addr) = e.meant
  BY Rebased DEF Entries

LEMMA EntryRead ==
    ASSUME PathInv, NEW i \in 1..Len(entries)
    PROVE  /\ entries[i].addr \in Seq(Seg) /\ entries[i].meant \in Seq(Seg)
           /\ Strip(entries[i].addr) = entries[i].meant
<1>1. entries[i] \in Entries
  <2>1. entries \in Seq(Entries)
    BY DEF PathInv
  <2> QED
    BY <2>1, ElementOfSeq
<1>2. entries[i].addr \in Seq(Seg) /\ entries[i].meant \in Seq(Seg)
  BY <1>1 DEF Entries
<1>3. Strip(entries[i].addr) = entries[i].meant
  BY DEF PathInv
<1> QED
  BY <1>2, <1>3

LEMMA PathMoves ==
    ASSUME PathInv,
           \/ LoadBundle \/ BundleRefused \/ Reload \/ ClickHome \/ ToggleTerminal
           \/ \E p \in Own : LoadAsset(p)
           \/ \E p \in Own \cup {entries[pos].addr} : Request(p)
           \/ \E i \in 1..MaxEntries : Traverse(i)
    PROVE  PathInv'
<1>0. /\ entries[pos].addr \in Seq(Seg) /\ entries[pos].meant \in Seq(Seg)
      /\ Strip(entries[pos].addr) = entries[pos].meant
  <2>1. pos \in 1..Len(entries)
    BY DEF PathInv
  <2> QED
    BY <2>1, EntryRead
<1>1. ASSUME LoadBundle
      PROVE  PathInv'
  <2>1. Strip(entries[pos].addr) = entries[pos].meant /\ entries[pos].meant \in Seq(Seg)
    BY <1>0
  <2>2. doc' = [doc EXCEPT !.at = "running", !.route = entries[pos].meant]
    BY <1>1, <2>1 DEF LoadBundle
  <2>3. UNCHANGED <<entries, pos, sent>> /\ doc.at = "document"
    BY <1>1 DEF LoadBundle
  <2> QED
    BY <2>1, <2>2, <2>3 DEF PathInv, Under, Strip
<1>2. ASSUME BundleRefused
      PROVE  PathInv'
  BY <1>2 DEF BundleRefused, PathInv, Under, Strip
<1>3. ASSUME Reload \/ ClickHome
      PROVE  PathInv'
  <2>0. PICK e : e = <<>>
    OBVIOUS
  <2>1. e = <<>> /\ e \in Seq(Seg)
    BY <2>0
  <2>2. \/ doc' = [at |-> "none", parts |-> {}, route |-> e]
        \/ doc' = [at |-> "left", parts |-> {}, route |-> e]
    BY <1>3, <2>1 DEF Reload, ClickHome, NoDoc
  <2>3. UNCHANGED <<entries, pos, sent>>
    BY <1>3 DEF Reload, ClickHome
  <2>4. /\ doc' \in [at : {"none", "document", "running", "failed", "left"},
                    parts : SUBSET Parts, route : Seq(Seg)]
        /\ doc'.at \in {"none", "left"}
    <3>1. CASE doc' = [at |-> "none", parts |-> {}, route |-> e]
      BY <2>1, <3>1
    <3>2. CASE doc' = [at |-> "left", parts |-> {}, route |-> e]
      BY <2>1, <3>2
    <3> QED
      BY <2>2, <3>1, <3>2
  <2> QED
    BY <2>3, <2>4 DEF PathInv, Under, Strip
<1>4. ASSUME ToggleTerminal
      PROVE  PathInv'
  BY <1>4 DEF ToggleTerminal, PathInv, Under, Strip
<1>5. ASSUME NEW p \in Own, LoadAsset(p)
      PROVE  PathInv'
  <2>1. p \in Seq(Seg) /\ ~Under(p)
    BY OwnPaths
  <2>2. RequestPath(RewriteAttribute(p)) = p
    BY <1>5, <2>1, BaseComesAndGoes DEF LoadAsset, RewriteAttribute, RequestPath
  <2>3. sent'.reached = sent'.meant /\ UNCHANGED <<doc, entries, pos>>
    BY <1>5, <2>2 DEF LoadAsset
  <2> QED
    BY <2>3 DEF PathInv, Under, Strip
<1>6. ASSUME NEW p \in Own \cup {entries[pos].addr}, Request(p)
      PROVE  PathInv'
  <2>1. p \in Seq(Seg)
    BY <1>0, OwnPaths
  <2>2. sent'.reached = sent'.meant /\ UNCHANGED <<doc, entries, pos>>
    BY <1>6, <2>1, Rebased DEF Request
  <2> QED
    BY <2>2 DEF PathInv, Under, Strip
<1>7. ASSUME NEW i \in 1..MaxEntries, Traverse(i)
      PROVE  PathInv'
  <2>1. i \in 1..Len(entries)
    BY <1>7 DEF Traverse, PathInv
  <2>2. Strip(entries[i].addr) = entries[i].meant /\ entries[i].meant \in Seq(Seg)
    BY <2>1, EntryRead
  <2>3. doc' = [doc EXCEPT !.route = entries[i].meant]
    BY <1>7, <2>2 DEF Traverse
  <2>4. UNCHANGED <<entries, sent>> /\ pos' = i
    BY <1>7 DEF Traverse
  <2> QED
    BY <2>1, <2>2, <2>3, <2>4 DEF PathInv, Under, Strip
<1> QED
  BY <1>1, <1>2, <1>3, <1>4, <1>5, <1>6, <1>7

LEMMA PathWrites ==
    ASSUME PathInv,
           \/ \E p \in Own : PushState(p)
           \/ \E p \in Own \cup {entries[pos].addr} : ReplaceState(p)
    PROVE  PathInv'
<1>0. /\ entries[pos].addr \in Seq(Seg) /\ entries[pos].meant \in Seq(Seg)
      /\ Strip(entries[pos].addr) = entries[pos].meant
  <2>1. pos \in 1..Len(entries)
    BY DEF PathInv
  <2> QED
    BY <2>1, EntryRead
<1>1. ASSUME NEW p \in Own, PushState(p)
      PROVE  PathInv'
  <2>1. p \in Seq(Seg) /\ Strip(p) = p
    BY OwnPaths DEF Strip
  <2>2. PICK e : e = [addr |-> AddBase(p), meant |-> p]
    OBVIOUS
  <2>3. e \in Entries /\ Under(e.addr) /\ Strip(e.addr) = e.meant /\ e.meant = p
    BY <2>1, <2>2, EntryWritten
  <2>4. /\ entries' = Append(SubSeq(entries, 1, pos), e) /\ pos' = pos + 1
        /\ doc' = [doc EXCEPT !.route = p] /\ UNCHANGED sent
    BY <1>1, <2>2 DEF PushState
  <2>5. PICK s : s = SubSeq(entries, 1, pos)
    OBVIOUS
  <2>6. /\ s \in Seq(Entries) /\ Len(s) = pos /\ pos \in Nat
        /\ \A i \in 1..pos : s[i] = entries[i] /\ i \in 1..Len(entries)
    BY <2>5 DEF PathInv
  <2>7. /\ entries' \in Seq(Entries) /\ Len(entries') = pos + 1 /\ entries'[pos + 1] = e
        /\ \A i \in 1..pos : entries'[i] = entries[i]
    BY <2>3, <2>4, <2>5, <2>6, AppendProperties
  <2>8. \A i \in 1..Len(entries') :
          Under(entries'[i].addr) /\ Strip(entries'[i].addr) = entries'[i].meant
    <3> TAKE i \in 1..Len(entries')
    <3>1. CASE i \in 1..pos
      BY <2>6, <2>7, <3>1 DEF PathInv
    <3>2. CASE i = pos + 1
      BY <2>3, <2>7, <3>2
    <3> QED
      BY <2>6, <2>7, <3>1, <3>2
  <2> QED
    <3>1. /\ doc' \in [at : {"none", "document", "running", "failed", "left"},
                      parts : SUBSET Parts, route : Seq(Seg)]
          /\ doc'.route = p /\ doc'.at = doc.at /\ doc'.parts = doc.parts
      BY <2>1, <2>4 DEF PathInv
    <3>2. pos' \in 1..Len(entries') /\ entries'[pos'].meant = p
      BY <2>3, <2>4, <2>6, <2>7
    <3> QED
      BY <2>4, <2>7, <2>8, <3>1, <3>2 DEF PathInv, Under, Strip
<1>2. ASSUME NEW p \in Own \cup {entries[pos].addr}, ReplaceState(p)
      PROVE  PathInv'
  <2>1. p \in Seq(Seg)
    BY <1>0, OwnPaths
  <2>2. PICK e : e = [addr |-> AddBase(p), meant |-> Strip(p)]
    OBVIOUS
  <2>3. e \in Entries /\ Under(e.addr) /\ Strip(e.addr) = e.meant /\ e.meant = Strip(p)
    BY <2>1, <2>2, EntryWritten
  <2>4. /\ entries' = [entries EXCEPT ![pos] = e] /\ UNCHANGED <<pos, sent>>
        /\ doc' = [doc EXCEPT !.route = e.meant]
    BY <1>2, <2>2, <2>3 DEF ReplaceState
  <2>5. /\ entries' \in Seq(Entries) /\ Len(entries') = Len(entries) /\ entries'[pos] = e
        /\ \A i \in 1..Len(entries) : i # pos => entries'[i] = entries[i]
    BY <2>3, <2>4 DEF PathInv
  <2>6. \A i \in 1..Len(entries') :
          Under(entries'[i].addr) /\ Strip(entries'[i].addr) = entries'[i].meant
    BY <2>3, <2>5 DEF PathInv
  <2>7. e.meant \in Seq(Seg)
    BY <2>3 DEF Entries
  <2> QED
    BY <2>3, <2>4, <2>5, <2>6, <2>7 DEF PathInv, Under, Strip
<1> QED
  BY <1>1, <1>2

\* For every set of path segments and every length of paths and of the history:
\* opencode shows the route it meant, every address it leaves reloads into its
\* workspace, and every request arrives where it was meant (the base-path shim,
\* workspaceProxyRequestPath, patchOpencodeRouterBase).
THEOREM RoutesAreKept == PathSpec => []RoutesRoundTrip
<1>1. PathInit => PathInv
  BY PathStart
<1>2. PathInv /\ [PathNext]_pathVars => PathInv'
  <2> SUFFICES ASSUME PathInv, [PathNext]_pathVars
               PROVE  PathInv'
    OBVIOUS
  <2>1. CASE UNCHANGED pathVars
    BY <2>1 DEF PathInv, pathVars, Under, Strip
  <2>2. CASE PathNext
    BY <2>2, PartsRun, PathMoves, PathWrites DEF PathNext
  <2> QED
    BY <2>1, <2>2
<1>3. PathInv => RoutesRoundTrip
  <2> SUFFICES ASSUME PathInv
               PROVE  RoutesRoundTrip
    OBVIOUS
  <2>1. DOMAIN entries = 1..Len(entries)
    BY DEF PathInv
  <2> QED
    BY <2>1 DEF PathInv, RoutesRoundTrip
<1> QED
  BY <1>1, <1>2, <1>3, PTL DEF PathSpec

-----------------------------------------------------------------------------
(* TrafficFilter: what is reported as applied is what decides. *)

\* A set of numbers that has a member has a least one.
LEMMA LeastNumber ==
    ASSUME NEW S \in SUBSET Nat, S # {}
    PROVE  \E m \in S : \A n \in S : m <= n
<1> DEFINE R == OpToRel(<, Nat)
<1>1. PICK m \in S : \A n \in S : ~(<<n, m>> \in R)
  <2>1. IsWellFoundedOn(R, Nat)
    BY NatLessThanWellFounded
  <2> HIDE DEF R
  <2> QED
    BY <2>1, WFMin
<1>2. \A n \in S : ~(n < m)
  BY <1>1 DEF OpToRel
<1>3. \A n \in S : m <= n
  BY <1>2
<1> QED
  BY <1>3

\* Of rules that have numbers, one comes first.
LEMMA FirstComes ==
    ASSUME NEW R, \A r \in R : r.priority \in Nat, R # {}
    PROVE  First(R) \in R /\ \A q \in R : First(R).priority <= q.priority
<1>1. PICK m \in {r.priority : r \in R} : \A n \in {r.priority : r \in R} : m <= n
  <2>1. {r.priority : r \in R} \in SUBSET Nat /\ {r.priority : r \in R} # {}
    OBVIOUS
  <2> QED
    BY <2>1, LeastNumber
<1>2. \E r \in R : \A q \in R : r.priority <= q.priority
  BY <1>1
<1> QED
  BY <1>2 DEF First

\* The band of the policy's rules begins above the rules that stay.
LEMMA BandIsAbove ==
    EddBasePriority(Baseline) \in Nat /\ \A r \in Baseline : r.priority < EddBasePriority(Baseline)
<1> DEFINE S == {n \in Nat : \A r \in Baseline : r.priority < n}
<1>1. MaxPriority + 1 \in S
  BY FilterAssumption
<1>2. PICK m \in S : \A n \in S : m <= n
  <2>1. S \in SUBSET Nat /\ S # {}
    BY <1>1
  <2> HIDE DEF S
  <2> QED
    BY <2>1, LeastNumber
<1>3. m \in 0..MaxPriority + 1 /\ \A r \in Baseline : r.priority < m
  BY <1>1, <1>2, FilterAssumption
<1>4. m = 0 \/ \E r \in Baseline : r.priority = m - 1
  <2> SUFFICES ASSUME m # 0, \A r \in Baseline : r.priority # m - 1
               PROVE  FALSE
    OBVIOUS
  <2>1. \A r \in Baseline : r.priority < m - 1
    BY <1>3, FilterAssumption
  <2>2. m - 1 \in S
    BY <1>3, <2>1, FilterAssumption
  <2> QED
    BY <1>2, <1>3, <2>2, FilterAssumption
<1>5. \E n \in 0..MaxPriority + 1 : /\ \A r \in Baseline : r.priority < n
                                    /\ n = 0 \/ \E r \in Baseline : r.priority = n - 1
  BY <1>3, <1>4
<1>6. /\ EddBasePriority(Baseline) \in 0..MaxPriority + 1
      /\ \A r \in Baseline : r.priority < EddBasePriority(Baseline)
  BY <1>5 DEF EddBasePriority
<1> QED
  BY <1>6, FilterAssumption

\* A rule that is added on a condition comes last, if at all.
AddedLast(S, q, r, g, t) ==
    /\ t \in Seq(S) /\ Len(t) \in Nat /\ Len(q) <= Len(t)
    /\ \A i \in 1..Len(q) : t[i] = q[i]
    /\ \A i \in 1..Len(t) : i \notin 1..Len(q) => g = <<r>> /\ t[i] = r
    /\ g = <<r>> => Len(q) + 1 \in 1..Len(t) /\ t[Len(q) + 1] = r

LEMMA GivenLast ==
    ASSUME NEW S, NEW q \in Seq(S), NEW r \in S, NEW g, g = <<>> \/ g = <<r>>
    PROVE  AddedLast(S, q, r, g, q \o g)
<1>1. CASE g = <<r>>
  <2>1. g \in Seq(S) /\ Len(g) = 1 /\ g[1] = r
    BY <1>1
  <2> QED
    BY <1>1, <2>1 DEF AddedLast
<1>2. CASE g = <<>>
  <2>1. g \in Seq(S) /\ Len(g) = 0 /\ g # <<r>>
    BY <1>2
  <2> QED
    BY <1>2, <2>1 DEF AddedLast
<1> QED
  BY <1>1, <1>2

\* A compiled policy: the anonymous sources first, then what it lists.
LEMMA CompiledShape ==
    ASSUME NEW p \in Policies, NEW c, c = CompiledRules(p)
    PROVE  /\ Len(c) \in Nat
           /\ \A i \in 1..Len(c) :
                \/ p.blockAnonymous /\ c[i] = Rule("managed-anonymous", "block", {})
                \/ p.cidrs # {} /\ c[i] = Rule("ip", p.mode, {})
                \/ p.countries # {} /\ c[i] = Rule("geo", p.mode, p.countries)
                \/ EffectiveAsns(p) # {} /\ c[i] = Rule("asn", p.mode, EffectiveAsns(p))
           /\ p.blockAnonymous => 1 \in 1..Len(c) /\ c[1] = Rule("managed-anonymous", "block", {})
           /\ p.cidrs # {} => \E i \in 1..Len(c) : c[i] = Rule("ip", p.mode, {})
           /\ p.countries # {} => \E i \in 1..Len(c) : c[i] = Rule("geo", p.mode, p.countries)
           /\ EffectiveAsns(p) # {} =>
                \E i \in 1..Len(c) : c[i] = Rule("asn", p.mode, EffectiveAsns(p))
<1>1. PICK a, n, g, s : /\ a = Rule("managed-anonymous", "block", {})
                        /\ n = Rule("ip", p.mode, {}) /\ g = Rule("geo", p.mode, p.countries)
                        /\ s = Rule("asn", p.mode, EffectiveAsns(p))
  OBVIOUS
<1> DEFINE ga == Given(p.blockAnonymous, a)
           gn == Given(p.cidrs # {}, n)
           gg == Given(p.countries # {}, g)
           gs == Given(EffectiveAsns(p) # {}, s)
<1>2. /\ (ga = <<>> \/ ga = <<a>>) /\ (p.blockAnonymous <=> ga = <<a>>)
      /\ (gn = <<>> \/ gn = <<n>>) /\ (p.cidrs # {} <=> gn = <<n>>)
      /\ (gg = <<>> \/ gg = <<g>>) /\ (p.countries # {} <=> gg = <<g>>)
      /\ (gs = <<>> \/ gs = <<s>>) /\ (EffectiveAsns(p) # {} <=> gs = <<s>>)
  <2>1. <<>> # <<a>> /\ <<>> # <<n>> /\ <<>> # <<g>> /\ <<>> # <<s>>
    OBVIOUS
  <2> QED
    BY <2>1 DEF Given
<1>13. c = ((ga \o gn) \o gg) \o gs
  BY <1>1 DEF CompiledRules
<1> HIDE DEF ga, gn, gg, gs
<1>3. PICK S, t0, t1, t2, t3, t4 :
        /\ S = {a, n, g, s} /\ t0 = <<>> /\ t1 = t0 \o ga /\ t2 = t1 \o gn
        /\ t3 = t2 \o gg /\ t4 = t3 \o gs
  OBVIOUS
<1>4. a \in S /\ n \in S /\ g \in S /\ s \in S
  BY <1>3
<1>6. t0 \in Seq(S) /\ Len(t0) = 0
  BY <1>3
<1>7. /\ t1 \in Seq(S) /\ Len(t1) \in Nat /\ Len(t0) <= Len(t1)
      /\ \A i \in 1..Len(t0) : t1[i] = t0[i]
      /\ \A i \in 1..Len(t1) : i \notin 1..Len(t0) => ga = <<a>> /\ t1[i] = a
      /\ ga = <<a>> => Len(t0) + 1 \in 1..Len(t1) /\ t1[Len(t0) + 1] = a
  <2>1. t0 \in Seq(S) /\ a \in S /\ (ga = <<>> \/ ga = <<a>>) /\ t1 = t0 \o ga
    BY <1>2, <1>3, <1>4, <1>6
  <2>2. AddedLast(S, t0, a, ga, t0 \o ga)
    BY <2>1, GivenLast
  <2> QED
    BY <2>1, <2>2 DEF AddedLast
<1>8. /\ t2 \in Seq(S) /\ Len(t2) \in Nat /\ Len(t1) <= Len(t2)
      /\ \A i \in 1..Len(t1) : t2[i] = t1[i]
      /\ \A i \in 1..Len(t2) : i \notin 1..Len(t1) => gn = <<n>> /\ t2[i] = n
      /\ gn = <<n>> => Len(t1) + 1 \in 1..Len(t2) /\ t2[Len(t1) + 1] = n
  <2>1. t1 \in Seq(S) /\ n \in S /\ (gn = <<>> \/ gn = <<n>>) /\ t2 = t1 \o gn
    BY <1>2, <1>3, <1>4, <1>7
  <2>2. AddedLast(S, t1, n, gn, t1 \o gn)
    BY <2>1, GivenLast
  <2> QED
    BY <2>1, <2>2 DEF AddedLast
<1>9. /\ t3 \in Seq(S) /\ Len(t3) \in Nat /\ Len(t2) <= Len(t3)
      /\ \A i \in 1..Len(t2) : t3[i] = t2[i]
      /\ \A i \in 1..Len(t3) : i \notin 1..Len(t2) => gg = <<g>> /\ t3[i] = g
      /\ gg = <<g>> => Len(t2) + 1 \in 1..Len(t3) /\ t3[Len(t2) + 1] = g
  <2>1. t2 \in Seq(S) /\ g \in S /\ (gg = <<>> \/ gg = <<g>>) /\ t3 = t2 \o gg
    BY <1>2, <1>3, <1>4, <1>8
  <2>2. AddedLast(S, t2, g, gg, t2 \o gg)
    BY <2>1, GivenLast
  <2> QED
    BY <2>1, <2>2 DEF AddedLast
<1>10. /\ t4 \in Seq(S) /\ Len(t4) \in Nat /\ Len(t3) <= Len(t4)
       /\ \A i \in 1..Len(t3) : t4[i] = t3[i]
       /\ \A i \in 1..Len(t4) : i \notin 1..Len(t3) => gs = <<s>> /\ t4[i] = s
       /\ gs = <<s>> => Len(t3) + 1 \in 1..Len(t4) /\ t4[Len(t3) + 1] = s
  <2>1. t3 \in Seq(S) /\ s \in S /\ (gs = <<>> \/ gs = <<s>>) /\ t4 = t3 \o gs
    BY <1>2, <1>3, <1>4, <1>9
  <2>2. AddedLast(S, t3, s, gs, t3 \o gs)
    BY <2>1, GivenLast
  <2> QED
    BY <2>1, <2>2 DEF AddedLast
<1>11. \A i \in 1..Len(t4) : \/ ga = <<a>> /\ t4[i] = a
                             \/ gn = <<n>> /\ t4[i] = n
                             \/ gg = <<g>> /\ t4[i] = g
                             \/ gs = <<s>> /\ t4[i] = s
  <2> TAKE i \in 1..Len(t4)
  <2>0. /\ i \in 1..Len(t1) => i \in 1..Len(t2) /\ t2[i] = t1[i]
        /\ i \in 1..Len(t2) => i \in 1..Len(t3) /\ t3[i] = t2[i]
        /\ i \in 1..Len(t3) => t4[i] = t3[i]
    BY <1>7, <1>8, <1>9, <1>10
  <2>1. CASE i \in 1..Len(t1)
    <3>1. t4[i] = t1[i]
      BY <2>0, <2>1
    <3>2. i \notin 1..Len(t0)
      BY <1>6, <2>1
    <3>3. ga = <<a>> /\ t1[i] = a
      BY <1>7, <2>1, <3>2
    <3> QED
      BY <3>1, <3>3
  <2>2. CASE i \in 1..Len(t2) /\ i \notin 1..Len(t1)
    <3>1. t4[i] = t2[i]
      BY <2>0, <2>2
    <3>2. gn = <<n>> /\ t2[i] = n
      BY <1>8, <2>2
    <3> QED
      BY <3>1, <3>2
  <2>3. CASE i \in 1..Len(t3) /\ i \notin 1..Len(t2)
    <3>1. t4[i] = t3[i]
      BY <2>0, <2>3
    <3>2. gg = <<g>> /\ t3[i] = g
      BY <1>9, <2>3
    <3> QED
      BY <3>1, <3>2
  <2>4. CASE i \notin 1..Len(t3)
    BY <1>10, <2>4
  <2> QED
    BY <2>1, <2>2, <2>3, <2>4
<1>12. /\ ga = <<a>> => 1 \in 1..Len(t4) /\ t4[1] = a
       /\ gn = <<n>> => \E i \in 1..Len(t4) : t4[i] = n
       /\ gg = <<g>> => \E i \in 1..Len(t4) : t4[i] = g
       /\ gs = <<s>> => \E i \in 1..Len(t4) : t4[i] = s
  <2>1. Len(t1) <= Len(t2) /\ Len(t2) <= Len(t3) /\ Len(t3) <= Len(t4)
    BY <1>8, <1>9, <1>10
  <2>2. ga = <<a>> => 1 \in 1..Len(t1) /\ t4[1] = a
    BY <1>6, <1>7, <1>8, <1>9, <1>10
  <2>3. gn = <<n>> => Len(t1) + 1 \in 1..Len(t2) /\ t4[Len(t1) + 1] = n
    BY <1>7, <1>8, <1>9, <1>10
  <2>4. gg = <<g>> => Len(t2) + 1 \in 1..Len(t3) /\ t4[Len(t2) + 1] = g
    BY <1>8, <1>9, <1>10
  <2> QED
    BY <1>7, <1>8, <1>9, <1>10, <2>1, <2>2, <2>3, <2>4
<1>14. t4 = c
  <2>1. t1 = ga
    BY <1>2, <1>3
  <2> QED
    BY <1>3, <1>13, <2>1
<1>15. Len(t4) \in Nat
  BY <1>10
<1> QED
  BY <1>1, <1>2, <1>11, <1>12, <1>14, <1>15

LEMMA CompiledKinds ==
    ASSUME NEW p \in Policies, NEW c, c = CompiledRules(p), NEW i \in 1..Len(c)
    PROVE  /\ c[i].type # "baseline"
           /\ \/ p.blockAnonymous /\ c[i] = Rule("managed-anonymous", "block", {})
              \/ c[i].action = p.mode
<1>1. \/ p.blockAnonymous /\ c[i] = Rule("managed-anonymous", "block", {})
      \/ c[i] = Rule("ip", p.mode, {})
      \/ c[i] = Rule("geo", p.mode, p.countries)
      \/ c[i] = Rule("asn", p.mode, EffectiveAsns(p))
  BY CompiledShape
<1> QED
  BY <1>1 DEF Rule

\* The live WAF holds a policy: its ranges are in the IP set, its rules follow
\* Terraform's.
Holds(p) == ipSet = p.cidrs /\ webAcl = Materialized(Baseline, p)

\* The rules that stay are Terraform's, whatever was applied before.
LEMMA BaselineStays ==
    /\ {r \in Baseline : NotOurs(r)} = Baseline
    /\ \A p \in Policies : {r \in Materialized(Baseline, p).rules : NotOurs(r)} = Baseline
<1>1. {r \in Baseline : NotOurs(r)} = Baseline
  BY FilterAssumption DEF NotOurs
<1>2. ASSUME NEW p \in Policies
      PROVE  {r \in Materialized(Baseline, p).rules : NotOurs(r)} = Baseline
  <2>1. PICK c, b : c = CompiledRules(p) /\ b = EddBasePriority(Baseline)
    OBVIOUS
  <2>2. \A i \in 1..Len(c) : c[i].type # "baseline"
    BY <2>1, CompiledKinds
  <2>3. \A i \in 1..Len(c) : ~NotOurs(ToWafRule(c[i], b + i - 1))
    BY <2>2 DEF NotOurs, ToWafRule
  <2>4. Materialized(Baseline, p).rules = Baseline \cup {ToWafRule(c[i], b + i - 1) : i \in 1..Len(c)}
    BY <1>1, <2>1 DEF Materialized
  <2>5. \A r : r \in Baseline => NotOurs(r)
    BY <1>1
  <2> QED
    BY <2>3, <2>4, <2>5
<1> QED
  BY <1>1, <1>2

LEMMA Rematerialized ==
    ASSUME NEW R, {r \in R : NotOurs(r)} = Baseline, NEW p
    PROVE  Materialized(R, p) = Materialized(Baseline, p)
<1> DEFINE M(B) == [rules |-> B \cup {ToWafRule(CompiledRules(p)[i], EddBasePriority(B) + i - 1) :
                                        i \in 1..Len(CompiledRules(p))},
                    default |-> DefaultAction(p)]
<1>1. Materialized(R, p) = M({r \in R : NotOurs(r)})
  BY DEF Materialized
<1>2. Materialized(Baseline, p) = M({r \in Baseline : NotOurs(r)})
  BY DEF Materialized
<1> HIDE DEF M
<1>3. {r \in R : NotOurs(r)} = {r \in Baseline : NotOurs(r)}
  BY BaselineStays
<1> QED
  BY <1>1, <1>2, <1>3

\* The rules of the live Web ACL are Terraform's and, above them, ours.
LayeredAcl ==
    /\ {r \in webAcl.rules : NotOurs(r)} = Baseline
    /\ \A r \in webAcl.rules :
         r \in Baseline \/ (r.priority \in Nat /\ EddBasePriority(Baseline) <= r.priority)

\* So they decide what they catch.
LEMMA TerraformFirst ==
    ASSUME LayeredAcl, NEW s \in Sources, s.caught # {}
    PROVE  Decision(s) = First(s.caught).action
<1>1. PICK hits, b : hits = {r \in webAcl.rules : Matches(r, s)} /\ b = EddBasePriority(Baseline)
  OBVIOUS
<1>2. /\ b \in Nat
      /\ \A r \in Baseline : r.priority \in Nat /\ r.priority < b /\ r \in webAcl.rules
  BY <1>1, BandIsAbove, FilterAssumption DEF LayeredAcl
<1>3. s.caught \subseteq Baseline /\ \A r \in Baseline : Matches(r, s) <=> r \in s.caught
  BY FilterAssumption DEF Sources, Matches
<1>4. s.caught \subseteq hits /\ hits # {}
  BY <1>1, <1>2, <1>3
<1>5. \A r \in hits : r \in s.caught \/ (r.priority \in Nat /\ b <= r.priority)
  BY <1>1, <1>3 DEF LayeredAcl
<1>6. \A r \in hits : r.priority \in Nat
  BY <1>2, <1>3, <1>5
<1>7. PICK f : f = First(hits)
  OBVIOUS
<1>8. f \in hits /\ \A q \in hits : f.priority <= q.priority
  BY <1>4, <1>6, <1>7, FirstComes
<1>9. f \in s.caught
  <2>1. PICK q \in s.caught : TRUE
    OBVIOUS
  <2>2. f.priority <= q.priority /\ q.priority < b /\ q.priority \in Nat /\ f.priority \in Nat
    BY <1>2, <1>3, <1>4, <1>6, <1>8, <2>1
  <2> QED
    BY <1>2, <1>5, <1>8, <2>2
<1>10. PICK g : g = First(s.caught)
  OBVIOUS
<1>11. g \in s.caught /\ \A q \in s.caught : g.priority <= q.priority
  <2>1. \A r \in s.caught : r.priority \in Nat
    BY <1>2, <1>3
  <2> QED
    BY <1>10, <2>1, FirstComes
<1>12. f.priority = g.priority /\ f \in Baseline /\ g \in Baseline
  BY <1>2, <1>3, <1>4, <1>8, <1>9, <1>11
<1>13. f = g
  BY <1>12, FilterAssumption
<1> QED
  BY <1>1, <1>4, <1>7, <1>10, <1>13 DEF Decision

\* A policy the live WAF holds decides as its author meant.
LEMMA HeldIsEnforced ==
    ASSUME NEW p \in Policies, Holds(p), NEW s \in Sources
    PROVE  Decision(s) = Intended(p, s)
<1>1. PICK c, b : c = CompiledRules(p) /\ b = EddBasePriority(Baseline)
  OBVIOUS
<1>2. b \in Nat /\ \A r \in Baseline : r.priority \in Nat /\ r.priority < b
  BY <1>1, BandIsAbove, FilterAssumption
<1> DEFINE Our(i) == ToWafRule(c[i], b + i - 1)
<1>3. /\ webAcl.rules = Baseline \cup {Our(i) : i \in 1..Len(c)}
      /\ webAcl.default = DefaultAction(p) /\ ipSet = p.cidrs
  BY <1>1, BaselineStays DEF Holds, Materialized
<1>4. \A i \in 1..Len(c) : /\ Our(i).type = c[i].type /\ Our(i).action = c[i].action
                            /\ Our(i).of = c[i].of /\ Our(i).priority = b + i - 1
  BY DEF ToWafRule
<1>5. \A i \in 1..Len(c) : Our(i).priority \in Nat /\ b <= Our(i).priority
  BY <1>2, <1>4
<1>6. PICK hits : hits = {r \in webAcl.rules : Matches(r, s)}
  OBVIOUS
<1>7. Decision(s) = IF hits = {} THEN DefaultAction(p) ELSE First(hits).action
  BY <1>3, <1>6 DEF Decision
<1>8. \A i \in 1..Len(c) : c[i].type # "baseline"
  BY <1>1, CompiledKinds
<1>9. \A r \in Baseline : Matches(r, s) <=> r \in s.caught
  BY FilterAssumption DEF Matches
<1>10. s.caught \subseteq Baseline
  BY DEF Sources
<1>11. \A r \in hits : r \in s.caught \/ \E i \in 1..Len(c) : r = Our(i)
  <2> TAKE r \in hits
  <2>1. (r \in Baseline /\ Matches(r, s)) \/ \E i \in 1..Len(c) : r = Our(i)
    BY <1>3, <1>6
  <2> QED
    BY <1>9, <2>1
<1> HIDE DEF Our
<1>12. s.caught \subseteq hits
  BY <1>3, <1>6, <1>9, <1>10
<1>13. \A r \in hits : r.priority \in Nat
  BY <1>2, <1>5, <1>10, <1>11
<1>14. hits # {} => First(hits) \in hits /\ \A q \in hits : First(hits).priority <= q.priority
  BY <1>13, FirstComes
<1>15. CASE s.caught # {}
  <2>1. \A r \in webAcl.rules : r \in Baseline \/ (r.priority \in Nat /\ b <= r.priority)
    BY <1>3, <1>5
  <2>2. webAcl = Materialized(Baseline, p)
    BY DEF Holds
  <2>3. {r \in webAcl.rules : NotOurs(r)} = Baseline
    BY <2>2, BaselineStays
  <2>4. LayeredAcl
    BY <1>1, <2>1, <2>3 DEF LayeredAcl
  <2> QED
    BY <1>15, <2>4, TerraformFirst DEF Intended
<1>16. CASE s.caught = {} /\ p.blockAnonymous /\ s.anonymous
  <2>1. 1 \in 1..Len(c) /\ c[1] = Rule("managed-anonymous", "block", {})
    BY <1>1, <1>16, CompiledShape
  <2>2. Our(1) \in hits /\ Our(1).priority = b /\ Our(1).action = "block"
    <3>1. Our(1).type = "managed-anonymous" /\ Our(1).priority = b + 1 - 1 /\ Our(1).action = "block"
      BY <1>4, <2>1 DEF Rule
    <3>2. Matches(Our(1), s)
      BY <1>16, <3>1 DEF Matches
    <3> QED
      BY <1>2, <1>3, <1>6, <2>1, <3>1, <3>2
  <2>3. PICK i \in 1..Len(c) : First(hits) = Our(i)
    BY <1>11, <1>14, <1>16, <2>2
  <2>4. Our(i).priority <= b
    BY <1>14, <2>2, <2>3
  <2>5. Len(c) \in Nat
    BY <1>1, CompiledShape
  <2>6. i = 1
    BY <1>2, <1>4, <2>3, <2>4, <2>5
  <2>7. Decision(s) = "block"
    BY <1>7, <2>2, <2>3, <2>6
  <2> QED
    BY <1>16, <2>7 DEF Intended
<1>17. CASE s.caught = {} /\ ~(p.blockAnonymous /\ s.anonymous)
  <2>1. \A r \in hits : r.action = p.mode
    <3> TAKE r \in hits
    <3>1. PICK i \in 1..Len(c) : r = Our(i)
      BY <1>11, <1>17
    <3>2. Matches(Our(i), s)
      BY <1>6, <3>1
    <3>3. ~(p.blockAnonymous /\ c[i] = Rule("managed-anonymous", "block", {}))
      BY <1>4, <1>17, <3>1, <3>2 DEF Matches, Rule
    <3>4. c[i].action = p.mode
      BY <1>1, <3>1, <3>3, CompiledKinds
    <3> QED
      BY <1>4, <3>1, <3>4
  <2> DEFINE listed == s.cidr \in p.cidrs \/ s.country \in p.countries \/ s.asn \in EffectiveAsns(p)
  <2>2. listed => hits # {}
    <3>1. ASSUME s.cidr \in p.cidrs
          PROVE  hits # {}
      <4>1. PICK i \in 1..Len(c) : c[i] = Rule("ip", p.mode, {})
        BY <1>1, <3>1, CompiledShape
      <4>2. Our(i).type = "ip"
        BY <1>4, <4>1 DEF Rule
      <4>3. Matches(Our(i), s)
        BY <1>3, <3>1, <4>2 DEF Matches
      <4> QED
        BY <1>3, <1>6, <4>3
    <3>2. ASSUME s.country \in p.countries
          PROVE  hits # {}
      <4>1. PICK i \in 1..Len(c) : c[i] = Rule("geo", p.mode, p.countries)
        BY <1>1, <3>2, CompiledShape
      <4>2. Our(i).type = "geo" /\ Our(i).of = p.countries
        BY <1>4, <4>1 DEF Rule
      <4>3. Matches(Our(i), s)
        BY <3>2, <4>2 DEF Matches
      <4> QED
        BY <1>3, <1>6, <4>3
    <3>3. ASSUME s.asn \in EffectiveAsns(p)
          PROVE  hits # {}
      <4>1. PICK i \in 1..Len(c) : c[i] = Rule("asn", p.mode, EffectiveAsns(p))
        BY <1>1, <3>3, CompiledShape
      <4>2. Our(i).type = "asn" /\ Our(i).of = EffectiveAsns(p)
        BY <1>4, <4>1 DEF Rule
      <4>3. Matches(Our(i), s)
        BY <3>3, <4>2 DEF Matches
      <4> QED
        BY <1>3, <1>6, <4>3
    <3> QED
      BY <3>1, <3>2, <3>3
  <2>3. hits # {} => listed
    <3> SUFFICES ASSUME NEW r \in hits
                 PROVE  listed
      OBVIOUS
    <3>1. PICK i \in 1..Len(c) : r = Our(i)
      BY <1>11, <1>17
    <3>2. Matches(Our(i), s)
      BY <1>6, <3>1
    <3>3. \/ p.blockAnonymous /\ c[i] = Rule("managed-anonymous", "block", {})
          \/ c[i] = Rule("ip", p.mode, {})
          \/ c[i] = Rule("geo", p.mode, p.countries)
          \/ c[i] = Rule("asn", p.mode, EffectiveAsns(p))
      BY <1>1, <3>1, CompiledShape
    <3>4. CASE p.blockAnonymous /\ c[i] = Rule("managed-anonymous", "block", {})
      BY <1>4, <1>17, <3>1, <3>2, <3>4 DEF Matches, Rule
    <3>5. CASE c[i] = Rule("ip", p.mode, {})
      BY <1>3, <1>4, <3>1, <3>2, <3>5 DEF Matches, Rule
    <3>6. CASE c[i] = Rule("geo", p.mode, p.countries)
      BY <1>4, <3>1, <3>2, <3>6 DEF Matches, Rule
    <3>7. CASE c[i] = Rule("asn", p.mode, EffectiveAsns(p))
      BY <1>4, <3>1, <3>2, <3>7 DEF Matches, Rule
    <3> QED
      BY <3>3, <3>4, <3>5, <3>6, <3>7
  <2>4. Decision(s) = IF listed THEN p.mode ELSE DefaultAction(p)
    BY <1>7, <1>14, <2>1, <2>2, <2>3
  <2>5. Intended(p, s) = IF listed THEN p.mode ELSE DefaultAction(p)
    BY <1>17 DEF Intended, EffectiveAsns
  <2> QED
    BY <2>4, <2>5
<1> QED
  BY <1>15, <1>16, <1>17

\* Of an update under way, the steps change where it is and whether its token
\* is good.
Update == [at : {"idle", "persist", "getIpSet", "putIpSet", "getWebAcl", "putWebAcl", "applied", "failed"},
           policy : Policies, lock : BOOLEAN]

LEMMA UpdateMoves ==
    ASSUME NEW u \in Update
    PROVE  \A to \in {"putIpSet", "getWebAcl", "putWebAcl", "applied"} :
             /\ [u EXCEPT !.at = to, !.lock = TRUE] \in Update
             /\ [u EXCEPT !.at = to] \in Update
             /\ [u EXCEPT !.lock = FALSE] \in Update
             /\ [u EXCEPT !.at = to, !.lock = TRUE].at = to
             /\ [u EXCEPT !.at = to, !.lock = TRUE].policy = u.policy
  BY DEF Update

\* Once the row has a new policy it has no outcome until the update ends; the
\* IP set, and then the Web ACL, hold that policy from the step that wrote them
\* on; and a row that says the apply succeeded has a policy the live WAF holds.
Underway == {"getIpSet", "putIpSet", "getWebAcl", "putWebAcl", "applied", "failed"}

FilterInv ==
    /\ policyRow \in [policy : Policies, outcome : {"never", "none", "ok", "error"}]
    /\ update \in [FilterAdmin -> Update]
    /\ {r \in webAcl.rules : NotOurs(r)} = Baseline
    /\ \A a \in FilterAdmin :
         /\ update[a].at \in Underway => policyRow.outcome = "none"
         /\ update[a].at \in {"getWebAcl", "putWebAcl"} => ipSet = update[a].policy.cidrs
         /\ update[a].at = "applied" => Holds(update[a].policy)
    /\ policyRow.outcome = "ok" => Holds(policyRow.policy)

LEMMA FilterStart == FilterInit => FilterInv
<1>1. EmptyPolicy \in Policies
  BY DEF EmptyPolicy, Policies, FilterMode
<1> QED
  BY <1>1, BaselineStays DEF FilterInit, FilterInv, NoPolicy, NoUpdate, Update, Underway

LEMMA FilterStep ==
    ASSUME \A a, b \in FilterAdmin : a = b, FilterInv, [FilterNext]_filterVars
    PROVE  FilterInv'
<1>1. CASE UNCHANGED filterVars
  BY <1>1 DEF FilterInv, filterVars, Holds
<1>2. CASE FilterNext
  <2>1. PICK a \in FilterAdmin :
          \/ \E p \in Policies : SavePolicy(a, p)
          \/ PersistPolicy(a) \/ GetIpSet(a) \/ UpdateIpSet(a) \/ GetWebAcl(a)
          \/ UpdateWebAcl(a) \/ ApplyFails(a) \/ RecordOutcome(a) \/ UpdateLost(a)
    BY <1>2 DEF FilterNext
  <2>2. FilterAdmin = {a}
    OBVIOUS
  <2>3. PICK u : u = update[a]
    OBVIOUS
  <2>4. /\ u \in Update
        /\ update = [b \in FilterAdmin |-> u]
    BY <2>2, <2>3 DEF FilterInv
  <2>5. EmptyPolicy \in Policies
    BY DEF EmptyPolicy, Policies, FilterMode
  <2>6. ASSUME NEW p \in Policies, SavePolicy(a, p)
        PROVE  FilterInv'
    BY <2>2, <2>6 DEF SavePolicy, NoUpdate, FilterInv, Update, Underway, Holds, NotUpdating
  <2>7. ASSUME PersistPolicy(a)
        PROVE  FilterInv'
    BY <2>2, <2>7 DEF PersistPolicy, At, Intention, StoredPolicy, FilterInv, Update, Underway, Holds
  <2>8. ASSUME GetIpSet(a) \/ GetWebAcl(a)
        PROVE  FilterInv'
    <3>1. CASE GetIpSet(a)
      <4>1. update' = [b \in FilterAdmin |-> [u EXCEPT !.at = "putIpSet", !.lock = TRUE]]
        BY <2>2, <2>3, <3>1 DEF GetIpSet, Locked
      <4>2. update'[a] \in Update /\ update'[a].at = "putIpSet" /\ update'[a].policy = u.policy
        BY <2>4, <4>1, UpdateMoves
      <4> QED
        BY <2>2, <2>3, <3>1, <4>1, <4>2 DEF GetIpSet, FilterInv, Underway, Holds
    <3>2. CASE GetWebAcl(a)
      <4>1. update' = [b \in FilterAdmin |-> [u EXCEPT !.at = "putWebAcl", !.lock = TRUE]]
        BY <2>2, <2>3, <3>2 DEF GetWebAcl, Locked
      <4>2. update'[a] \in Update /\ update'[a].at = "putWebAcl" /\ update'[a].policy = u.policy
        BY <2>4, <4>1, UpdateMoves
      <4> QED
        BY <2>2, <2>3, <3>2, <4>1, <4>2 DEF GetWebAcl, FilterInv, Underway, Holds
    <3> QED
      BY <2>8, <3>1, <3>2
  <2>9. ASSUME UpdateIpSet(a)
        PROVE  FilterInv'
    BY <2>2, <2>9 DEF UpdateIpSet, Breaks, FilterInv, Update, Underway, Holds
  <2>10. ASSUME UpdateWebAcl(a)
         PROVE  FilterInv'
    <3>1. Materialized(webAcl.rules, u.policy) = Materialized(Baseline, u.policy)
      BY Rematerialized DEF FilterInv
    <3>2. webAcl' = Materialized(Baseline, u.policy) /\ UNCHANGED <<policyRow, ipSet>>
      BY <2>3, <2>10, <3>1 DEF UpdateWebAcl
    <3>3. {r \in webAcl'.rules : NotOurs(r)} = Baseline
      BY <2>4, <3>2, BaselineStays DEF Update
    <3>4. update' = [b \in FilterAdmin |-> [u EXCEPT !.at = "applied"]]
      BY <2>2, <2>3, <2>10 DEF UpdateWebAcl, Breaks
    <3>5. u.at = "putWebAcl" /\ ipSet = u.policy.cidrs /\ policyRow.outcome = "none"
      BY <2>3, <2>10 DEF UpdateWebAcl, FilterInv, Underway
    <3> QED
      BY <2>4, <3>2, <3>3, <3>4, <3>5 DEF FilterInv, Update, Underway, Holds, NotOurs
  <2>11. ASSUME ApplyFails(a)
         PROVE  FilterInv'
    BY <2>2, <2>11 DEF ApplyFails, FilterInv, Update, Underway, Holds
  <2>12. ASSUME RecordOutcome(a)
         PROVE  FilterInv'
    BY <2>2, <2>5, <2>12 DEF RecordOutcome, StoredPolicy, NoUpdate, FilterInv, Update, Underway, Holds
  <2>13. ASSUME UpdateLost(a)
         PROVE  FilterInv'
    BY <2>2, <2>5, <2>13 DEF UpdateLost, NoUpdate, FilterInv, Update, Underway, Holds
  <2> QED
    BY <2>1, <2>6, <2>7, <2>8, <2>9, <2>10, <2>11, <2>12, <2>13
<1> QED
  BY <1>1, <1>2

\* For every policy, every baseline Terraform put on the Web ACL and every failure
\* or crash between the calls, as long as one administrator saves at a time: a
\* policy reported as applied is the one the live WAF enforces on every source
\* (updatePolicy, materializeIpSet, materializeWebAcl, compileTrafficFilter).
THEOREM AppliedPolicyIsEnforced ==
    (\A a, b \in FilterAdmin : a = b) => (FilterSpec => []AppliedIsEnforced)
<1> SUFFICES ASSUME \A a, b \in FilterAdmin : a = b
             PROVE  FilterSpec => []AppliedIsEnforced
  OBVIOUS
<1>1. FilterInit => FilterInv
  BY FilterStart
<1>2. FilterInv /\ [FilterNext]_filterVars => FilterInv'
  BY FilterStep
<1>3. FilterInv => AppliedIsEnforced
  BY HeldIsEnforced DEF FilterInv, AppliedIsEnforced, GetState
<1> QED
  BY <1>1, <1>2, <1>3, PTL DEF FilterSpec

\* However many administrators save at once: what a rule of Terraform's catches
\* is decided by Terraform's rules.
BaselineDecides == \A s \in Sources : s.caught # {} => Decision(s) = First(s.caught).action

\* Every step leaves the Web ACL layered.
Layered == update \in [FilterAdmin -> Update] /\ LayeredAcl

LEMMA LayersStart == FilterInit => Layered
<1>1. EmptyPolicy \in Policies
  BY DEF EmptyPolicy, Policies, FilterMode
<1>2. FilterInit => webAcl.rules = Baseline
  BY DEF FilterInit
<1>3. FilterInit => LayeredAcl
  BY <1>2, BaselineStays DEF LayeredAcl
<1> QED
  BY <1>1, <1>3 DEF FilterInit, Layered, NoUpdate, Update

LEMMA BreaksKeepsType ==
    ASSUME update \in [FilterAdmin -> Update], NEW a, NEW type, NEW to \in {"getWebAcl", "applied"}
    PROVE  Breaks(a, type, to) \in [FilterAdmin -> Update]
<1>1. \A b \in FilterAdmin : /\ [update[b] EXCEPT !.at = to] \in Update
                             /\ [update[b] EXCEPT !.lock = FALSE] \in Update
  BY UpdateMoves
<1> QED
  BY <1>1 DEF Breaks

LEMMA LayersStep ==
    ASSUME Layered, [FilterNext]_filterVars
    PROVE  Layered'
<1>1. CASE UNCHANGED filterVars
  BY <1>1 DEF Layered, LayeredAcl, filterVars
<1>2. CASE FilterNext
  <2>1. PICK a \in FilterAdmin :
          \/ \E p \in Policies : SavePolicy(a, p)
          \/ PersistPolicy(a) \/ GetIpSet(a) \/ UpdateIpSet(a) \/ GetWebAcl(a)
          \/ UpdateWebAcl(a) \/ ApplyFails(a) \/ RecordOutcome(a) \/ UpdateLost(a)
    BY <1>2 DEF FilterNext
  <2>2. EmptyPolicy \in Policies
    BY DEF EmptyPolicy, Policies, FilterMode
  <2>3. update' \in [FilterAdmin -> Update]
    <3>0. update \in [FilterAdmin -> Update]
      BY DEF Layered
    <3>1. CASE \E p \in Policies : SavePolicy(a, p)
      <4>1. PICK p \in Policies : SavePolicy(a, p)
        BY <3>1
      <4>2. [NoUpdate EXCEPT !.at = "persist", !.policy = p] \in Update
        BY DEF NoUpdate, Update
      <4> QED
        BY <3>0, <4>1, <4>2 DEF SavePolicy
    <3>4. CASE PersistPolicy(a)
      BY <3>0, <3>4 DEF PersistPolicy, At, Update
    <3>5. CASE ApplyFails(a)
      BY <3>0, <3>5 DEF ApplyFails, Update
    <3>6. CASE RecordOutcome(a) \/ UpdateLost(a)
      <4>1. NoUpdate \in Update
        BY <2>2 DEF NoUpdate, Update
      <4> QED
        BY <3>0, <3>6, <4>1 DEF RecordOutcome, UpdateLost
    <3>2. CASE GetIpSet(a) \/ GetWebAcl(a)
      <4>1. PICK to \in {"putIpSet", "putWebAcl"} : update' = Locked(a, to)
        BY <3>2 DEF GetIpSet, GetWebAcl
      <4>2. [update[a] EXCEPT !.at = to, !.lock = TRUE] \in Update
        BY <3>0, UpdateMoves
      <4>3. PICK w : w = [update[a] EXCEPT !.at = to, !.lock = TRUE]
        OBVIOUS
      <4>4. update' = [b \in FilterAdmin |-> IF b = a THEN w ELSE update[b]]
        BY <4>1, <4>3 DEF Locked
      <4> QED
        BY <3>0, <4>2, <4>3, <4>4
    <3>3. CASE UpdateIpSet(a) \/ UpdateWebAcl(a)
      <4>1. update' = Breaks(a, "putIpSet", "getWebAcl") \/ update' = Breaks(a, "putWebAcl", "applied")
        BY <3>3 DEF UpdateIpSet, UpdateWebAcl
      <4> QED
        BY <3>0, <4>1, BreaksKeepsType
    <3> QED
      BY <2>1, <3>1, <3>2, <3>3, <3>4, <3>5, <3>6
  <2>4. CASE UpdateWebAcl(a)
    <3>1. PICK p \in Policies : p = update[a].policy
      BY DEF Layered, Update
    <3>2. webAcl' = Materialized(Baseline, p)
      BY <2>4, <3>1, Rematerialized DEF UpdateWebAcl, Layered, LayeredAcl
    <3>3. {r \in webAcl'.rules : NotOurs(r)} = Baseline
      BY <3>1, <3>2, BaselineStays
    <3>4. PICK c, b : c = CompiledRules(p) /\ b = EddBasePriority(Baseline)
      OBVIOUS
    <3>5. webAcl'.rules = Baseline \cup {ToWafRule(c[i], b + i - 1) : i \in 1..Len(c)}
      BY <3>2, <3>4, BaselineStays DEF Materialized
    <3>6. \A i \in 1..Len(c) : /\ ToWafRule(c[i], b + i - 1).priority \in Nat
                              /\ b <= ToWafRule(c[i], b + i - 1).priority
      <4>1. b \in Nat
        BY <3>4, BandIsAbove
      <4> QED
        BY <4>1 DEF ToWafRule
    <3>7. \A r \in webAcl'.rules : r \in Baseline \/ (r.priority \in Nat /\ b <= r.priority)
      BY <3>5, <3>6
    <3> QED
      BY <2>3, <3>3, <3>4, <3>7 DEF Layered, LayeredAcl, NotOurs
  <2>5. CASE ~UpdateWebAcl(a)
    <3>1. UNCHANGED webAcl
      BY <2>1, <2>5 DEF SavePolicy, PersistPolicy, GetIpSet, UpdateIpSet, GetWebAcl, ApplyFails,
                        RecordOutcome, UpdateLost
    <3> QED
      BY <2>3, <3>1 DEF Layered, LayeredAcl
  <2> QED
    BY <2>4, <2>5
<1> QED
  BY <1>1, <1>2

\* For every number of administrators saving at once: no order of their updates
\* drops a rule of Terraform's or puts one of ours before it, so an allowlist
\* exempts nobody from the baseline (materializeWebAcl, which keeps the rules it
\* does not own and numbers its own above them).
THEOREM TerraformDecides == FilterSpec => []BaselineDecides
<1>1. FilterInit => Layered
  BY LayersStart
<1>2. Layered /\ [FilterNext]_filterVars => Layered'
  BY LayersStep
<1>3. Layered => BaselineDecides
  BY TerraformFirst DEF Layered, BaselineDecides
<1> QED
  BY <1>1, <1>2, <1>3, PTL DEF FilterSpec

=============================================================================
