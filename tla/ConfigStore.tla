---------------------------- MODULE ConfigStore -----------------------------
(***************************************************************************)
(* internal/config and the handlers of internal/dashboard that use it:     *)
(* posts change the configuration in memory under a mutex and save it      *)
(* after they have released it, through one temporary file and a rename.   *)
(* The process may die, or the machine lose power, between any two steps.  *)
(***************************************************************************)
EXTENDS Integers, Sequences, SequencesExt, FiniteSets

CONSTANTS
  Posts,    \* handlers of POST /api/config
  Values,   \* of a field
  Default,  \* the one in DefaultConfig
  Hole,     \* what a file has where nothing was written: no YAML
  Inodes,
  None      \* no inode, no post

\* A configuration has two fields, a file has the values of the first few.
Fields  == 1..2
Configs == [Fields -> Values]

ASSUME StoreAssumption ==
  /\ Default \in Values /\ Hole \notin Values
  /\ Posts # {} /\ None \notin Posts \cup Inodes
  /\ IsFiniteSet(Posts) /\ IsFiniteSet(Inodes)
  /\ Cardinality(Inodes) >= Cardinality(Posts) + 2

VARIABLES
  up,          \* the program runs
  config,      \* s.cfg
  mu,          \* holder of s.mu
  pc,          \* where each post stands
  todo,        \* fields it has still to set
  data,        \* what it has marshalled
  fd,          \* its open file
  offset,      \* how much it has written
  path, tmp,   \* inodes of config.yaml and config.yaml.tmp
  content,     \* what is in each inode
  synced,      \* inodes that are on disk
  overlapped,  \* history: posts or reloads overlapped, and left traces
  failed       \* history: the last post to end reported an error

memory  == <<config, mu>>
handler == <<pc, todo, data, fd, offset>>
disk    == <<path, tmp, content, synced>>
history == <<overlapped, failed>>
vars    == <<up, memory, handler, disk, history>>

File  == content[path]
Quiet == \A p \in Posts : pc[p] = "idle"

Init ==
  /\ up = TRUE
  /\ config = [f \in Fields |-> Default] /\ mu = None
  /\ pc = [p \in Posts |-> "idle"] /\ todo = [p \in Posts |-> {}]
  /\ data = [p \in Posts |-> <<>>] /\ fd = [p \in Posts |-> None]
  /\ offset = [p \in Posts |-> 0]
  /\ path \in Inodes /\ path = CHOOSE i \in Inodes : TRUE
  /\ tmp = None
  /\ content = [i \in Inodes |-> IF i = path THEN <<Default, Default>> ELSE <<>>]
  /\ synced = {path}
  /\ overlapped = FALSE /\ failed = FALSE

Goto(p, place) == pc' = [pc EXCEPT ![p] = place]

\* A file that has no name and is not open any more is gone; of the others,
\* those in S are on disk.
Unlink(S) ==
  LET live == {path', tmp'} \cup {fd'[p] : p \in Posts} IN
    /\ content' = [i \in Inodes |-> IF i \in live THEN content[i] ELSE <<>>]
    /\ synced' = S \cap live

\* The handler answers; what it has read and opened is gone.
Answer(p, success) ==
  /\ Goto(p, "idle")
  /\ data' = [data EXCEPT ![p] = <<>>]
  /\ fd' = [fd EXCEPT ![p] = None]
  /\ offset' = [offset EXCEPT ![p] = 0]
  /\ failed' = ~success

-----------------------------------------------------------------------------
(* handleConfigPost *)

\* A post that passes validation takes the mutex.
Begin(p) ==
  /\ up /\ pc[p] = "idle" /\ mu = None
  /\ mu' = p
  /\ todo' = [todo EXCEPT ![p] = Fields]
  /\ Goto(p, "apply")
  /\ overlapped' = (~Quiet \/ path \notin synced)
  /\ UNCHANGED <<up, config, data, fd, offset, disk, failed>>

\* Fields are set one by one, in no order, or left alone; then the mutex is
\* released.
Apply(p) ==
  /\ pc[p] = "apply"
  /\ \E f \in todo[p], v \in Values :
       /\ config' = [config EXCEPT ![f] = v]
       /\ todo' = [todo EXCEPT ![p] = @ \ {f}]
  /\ IF todo'[p] = {} THEN mu' = None /\ Goto(p, "marshal") ELSE UNCHANGED <<mu, pc>>
  /\ UNCHANGED <<up, data, fd, offset, disk, history>>

-----------------------------------------------------------------------------
(* SaveConfig *)

\* It reads the configuration without the mutex: while another post sets fields,
\* it may see any of them before or after.
Marshal(p) ==
  /\ pc[p] = "marshal"
  /\ \E seen \in Configs :
       /\ mu = None => seen = config
       /\ data' = [data EXCEPT ![p] = seen]
  /\ Goto(p, "open")
  /\ UNCHANGED <<up, memory, todo, fd, offset, disk, history>>

FreeInode == CHOOSE i \in Inodes : i \notin {path, tmp} \cup {fd[p] : p \in Posts}

\* The temporary file is created or truncated, whoever else has it open.
Open(p) ==
  /\ pc[p] = "open"
  /\ LET i == IF tmp = None THEN FreeInode ELSE tmp IN
       /\ tmp' = i
       /\ fd' = [fd EXCEPT ![p] = i]
       /\ content' = [content EXCEPT ![i] = <<>>]
       /\ synced' = synced \ {i}
  /\ Goto(p, "write")
  /\ UNCHANGED <<up, memory, todo, data, offset, path, history>>

\* v is written at position n of a file that may be shorter.
WriteAt(file, n, v) ==
  [k \in 1..(IF n > Len(file) THEN n ELSE Len(file)) |->
     IF k = n THEN v ELSE IF k <= Len(file) THEN file[k] ELSE Hole]

Write(p) ==
  /\ pc[p] = "write"
  /\ LET n == offset[p] + 1 IN
       /\ content' = [content EXCEPT ![fd[p]] = WriteAt(@, n, data[p][n])]
       /\ offset' = [offset EXCEPT ![p] = n]
       /\ Goto(p, IF n = Len(data[p]) THEN "sync" ELSE "write")
  /\ synced' = synced \ {fd[p]}
  /\ UNCHANGED <<up, memory, todo, data, fd, path, tmp, history>>

Close(p) ==
  /\ fd' = [fd EXCEPT ![p] = None]
  /\ offset' = [offset EXCEPT ![p] = 0]
  /\ Goto(p, "rename")
  /\ UNCHANGED <<up, memory, todo, data, path, tmp, history>>

\* Mutant: the data is left to the operating system.
Sync_Skipped(p) ==
  /\ pc[p] = "sync"
  /\ Close(p)
  /\ Unlink(synced)

\* The data is on disk before the file is closed.
Sync(p) ==
  /\ pc[p] = "sync"
  /\ Close(p)
  /\ Unlink(synced \cup {fd[p]})

\* A file operation fails: the temporary file is removed, whoever made it.
Fail(p) ==
  /\ pc[p] \in {"open", "write", "sync", "rename"}
  /\ tmp' = IF pc[p] = "open" THEN tmp ELSE None
  /\ Answer(p, FALSE)
  /\ UNCHANGED <<up, memory, todo, path, overlapped>>
  /\ Unlink(synced)

\* Mutant: an error of the rename is not looked at.
Rename_Unchecked(p) ==
  /\ pc[p] = "rename"
  /\ \/ tmp # None /\ path' = tmp /\ tmp' = None
     \/ UNCHANGED <<path, tmp>>
  /\ Goto(p, "chmod")
  /\ data' = [data EXCEPT ![p] = <<>>]
  /\ UNCHANGED <<up, memory, todo, fd, offset, history>>
  /\ Unlink(synced)

\* The backup has been copied; the temporary file becomes the configuration.
Rename(p) ==
  /\ pc[p] = "rename" /\ tmp # None
  /\ path' = tmp /\ tmp' = None
  /\ Goto(p, "chmod")
  /\ data' = [data EXCEPT ![p] = <<>>]
  /\ UNCHANGED <<up, memory, todo, fd, offset, history>>
  /\ Unlink(synced)

\* An error of chmod is reported although the file has been replaced.
Finish(p) ==
  /\ pc[p] = "chmod"
  /\ \E success \in BOOLEAN : Answer(p, success)
  /\ UNCHANGED <<up, memory, todo, path, tmp, overlapped>>
  /\ Unlink(synced)

-----------------------------------------------------------------------------
(* handleConfigReload, restart *)

\* Missing fields have their defaults; a file with a hole is no YAML.
Loaded(file) == [f \in Fields |-> IF f <= Len(file) THEN file[f] ELSE Default]

Readable(file) == \A i \in DOMAIN file : file[i] # Hole

\* What a program that starts now would use.
Effective == IF Readable(File) THEN Loaded(File) ELSE [f \in Fields |-> Default]

\* Mutant: the file is read over the configuration in use.
Reload_OverCurrent ==
  /\ up /\ mu = None /\ Readable(File)
  /\ config' = [f \in Fields |-> IF f <= Len(File) THEN File[f] ELSE config[f]]
  /\ overlapped' = (overlapped \/ ~Quiet)
  /\ failed' = (failed /\ ~Quiet)
  /\ UNCHANGED <<up, mu, handler, disk>>

Reload ==
  /\ up /\ mu = None /\ Readable(File)
  /\ config' = Loaded(File)
  /\ overlapped' = (overlapped \/ ~Quiet)
  /\ failed' = (failed /\ ~Quiet)
  /\ UNCHANGED <<up, mu, handler, disk>>

\* What is left of a file after a loss of power, if n values had been written
\* back; a file that was synced is whole.
Left(i, n) ==
  IF i \in synced \/ n >= Len(content[i]) THEN content[i] ELSE SubSeq(content[i], 1, n)

\* The process dies, or the machine with it.  Renames stay.
Crash ==
  /\ up /\ up' = FALSE
  /\ \E n \in 0..2 :
       content' = [i \in Inodes |-> IF i \in {path, tmp} THEN Left(i, n) ELSE <<>>]
  /\ pc' = [p \in Posts |-> "idle"] /\ todo' = [p \in Posts |-> {}]
  /\ data' = [p \in Posts |-> <<>>] /\ fd' = [p \in Posts |-> None]
  /\ offset' = [p \in Posts |-> 0] /\ mu' = None
  /\ config' = [f \in Fields |-> Default]
  /\ UNCHANGED <<path, tmp, synced, history>>

Restart ==
  /\ ~up /\ up' = TRUE
  /\ config' = Effective
  /\ overlapped' = (path \notin synced) /\ failed' = FALSE
  /\ UNCHANGED <<mu, handler, disk>>

-----------------------------------------------------------------------------
Next ==
  \/ \E p \in Posts : Begin(p) \/ Apply(p) \/ Marshal(p) \/ Open(p) \/ Write(p) \/ Sync(p)
                      \/ Rename(p) \/ Finish(p) \/ Fail(p)
  \/ Reload \/ Crash \/ Restart

Spec == Init /\ [][Next]_vars

-----------------------------------------------------------------------------
(* Properties *)

TypeOK ==
  /\ {up, overlapped, failed} \subseteq BOOLEAN
  /\ config \in Configs /\ mu \in Posts \cup {None}
  /\ pc \in [Posts -> {"idle", "apply", "marshal", "open", "write", "sync", "rename", "chmod"}]
  /\ todo \in [Posts -> SUBSET Fields] /\ data \in [Posts -> Configs \cup {<<>>}]
  /\ fd \in [Posts -> Inodes \cup {None}] /\ offset \in [Posts -> 0..2]
  /\ path \in Inodes /\ tmp \in Inodes \cup {None} /\ path # tmp
  /\ content \in [Inodes -> UNION {[1..n -> Values \cup {Hole}] : n \in 0..2}]
  /\ synced \subseteq Inodes

\* config.go: "writes the config to the given YAML file path atomically".  What
\* is read from config.yaml changes only to all that one post has marshalled.
Replaced == File' # File => \E p \in Posts : File' = data[p] /\ path' # path

\* The file is replaced as a whole or not at all, by a crash at any step, too,
\* as long as no two posts overlap: they would share the temporary file.
AtomicReplace == [][overlapped' \/ overlapped \/ Replaced]_vars

\* What the dashboard shows is what a restart will use: after a post that was
\* alone and reported success, a crash or a reload, memory and file agree.
DiskMatchesMemory ==
  up /\ Quiet /\ ~overlapped /\ ~failed => config = Effective

\* Seen from outside there is one register in memory and one on disk, and no
\* file, rename, failed operation or crash between them.
Register == INSTANCE ConfigRegister WITH
  state   <- IF ~up THEN "down" ELSE IF Quiet THEN "idle" ELSE "busy",
  memory  <- config,
  saved   <- Effective,
  exposed <- overlapped

ImplementsRegister == Register!Spec
=============================================================================
