---------------------------- MODULE SessionLogger ----------------------------
(***************************************************************************)
(* internal/ntlogger: the actor that turns NetworkTables values and the    *)
(* main loop's commands into session files.  One step per change another   *)
(* goroutine or the disk can see, so a command that opens or ends a        *)
(* session takes several; write errors, crashes and restarts included.     *)
(***************************************************************************)
EXTENDS Integers, Sequences, SequencesExt, FiniteSets

CONSTANTS
  Nil,
  Files,        \* session files in the order of their creation
  Topics,
  Readings,
  Unencodable,  \* readings json.Marshal rejects (NaN, Inf)
  CmdBuffer,    \* commandBuffer
  MaxLines      \* bound of the model: lines of one session

Line(type, key, value) == [type |-> type, key |-> key, value |-> value]
Data(topic, value) == Line("data", topic, value)

Lines == [type : {"session_start", "data", "marker", "session_end"},
          key : Topics \cup {Nil}, value : Readings \cup Nat \cup {Nil}]

ASSUME LoggerAssumption ==
  /\ Files \subseteq Nat /\ IsFiniteSet(Topics)
  /\ Nil \notin Nat \cup Topics \cup Readings \cup Seq(Lines)
  /\ Unencodable \subseteq Readings
  /\ CmdBuffer \in Nat \ {0} /\ MaxLines \in Nat

VARIABLES
  cmdCh,         \* commands on their way to the actor
  pc,            \* where the actor stands
  then,          \* where it goes once the session has ended
  cancelled,     \* ctx.Done()
  file,          \* the open file
  active,        \* activeSessionID, read by Stats
  buf,           \* lines in the bufio.Writer
  broken,        \* its sticky write error
  disk,          \* lines of each file on disk, Nil before its creation
  latestValues,  \* last value of every topic
  entriesInFile,
  torn           \* history: sessions hit by a write error or a crash

memory == <<cmdCh, pc, then, cancelled, file, active, buf, broken, latestValues,
            entriesInFile>>
vars == <<memory, disk, torn>>

\* match_start and match_end are both a "marker" here.
Commands == {"start", "end", "marker"}

Boot ==
  [ cmdCh |-> <<>>, pc |-> "select", then |-> "select", cancelled |-> FALSE,
    file |-> Nil, active |-> Nil, buf |-> <<>>, broken |-> FALSE,
    latestValues |-> [t \in Topics |-> Nil], entriesInFile |-> 0 ]

Init ==
  /\ cmdCh = Boot.cmdCh /\ pc = Boot.pc /\ then = Boot.then
  /\ cancelled = Boot.cancelled /\ file = Boot.file /\ active = Boot.active
  /\ buf = Boot.buf /\ broken = Boot.broken
  /\ latestValues = Boot.latestValues /\ entriesInFile = Boot.entriesInFile
  /\ disk = [f \in Files |-> Nil]
  /\ torn = {}

-----------------------------------------------------------------------------
(* The caller's side *)

\* sendCommand never blocks: with the buffer full the command is dropped.
sendCommand(c) ==
  /\ cmdCh' = IF Len(cmdCh) < CmdBuffer THEN Append(cmdCh, c) ELSE cmdCh
  /\ UNCHANGED <<pc, then, cancelled, file, active, buf, broken, latestValues,
                 entriesInFile, disk, torn>>

Cancel ==
  /\ ~cancelled
  /\ cancelled' = TRUE
  /\ UNCHANGED <<cmdCh, pc, then, file, active, buf, broken, latestValues,
                 entriesInFile, disk, torn>>

-----------------------------------------------------------------------------
(* Writing *)

\* Lines reach the disk in order, some at once and the rest with a later
\* flush; after an error the bufio.Writer accepts nothing more.
Written(lines, flush) ==
  LET all == IF broken THEN buf ELSE buf \o lines IN
  \E n \in (IF broken THEN {0} ELSE 0..Len(all)), fails \in BOOLEAN :
    /\ flush /\ n < Len(all) => fails
    /\ broken' = (broken \/ fails)
    /\ disk' = [disk EXCEPT ![file] = @ \o SubSeq(all, 1, n)]
    /\ buf' = SubSeq(all, n + 1, Len(all))
    /\ torn' = IF broken' THEN torn \cup {file} ELSE torn

\* writeDataEntry for each of the topics, in any order; it counts an entry
\* whether or not it can be encoded.
DataLines(topics, values) ==
  {[i \in DOMAIN order |-> Data(order[i], values[order[i]])] :
     order \in SetToSeqs({t \in topics : values[t] \notin Unencodable})}

\* Bound of the model: one entry more fits the open session.
Room == file # Nil => Len(disk[file]) + Len(buf) < MaxLines /\ entriesInFile < MaxLines

-----------------------------------------------------------------------------
(* The actor *)

\* A marker is written and flushed; without a session it is lost, there being
\* no buffer to write it to.
recordMatchEvent ==
  /\ Room
  /\ IF file # Nil THEN Written(<<Line("marker", Nil, Nil)>>, TRUE)
     ELSE UNCHANGED <<buf, broken, disk, torn>>

\* handleCommand
TakeCommand ==
  /\ pc = "select" /\ cmdCh # <<>>
  /\ cmdCh' = Tail(cmdCh)
  /\ \/ /\ Head(cmdCh) = "start"
        /\ pc' = IF file # Nil THEN "trailer" ELSE "create"
        /\ then' = IF file # Nil THEN "create" ELSE "select"
        /\ UNCHANGED <<buf, broken, disk, torn>>
     \/ /\ Head(cmdCh) = "end"
        /\ pc' = IF file # Nil THEN "trailer" ELSE "select"
        /\ then' = "select"
        /\ UNCHANGED <<buf, broken, disk, torn>>
     \/ Head(cmdCh) = "marker" /\ recordMatchEvent /\ UNCHANGED <<pc, then>>
  /\ UNCHANGED <<cancelled, file, active, latestValues, entriesInFile>>

handleValue(t, v) ==
  /\ pc = "select" /\ Room
  /\ latestValues' = [latestValues EXCEPT ![t] = v]
  /\ IF file = Nil THEN UNCHANGED <<buf, broken, disk, torn, entriesInFile>>
     ELSE /\ \E lines \in DataLines({t}, latestValues') : Written(lines, FALSE)
          /\ entriesInFile' = entriesInFile + 1
  /\ UNCHANGED <<cmdCh, pc, then, cancelled, file, active>>

periodicSync ==
  /\ pc = "select" /\ file # Nil
  /\ Written(<<>>, TRUE)
  /\ UNCHANGED <<cmdCh, pc, then, cancelled, file, active, latestValues, entriesInFile>>

\* startSessionLocked: os.Create, which may fail.
Create ==
  /\ pc = "create"
  /\ \/ /\ pc' = "select"
        /\ UNCHANGED <<file, disk, buf, broken, entriesInFile>>
     \/ /\ pc' = "publish"
        /\ \E f \in Files :
             /\ disk[f] = Nil /\ \A g \in Files : g < f => disk[g] # Nil
             /\ file' = f
             /\ disk' = [disk EXCEPT ![f] = <<>>]
        /\ buf' = <<>> /\ broken' = FALSE /\ entriesInFile' = 0
  /\ UNCHANGED <<cmdCh, then, cancelled, active, latestValues, torn>>

\* setActiveSessionID
Publish ==
  /\ pc = "publish"
  /\ active' = file
  /\ pc' = "header"
  /\ UNCHANGED <<cmdCh, then, cancelled, file, buf, broken, disk, latestValues,
                 entriesInFile, torn>>

\* Mutant: the buffered values are not replayed.
Header_NoReplay ==
  /\ pc = "header"
  /\ Written(<<Line("session_start", Nil, Nil)>>, TRUE)
  /\ pc' = "select"
  /\ UNCHANGED <<cmdCh, then, cancelled, file, active, latestValues, entriesInFile>>

\* session_start, then latestValues in the order of a map iteration, flushed.
Header ==
  /\ pc = "header"
  /\ LET seen == {t \in Topics : latestValues[t] # Nil} IN
     /\ \E lines \in DataLines(seen, latestValues) :
          Written(<<Line("session_start", Nil, Nil)>> \o lines, TRUE)
     /\ entriesInFile' = Cardinality(seen)
  /\ pc' = "select"
  /\ UNCHANGED <<cmdCh, then, cancelled, file, active, latestValues>>

\* Mutant: the session is closed without its last flush.
Trailer_NoFlush ==
  /\ pc = "trailer"
  /\ Written(<<Line("session_end", Nil, entriesInFile)>>, FALSE)
  /\ pc' = "close"
  /\ UNCHANGED <<cmdCh, then, cancelled, file, active, latestValues, entriesInFile>>

\* endSessionLocked: session_end and the last flush.
Trailer ==
  /\ pc = "trailer"
  /\ Written(<<Line("session_end", Nil, entriesInFile)>>, TRUE)
  /\ pc' = "close"
  /\ UNCHANGED <<cmdCh, then, cancelled, file, active, latestValues, entriesInFile>>

\* Mutant: the closed file stays the session's file.
Close_KeepsFile ==
  /\ pc = "close"
  /\ pc' = "clear"
  /\ UNCHANGED <<cmdCh, then, cancelled, file, active, buf, broken, disk, latestValues,
                 entriesInFile, torn>>

\* fsync, Close, file = nil
Close ==
  /\ pc = "close"
  /\ file' = Nil /\ buf' = <<>>
  /\ pc' = "clear"
  /\ UNCHANGED <<cmdCh, then, cancelled, active, broken, disk, latestValues,
                 entriesInFile, torn>>

\* Mutant: the session id is cleared only when no new session follows.
Clear_OnlyLast ==
  /\ pc = "clear"
  /\ active' = IF then = "create" THEN active ELSE Nil
  /\ pc' = then /\ then' = "select"
  /\ UNCHANGED <<cmdCh, cancelled, file, buf, broken, disk, latestValues,
                 entriesInFile, torn>>

\* setActiveSessionID("")
Clear ==
  /\ pc = "clear"
  /\ active' = Nil
  /\ pc' = then /\ then' = "select"
  /\ UNCHANGED <<cmdCh, cancelled, file, buf, broken, disk, latestValues,
                 entriesInFile, torn>>

\* Mutant: Run returns without ending the session.
Return_LeavesOpen ==
  /\ pc = "select" /\ cancelled
  /\ pc' = "done"
  /\ UNCHANGED <<cmdCh, then, cancelled, file, active, buf, broken, disk,
                 latestValues, entriesInFile, torn>>

\* Run returns: commands and values still queued are lost, the deferred
\* endSessionLocked is not.
Return ==
  /\ pc = "select" /\ cancelled
  /\ pc' = IF file # Nil THEN "trailer" ELSE "done"
  /\ then' = "done"
  /\ UNCHANGED <<cmdCh, cancelled, file, active, buf, broken, disk, latestValues,
                 entriesInFile, torn>>

EndSession == Trailer \/ Close \/ Clear

StartSession == Create \/ Publish \/ Header

\* The process is gone, at any step, and a new one starts.
Crash ==
  /\ cmdCh' = Boot.cmdCh /\ pc' = Boot.pc /\ then' = Boot.then
  /\ cancelled' = Boot.cancelled /\ file' = Boot.file /\ active' = Boot.active
  /\ buf' = Boot.buf /\ broken' = Boot.broken
  /\ latestValues' = Boot.latestValues /\ entriesInFile' = Boot.entriesInFile
  /\ torn' = IF file # Nil THEN torn \cup {file} ELSE torn
  /\ UNCHANGED disk

Next ==
  \/ \E c \in Commands : sendCommand(c)
  \/ Cancel
  \/ TakeCommand
  \/ \E t \in Topics, v \in Readings : handleValue(t, v)
  \/ periodicSync
  \/ StartSession
  \/ EndSession
  \/ Return
  \/ Crash

Spec == Init /\ [][Next]_vars

\* The goroutine runs; select picks at random among the ready channels, so
\* ctx.Done is not passed over for ever.
FairSpec == Spec /\ WF_vars(StartSession \/ EndSession) /\ SF_vars(Return)

-----------------------------------------------------------------------------
(* Properties *)

TypeOK ==
  /\ cmdCh \in Seq(Commands) /\ Len(cmdCh) <= CmdBuffer
  /\ pc \in {"select", "create", "publish", "header", "trailer", "close", "clear", "done"}
  /\ then \in {"select", "create", "done"}
  /\ cancelled \in BOOLEAN /\ broken \in BOOLEAN
  /\ file \in Files \cup {Nil} /\ active \in Files \cup {Nil}
  /\ disk \in [Files -> Seq(Lines) \cup {Nil}] /\ buf \in Seq(Lines)
  /\ latestValues \in [Topics -> Readings \cup {Nil}]
  /\ entriesInFile \in Nat /\ torn \subseteq Files

\* A file holds one session, whatever is cut off at its end: session_start
\* first, at most one session_end, and nothing behind it.
OneSessionPerFile ==
  \A f \in Files : disk[f] # Nil =>
    \A i \in DOMAIN disk[f] :
      /\ (disk[f][i].type = "session_start") = (i = 1)
      /\ disk[f][i].type = "session_end" => i = Len(disk[f])

\* A session that met neither a write error nor a crash is whole once it is
\* closed: it ends in a session_end that counts all of its data lines (and
\* the entries that could not be encoded).
DataCount(s) == Cardinality({i \in DOMAIN s : s[i].type = "data"})

ClosedIsWhole ==
  \A f \in Files : disk[f] # Nil /\ f # file /\ f \notin torn =>
    /\ disk[f] # <<>> /\ Last(disk[f]).type = "session_end"
    /\ Last(disk[f]).value >= DataCount(disk[f])

\* Whenever a session starts, it knows the latest value of every topic, those
\* last published long before it began or during an earlier session included.
LastFor(s, t, v) ==
  \E i \in DOMAIN s :
    s[i].key = t /\ s[i].value = v /\ \A j \in DOMAIN s : j > i => s[j].key # t

SnapshotKept ==
  pc = "select" /\ file # Nil /\ ~broken =>
    \A t \in Topics : latestValues[t] \notin Unencodable \cup {Nil} =>
      LastFor(disk[file] \o buf, t, latestValues[t])

\* What the uploader relies on.
Seen == INSTANCE SessionFiles WITH
  writer <- file,
  lines  <- [f \in Files |-> IF disk[f] = Nil THEN Nil ELSE Len(disk[f])]

ImplementsSessionFiles == Seen!Spec

\* Once the context is cancelled, Run returns with its session closed.
ReturnsClosed == cancelled ~> (pc = "done" /\ file = Nil) \/ ~cancelled
=============================================================================
