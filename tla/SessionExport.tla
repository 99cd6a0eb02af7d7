---------------------------- MODULE SessionExport ----------------------------
(***************************************************************************)
(* The dashboard's session handlers: the list of sessions, the WPILog      *)
(* download, and the copy opened in AdvantageScope.  Requests run at the   *)
(* same time as each other, as the logger that writes the sessions, and as *)
(* the uploader that moves them from pending/ to uploaded/.                *)
(***************************************************************************)
EXTENDS Integers, WpilogConvert

CONSTANTS
  Nil, Files, Requests,
  MaxLines   \* bound of the model: lines of a session

ASSUME ExportAssumption ==
  /\ Files \subseteq Nat /\ MaxLines \in Nat
  /\ Nil \notin Nat \cup {"pending", "uploaded", "gone"} /\ Nil \notin Nat \X Nat

VARIABLES
  writer, active, lines,  \* the logger, as SessionFiles describes it
  place,    \* the directory each session is in, Nil before its creation
  pc,       \* where each request stands
  opens,    \* it is handleSessionOpen, not the download
  sid,      \* the session it is about
  path,     \* the directory findSessionFile has found it in
  got,     \* how many lines it has read
  listed,   \* a list request: the sessions it has come across
  there,    \* history: the sessions that were there when the list was requested
  saved,    \* per session its file in wpilog/: what it was made from, its length
  raced     \* history: sessions exported between their creation and their id

logger == <<writer, active, lines>>
files  == <<logger, place>>
vars   == <<files, pc, opens, sid, path, got, listed, there, saved, raced>>

Steps == {"idle", "find", "find2", "notfound", "read", "answer", "truncate", "write",
          "open", "stat", "list2", "listed"}

TypeOK ==
  /\ writer \in Files \cup {Nil} /\ active \in Files \cup {Nil}
  /\ lines \in [Files -> Nat \cup {Nil}]
  /\ place \in [Files -> {"pending", "uploaded", "gone", Nil}]
  /\ pc \in [Requests -> Steps] /\ opens \in [Requests -> BOOLEAN]
  /\ sid \in [Requests -> Files \cup {Nil}]
  /\ path \in [Requests -> {"pending", "uploaded", Nil}]
  /\ got \in [Requests -> Nat]
  /\ listed \in [Requests -> SUBSET Files] /\ there \in [Requests -> SUBSET Files]
  /\ saved \in [Files -> {Nil} \cup (Nat \X Nat)]
  /\ raced \subseteq Files

Init ==
  /\ writer = Nil /\ active = Nil /\ lines = [f \in Files |-> Nil]
  /\ place = [f \in Files |-> Nil]
  /\ pc = [r \in Requests |-> "idle"] /\ opens = [r \in Requests |-> FALSE]
  /\ sid = [r \in Requests |-> Nil] /\ path = [r \in Requests |-> Nil]
  /\ got = [r \in Requests |-> 0]
  /\ listed = [r \in Requests |-> {}] /\ there = [r \in Requests |-> {}]
  /\ saved = [f \in Files |-> Nil] /\ raced = {}

Present == {f \in Files : place[f] \in {"pending", "uploaded"}}

-----------------------------------------------------------------------------
(* The logger and the uploader *)

Session == INSTANCE SessionFiles

requests == <<pc, opens, sid, path, got, listed, there>>

CreateSession ==
  /\ \E f \in Files : Session!Create(f) /\ place' = [place EXCEPT ![f] = "pending"]
  /\ UNCHANGED <<requests, saved, raced>>

LoggerStep ==
  /\ \/ Session!Publish
     \/ writer # Nil /\ \E n \in lines[writer] + 1 .. MaxLines : Session!Flush(n)
     \/ Session!Close
     \/ Session!Clear
  /\ UNCHANGED <<place, requests, saved, raced>>

\* finalizeIfReady's rename.
Finalize ==
  /\ \E f \in Files : place[f] = "pending" /\ place' = [place EXCEPT ![f] = "uploaded"]
  /\ UNCHANGED <<logger, requests, saved, raced>>

PruneUploaded ==
  /\ \E f \in Files : place[f] = "uploaded" /\ place' = [place EXCEPT ![f] = "gone"]
  /\ UNCHANGED <<logger, requests, saved, raced>>

\* The process and its requests end; wpilog/ keeps what has been written.
Crash ==
  /\ Session!Stop
  /\ pc' = [r \in Requests |-> "idle"] /\ opens' = [r \in Requests |-> FALSE]
  /\ sid' = [r \in Requests |-> Nil] /\ path' = [r \in Requests |-> Nil]
  /\ got' = [r \in Requests |-> 0]
  /\ listed' = [r \in Requests |-> {}] /\ there' = [r \in Requests |-> {}]
  /\ UNCHANGED <<place, saved, raced>>

-----------------------------------------------------------------------------
(* handleSessionWPILog and handleSessionOpen *)

GoTo(r, step) == pc' = [pc EXCEPT ![r] = step]

\* A response is written, an error's included; the next request starts afresh.
Done(r) ==
  /\ GoTo(r, "idle")
  /\ opens' = [opens EXCEPT ![r] = FALSE]
  /\ sid' = [sid EXCEPT ![r] = Nil] /\ path' = [path EXCEPT ![r] = Nil]
  /\ got' = [got EXCEPT ![r] = 0]
  /\ listed' = [listed EXCEPT ![r] = {}] /\ there' = [there EXCEPT ![r] = {}]
  /\ UNCHANGED <<files, raced>>

\* Mutant: the handler does not look whether the session is being recorded.
RequestExport_Unchecked(r, f) ==
  /\ pc[r] = "idle" /\ f \in Present
  /\ sid' = [sid EXCEPT ![r] = f]
  /\ \E o \in BOOLEAN : opens' = [opens EXCEPT ![r] = o]
  /\ raced' = raced \cup ({f} \cap ({writer} \ {active}))
  /\ GoTo(r, "find")
  /\ UNCHANGED <<files, path, got, listed, there, saved>>

\* The id is that of a session on disk: others are known to nobody.  A session
\* that is being recorded is refused and nothing changes.
RequestExport(r, f) ==
  /\ pc[r] = "idle" /\ f \in Present
  /\ active # f
  /\ sid' = [sid EXCEPT ![r] = f]
  /\ \E o \in BOOLEAN : opens' = [opens EXCEPT ![r] = o]
  /\ raced' = raced \cup ({f} \cap {writer})
  /\ GoTo(r, "find")
  /\ UNCHANGED <<files, path, got, listed, there, saved>>

\* Mutant: uploaded/ is searched before pending/.
Order_UploadedFirst == <<"uploaded", "pending">>

\* findSessionFile and handleSessions read the two directories in this order.
Order == <<"pending", "uploaded">>

Search(r, from, dir, next) ==
  /\ pc[r] = from
  /\ IF place[sid[r]] = dir
     THEN path' = [path EXCEPT ![r] = dir] /\ GoTo(r, "read")
     ELSE GoTo(r, next) /\ UNCHANGED path
  /\ UNCHANGED <<files, opens, sid, got, listed, there, saved, raced>>

findSessionFile(r) ==
  Search(r, "find", Order[1], "find2") \/ Search(r, "find2", Order[2], "notfound")

\* os.ReadFile; the file may have been moved meanwhile.
ReadFile(r) ==
  /\ pc[r] = "read" /\ place[sid[r]] = path[r]
  /\ got' = [got EXCEPT ![r] = lines[sid[r]]]
  /\ GoTo(r, IF opens[r] THEN "truncate" ELSE "answer")
  /\ UNCHANGED <<files, opens, sid, path, listed, there, saved, raced>>

\* os.WriteFile truncates the file before it writes.
Truncate(r) ==
  /\ pc[r] = "truncate"
  /\ saved' = [saved EXCEPT ![sid[r]] = <<0, 0>>]
  /\ GoTo(r, "write")
  /\ UNCHANGED <<files, opens, sid, path, got, listed, there, raced>>

\* Bytes beyond its own, of another request's longer file, stay.
Write(r) ==
  /\ pc[r] = "write"
  /\ LET length == saved[sid[r]][2]
     IN  saved' = [saved EXCEPT ![sid[r]] =
                     <<got[r], IF length > got[r] THEN length ELSE got[r]>>]
  /\ GoTo(r, "open")
  /\ UNCHANGED <<files, opens, sid, path, got, listed, there, raced>>

\* 404; the last line written; AdvantageScope started.
Finish(r) == pc[r] \in {"notfound", "answer", "open", "listed"} /\ Done(r) /\ UNCHANGED saved

\* Any of the file operations may fail, a write halfway.
Fail(r) ==
  /\ pc[r] \in {"read", "truncate", "write"}
  /\ Done(r)
  /\ UNCHANGED saved

-----------------------------------------------------------------------------
(* handleSessions *)

In(dir) == {f \in Files : place[f] = dir}

ListFirst(r) ==
  /\ pc[r] = "idle"
  /\ there' = [there EXCEPT ![r] = Present]
  /\ listed' = [listed EXCEPT ![r] = In(Order[1])]
  /\ GoTo(r, "stat")
  /\ UNCHANGED <<files, opens, sid, path, got, saved, raced>>

\* e.Info fails for a file that has been moved since ReadDir: it is skipped.
StatFirst(r) ==
  /\ pc[r] = "stat"
  /\ listed' = [listed EXCEPT ![r] = @ \cap In(Order[1])]
  /\ GoTo(r, "list2")
  /\ UNCHANGED <<files, opens, sid, path, got, there, saved, raced>>

\* Nothing but the pruning takes files out of uploaded/.
ListSecond(r) ==
  /\ pc[r] = "list2"
  /\ listed' = [listed EXCEPT ![r] = @ \cup In(Order[2])]
  /\ GoTo(r, "listed")
  /\ UNCHANGED <<files, opens, sid, path, got, there, saved, raced>>

-----------------------------------------------------------------------------

Handle(r) ==
  \/ (\E f \in Files : RequestExport(r, f)) \/ findSessionFile(r)
  \/ ReadFile(r) \/ Truncate(r) \/ Write(r) \/ Finish(r) \/ Fail(r)
  \/ ListFirst(r) \/ StatFirst(r) \/ ListSecond(r)

Next ==
  \/ CreateSession \/ LoggerStep \/ Finalize \/ PruneUploaded \/ Crash
  \/ \E r \in Requests : Handle(r)

Spec == Init /\ [][Next]_vars

-----------------------------------------------------------------------------
(* Properties *)

\* A session that is on disk is found and listed, wherever the uploader moves it
\* at that moment: only a pruned one is missed (server.go:661-667, 836).
NothingMissed ==
  \A r \in Requests :
    /\ pc[r] = "notfound" => place[sid[r]] = "gone"
    /\ pc[r] = "listed" => \A f \in there[r] : f \in listed[r] \/ place[f] = "gone"

\* An export holds the whole session: the active id is read before the file is
\* found and read, but a session that is not being recorded then has seen its last
\* line, unless it was too young to have an id.  The copy in wpilog/ is whole too,
\* or cut short where a write is under way or has failed; two requests never
\* leave a mixture (server.go:734-757, 811-823).
ExportWhole ==
  /\ \A r \in Requests :
       pc[r] \in {"answer", "truncate", "write", "open"} /\ sid[r] \notin raced =>
         got[r] = lines[sid[r]]
  /\ \A f \in Files \ raced : saved[f] \in {Nil, <<0, 0>>, <<lines[f], lines[f]>>}

\* A download is converted.
Answering == \E r \in Requests : pc[r] = "answer"

\* Every value of the session that can be encoded is read back from a download
\* (convert.go:66-174, encoder.go:105-151): WpilogConvert's Faithful.
RecordsFaithful == Answering => AllFaithful

\* Both clocks of the session are kept in a download (convert.go:87-89, 182-212):
\* WpilogConvert's TimesKept.
TimesFaithful == Answering => AllTimesKept
=============================================================================
