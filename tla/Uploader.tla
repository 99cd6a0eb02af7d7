------------------------------ MODULE Uploader ------------------------------
(***************************************************************************)
(* Store and forward: internal/uploader with its goroutine per target, the *)
(* pending/ and uploaded/ directories and marker files they share, the     *)
(* remote servers, and what the session logger shows of itself (the file   *)
(* it writes and the active session id it publishes).  The process may     *)
(* crash at any step and restart with another set of targets.              *)
(*                                                                         *)
(* Files and targets are natural numbers: files in the order of their      *)
(* modification times, targets in the order of the Uploader's slice.       *)
(***************************************************************************)
EXTENDS Integers, Sequences

CONSTANTS
  Nil,        \* no file, an empty session id, a file never created
  Files,      \* the session files of a run, oldest first
  Content,    \* Content[f]: JSONL lines of f when nothing cuts it short
  Targets,    \* upload targets the config knows
  Configs,    \* pairs of enabled targets and those of them with credentials
  BatchSize

\* The main goroutine, when it runs New.
Boot == 0
Procs == Targets \cup {Boot}

ASSUME UploaderAssumption ==
  /\ Files \subseteq Nat
  /\ Targets \subseteq Nat \ {0}
  /\ Nil \notin Nat
  /\ Content \in [Files -> Nat]
  /\ \A c \in Configs : c.configured \subseteq c.enabled /\ c.enabled \subseteq Targets
  /\ BatchSize \in Nat \ {0}

VARIABLES
  phase,      \* "down", "up", "closing" (ctx cancelled) or "draining"
  config,     \* the targets of this process: enabled, configured
  paused,     \* collect.State
  writer,     \* the file the logger has open
  active,     \* the session id its Stats report
  pending,    \* files in pending/
  uploaded,   \* files in uploaded/
  lines,      \* complete lines of each file on disk, Nil before its creation
  marks,      \* <<f, t>>: marker file of f for t
  stored,     \* stored[t][f]: entries of f that server t holds, in order
  pc,         \* where each goroutine stands
  todo,       \* the rest of the directory listing it works through
  moved,      \* the file it has just renamed, markers still to be removed
  skip,       \* the active session id it read at its tick
  file,       \* the file it uploads
  total,      \* entries it parsed from that file
  next,       \* the next of them to send
  backoff,    \* inside a backoff window
  due,        \* DrainPending: targets still to visit in this pass
  progressed, \* DrainPending: some file was marked in this pass
  failed,     \* history: targets whose attempt failed in this pass
  raced       \* history: files listed for upload while the logger wrote them

disk   == <<pending, uploaded, lines, marks>>
work   == <<pc, todo, moved, skip, file, total, next, backoff>>
drain  == <<due, progressed, failed>>
logger == <<writer, active>>
vars   == <<phase, config, paused, logger, disk, stored, work, drain, raced>>

Running == phase \in {"up", "closing"} /\ pc[Boot] = "idle"
Oldest(S) == {f \in S : \A g \in S : f <= g}

\* The first line is session_start; every later one is an entry.
Entries(f) == IF lines[f] \in Nat /\ lines[f] > 0 THEN lines[f] - 1 ELSE 0
Sequence(n) == [i \in 1..n |-> i]

Where == {"idle", "ping", "sweep", "sweeping", "list", "owe", "session", "data", "mark",
          "settle", "settling"}

NoWork ==
  [ pc |-> [p \in Procs |-> "idle"], todo |-> [p \in Procs |-> {}],
    moved |-> [p \in Procs |-> Nil], skip |-> [t \in Targets |-> Nil],
    file |-> [t \in Targets |-> Nil], total |-> [t \in Targets |-> 0],
    next |-> [t \in Targets |-> 0], backoff |-> [t \in Targets |-> FALSE] ]

Forget ==
  /\ todo' = NoWork.todo /\ moved' = NoWork.moved /\ skip' = NoWork.skip
  /\ file' = NoWork.file /\ total' = NoWork.total /\ next' = NoWork.next
  /\ backoff' = NoWork.backoff /\ due' = {} /\ progressed' = FALSE /\ failed' = {}

Init ==
  /\ phase = "down" /\ config = [enabled |-> {}, configured |-> {}]
  /\ paused = FALSE /\ writer = Nil /\ active = Nil
  /\ pending = {} /\ uploaded = {} /\ marks = {} /\ raced = {}
  /\ lines = [f \in Files |-> Nil]
  /\ stored = [t \in Targets |-> [f \in Files |-> <<>>]]
  /\ pc = NoWork.pc /\ todo = NoWork.todo /\ moved = NoWork.moved
  /\ skip = NoWork.skip /\ file = NoWork.file /\ total = NoWork.total
  /\ next = NoWork.next /\ backoff = NoWork.backoff
  /\ due = {} /\ progressed = FALSE /\ failed = {}

-----------------------------------------------------------------------------
(* The process: New, crash, shutdown *)

\* New: orphan markers are swept, as far as they can be removed, then
\* finalizeAnyReady runs on this goroutine.
Start ==
  /\ phase = "down"
  /\ phase' = "up"
  /\ config' \in Configs
  /\ marks' \in SUBSET marks
  /\ {m \in marks : m[1] \in pending} \subseteq marks'
  /\ pc' = [NoWork.pc EXCEPT ![Boot] = IF config'.enabled = {} THEN "idle" ELSE "sweep"]
  /\ Forget
  /\ UNCHANGED <<paused, logger, pending, uploaded, lines, stored, raced>>

\* Whatever is in memory is gone; the directories and the servers stay.
Stopped ==
  /\ phase' = "down"
  /\ pc' = NoWork.pc
  /\ Forget
  /\ paused' = FALSE /\ writer' = Nil /\ active' = Nil
  /\ UNCHANGED <<config, pending, lines, marks, stored, raced>>

Crash == phase # "down" /\ Stopped /\ UNCHANGED uploaded

Shutdown ==
  /\ phase = "up" /\ pc[Boot] = "idle"
  /\ phase' = "closing"
  /\ UNCHANGED <<config, paused, logger, disk, stored, work, drain, raced>>

SetPause ==
  /\ Running
  /\ paused' = ~paused
  /\ UNCHANGED <<phase, config, logger, disk, stored, work, drain, raced>>

-----------------------------------------------------------------------------
(* The session logger, as SessionFiles describes it *)

Session == INSTANCE SessionFiles

\* The new file is in pending/ at once.
CreateSession ==
  /\ Running
  /\ \E f \in Files : Session!Create(f) /\ pending' = pending \cup {f}
  /\ UNCHANGED <<phase, config, paused, uploaded, marks, stored, work, drain, raced>>

PublishSession ==
  /\ Session!Publish
  /\ UNCHANGED <<phase, config, paused, pending, uploaded, marks, stored, work,
                 drain, raced>>

FlushLines ==
  /\ writer # Nil
  /\ \E n \in lines[writer] + 1 .. Content[writer] : Session!Flush(n)
  /\ UNCHANGED <<phase, config, paused, pending, uploaded, marks, stored, work,
                 drain, raced>>

CloseSession ==
  /\ Session!Close
  /\ UNCHANGED <<phase, config, paused, pending, uploaded, marks, stored, work,
                 drain, raced>>

ClearSession ==
  /\ Session!Clear
  /\ UNCHANGED <<phase, config, paused, pending, uploaded, marks, stored, work,
                 drain, raced>>

Logger == CreateSession \/ PublishSession \/ FlushLines \/ CloseSession \/ ClearSession

-----------------------------------------------------------------------------
(* One tick of a target: maybeUploadForTarget *)

\* runTargetLoop evaluates the active session id before the ping.
Tick(t) ==
  /\ Running /\ t \in config.configured
  /\ pc[t] = "idle"
  /\ pc' = [pc EXCEPT ![t] = "ping"]
  /\ skip' = [skip EXCEPT ![t] = active]
  /\ UNCHANGED <<phase, config, paused, logger, disk, stored, todo, moved, file,
                 total, next, backoff, drain, raced>>

\* Mutant: no finalizeAnyReady at the top of a tick.
Ping_NoSweep(t) ==
  /\ pc[t] = "ping"
  /\ pc' = [pc EXCEPT ![t] = IF paused THEN "idle" ELSE "list"]
  /\ skip' = [skip EXCEPT ![t] = IF paused THEN Nil ELSE @]
  /\ UNCHANGED <<phase, config, paused, logger, disk, stored, todo, moved, file,
                 total, next, backoff, drain, raced>>

\* The ping, up to its timeout, and the pause check behind it.
Ping(t) ==
  /\ pc[t] = "ping"
  /\ pc' = [pc EXCEPT ![t] = IF paused THEN "idle" ELSE "sweep"]
  /\ skip' = [skip EXCEPT ![t] = IF paused THEN Nil ELSE @]
  /\ UNCHANGED <<phase, config, paused, logger, disk, stored, todo, moved, file,
                 total, next, backoff, drain, raced>>

\* finalizeMu
Locked == {"sweeping", "settling"}
LockFree == \A p \in Procs : pc[p] \notin Locked

\* finalizeAnyReady takes every file of pending/, the active one included;
\* maybeFinalize takes the file just marked.
Acquire(p) ==
  /\ pc[p] \in {"sweep", "settle"} /\ LockFree
  /\ pc' = [pc EXCEPT ![p] = IF @ = "sweep" THEN "sweeping" ELSE "settling"]
  /\ todo' = [todo EXCEPT ![p] = IF pc[p] = "sweep" THEN pending ELSE {file[p]}]
  /\ UNCHANGED <<phase, config, paused, logger, disk, stored, moved, skip, file,
                 total, next, backoff, drain, raced>>

\* Mutant: a target without credentials does not count.
Ready_Configured(f) == f \in pending /\ \A t \in config.configured : <<f, t>> \in marks

Ready(f) == f \in pending /\ \A t \in config.enabled : <<f, t>> \in marks

\* finalizeLocked up to the rename, which may fail.
Finalize(p) ==
  /\ pc[p] \in Locked /\ moved[p] = Nil
  /\ \E f \in Oldest(todo[p]) :
     /\ todo' = [todo EXCEPT ![p] = @ \ {f}]
     /\ \/ /\ Ready(f)
           /\ pending' = pending \ {f}
           /\ uploaded' = uploaded \cup {f}
           /\ moved' = [moved EXCEPT ![p] = f]
        \/ UNCHANGED <<pending, uploaded, moved>>
  /\ UNCHANGED <<phase, config, paused, logger, lines, marks, stored, pc, skip,
                 file, total, next, backoff, drain, raced>>

\* cleanupAllMarkers; removals that fail are ignored and leave orphans.
Cleanup(p) ==
  /\ moved[p] # Nil
  /\ \E kept \in SUBSET {m \in marks : m[1] = moved[p]} :
       marks' = {m \in marks : m[1] # moved[p]} \cup kept
  /\ moved' = [moved EXCEPT ![p] = Nil]
  /\ UNCHANGED <<phase, config, paused, logger, pending, uploaded, lines, stored,
                 pc, todo, skip, file, total, next, backoff, drain, raced>>

Release(p) ==
  /\ pc[p] \in Locked /\ moved[p] = Nil /\ todo[p] = {}
  /\ pc' = [pc EXCEPT ![p] = IF @ = "sweeping" /\ p # Boot THEN "list" ELSE "idle"]
  /\ file' = [t \in Targets |-> IF t = p THEN Nil ELSE file[t]]
  /\ UNCHANGED <<phase, config, paused, logger, disk, stored, todo, moved, skip,
                 total, next, backoff, drain, raced>>

\* filesOwingTarget, first half: the listing without the active session.
List(t) ==
  /\ pc[t] = "list"
  /\ pc' = [pc EXCEPT ![t] = "owe"]
  /\ todo' = [todo EXCEPT ![t] = pending \ {skip[t]}]
  /\ skip' = [skip EXCEPT ![t] = Nil]
  /\ raced' = raced \cup (todo'[t] \cap {writer})
  /\ UNCHANGED <<phase, config, paused, logger, disk, stored, moved, file, total,
                 next, backoff, drain>>

\* The attempt ends; outside a drain the target backs off.
GiveUp(t) ==
  /\ pc' = [pc EXCEPT ![t] = "idle"]
  /\ backoff' = [backoff EXCEPT ![t] = @ \/ phase # "draining"]
  /\ failed' = IF phase = "draining" THEN failed \cup {t} ELSE failed
  /\ file' = [file EXCEPT ![t] = Nil]
  /\ total' = [total EXCEPT ![t] = 0]
  /\ next' = [next EXCEPT ![t] = 0]

Owing(t) == {f \in todo[t] : <<f, t>> \notin marks}

\* Second half: the markers are looked up; nothing owed, or a backoff, ends
\* the tick.
NothingToSend(t) ==
  /\ pc[t] = "owe"
  /\ Owing(t) = {} \/ (phase # "draining" /\ backoff[t])
  /\ pc' = [pc EXCEPT ![t] = "idle"]
  /\ todo' = [todo EXCEPT ![t] = {}]
  /\ UNCHANGED <<phase, config, paused, logger, disk, stored, moved, skip, file,
                 total, next, backoff, drain, raced>>

\* uploadFile reads the oldest owed file.  It may be gone by now; without a
\* session_start it counts as uploaded.
ReadFile(t) ==
  /\ pc[t] = "owe"
  /\ phase = "draining" \/ ~backoff[t]
  /\ todo' = [todo EXCEPT ![t] = {}]
  /\ \E f \in Oldest(Owing(t)) :
     \/ GiveUp(t)
     \/ /\ f \in pending
        /\ pc' = [pc EXCEPT ![t] = IF lines[f] = 0 THEN "mark" ELSE "session"]
        /\ file' = [file EXCEPT ![t] = f]
        /\ total' = [total EXCEPT ![t] = Entries(f)]
        /\ UNCHANGED <<next, backoff, failed>>
  /\ UNCHANGED <<phase, config, paused, logger, disk, stored, moved, skip, due,
                 progressed, raced>>

Remote(t) == UNCHANGED <<phase, config, paused, logger, disk, todo, moved, skip,
                         due, progressed, raced>>

\* Mutant: the upload always starts with the first entry.
UploadedCount_Ignored(t) == 0

\* The uploadedCount in the server's answer.
UploadedCount(t) == Len(stored[t][file[t]])

\* POST session, then GET uploadedCount; either may fail.
Handshake(t) ==
  /\ pc[t] = "session"
  /\ \/ GiveUp(t)
     \/ /\ pc' = [pc EXCEPT ![t] = "data"]
        /\ next' = [next EXCEPT ![t] = UploadedCount(t) + 1]
        /\ UNCHANGED <<file, total, backoff, failed>>
  /\ UNCHANGED stored
  /\ Remote(t)

\* The entries of the next batch.
Lesser(a, b) == IF a < b THEN a ELSE b
LastOfBatch(t) == Lesser(next[t] + BatchSize - 1, total[t])
Batch(t) == [i \in 1 .. LastOfBatch(t) - next[t] + 1 |-> next[t] + i - 1]

\* POST data: the server takes the whole batch or nothing; an error may hide
\* either.
SendBatch(t) ==
  /\ pc[t] = "data" /\ next[t] <= total[t]
  /\ \/ stored' = [stored EXCEPT ![t][file[t]] = @ \o Batch(t)]
     \/ UNCHANGED stored
  /\ \/ GiveUp(t)
     \/ /\ stored' # stored
        /\ next' = [next EXCEPT ![t] = LastOfBatch(t) + 1]
        /\ UNCHANGED <<pc, file, total, backoff, failed>>
  /\ Remote(t)

\* Mutant: completion does not wait for the remaining batches.
Complete_Early(t) ==
  /\ pc[t] = "data"
  /\ pc' = [pc EXCEPT ![t] = "mark"]
  /\ UNCHANGED <<file, total, next, backoff, failed, stored>>
  /\ Remote(t)

\* POST complete.
Complete(t) ==
  /\ pc[t] = "data" /\ next[t] > total[t]
  /\ \/ GiveUp(t)
     \/ /\ pc' = [pc EXCEPT ![t] = "mark"]
        /\ UNCHANGED <<file, total, next, backoff, failed>>
  /\ UNCHANGED stored
  /\ Remote(t)

\* Mutant: a marked file does not count as progress of the drain.
Mark_NoProgress(t) ==
  /\ pc[t] = "mark"
  /\ marks' = marks \cup {<<file[t], t>>}
  /\ pc' = [pc EXCEPT ![t] = "settle"]
  /\ backoff' = [backoff EXCEPT ![t] = FALSE]
  /\ total' = [total EXCEPT ![t] = 0]
  /\ next' = [next EXCEPT ![t] = 0]
  /\ UNCHANGED <<phase, config, paused, logger, pending, uploaded, lines, stored,
                 todo, moved, skip, file, drain, raced>>

\* writeMarker, then maybeFinalize.
Mark(t) ==
  /\ pc[t] = "mark"
  /\ \/ GiveUp(t) /\ UNCHANGED <<marks, progressed>>
     \/ /\ marks' = marks \cup {<<file[t], t>>}
        /\ pc' = [pc EXCEPT ![t] = "settle"]
        /\ backoff' = [backoff EXCEPT ![t] = FALSE]
        /\ progressed' = (phase = "draining")
        /\ total' = [total EXCEPT ![t] = 0]
        /\ next' = [next EXCEPT ![t] = 0]
        /\ UNCHANGED <<file, failed>>
  /\ UNCHANGED <<phase, config, paused, logger, pending, uploaded, lines, stored,
                 todo, moved, skip, due, raced>>

BackoffEnds(t) ==
  /\ backoff[t]
  /\ backoff' = [backoff EXCEPT ![t] = FALSE]
  /\ UNCHANGED <<phase, config, paused, logger, disk, stored, pc, todo, moved, skip,
                 file, total, next, drain, raced>>

Upload(t) ==
  \/ Ping(t) \/ List(t) \/ NothingToSend(t) \/ ReadFile(t)
  \/ Handshake(t) \/ SendBatch(t) \/ Complete(t) \/ Mark(t)

Finalizer(p) == Acquire(p) \/ Finalize(p) \/ Cleanup(p) \/ Release(p)

-----------------------------------------------------------------------------
(* DrainPending, after every goroutine has returned *)

AllIdle == \A p \in Procs : pc[p] = "idle"

BeginDrain ==
  /\ phase = "closing" /\ AllIdle
  /\ writer = Nil /\ active = Nil
  /\ phase' = "draining"
  /\ due' = config.configured
  /\ progressed' = FALSE
  /\ failed' = {}
  /\ backoff' = [t \in Targets |-> FALSE]
  /\ UNCHANGED <<config, paused, logger, disk, stored, pc, todo, moved, skip, file,
                 total, next, raced>>

DrainTarget ==
  /\ phase = "draining" /\ AllIdle
  /\ \E t \in Oldest(due) :
     /\ due' = due \ {t}
     /\ pc' = [pc EXCEPT ![t] = "list"]
     /\ skip' = [skip EXCEPT ![t] = Nil]
  /\ UNCHANGED <<phase, config, paused, logger, disk, stored, todo, moved, file,
                 total, next, backoff, progressed, failed, raced>>

NextPass ==
  /\ phase = "draining" /\ AllIdle /\ due = {} /\ progressed
  /\ due' = config.configured
  /\ progressed' = FALSE
  /\ failed' = {}
  /\ UNCHANGED <<phase, config, paused, logger, disk, stored, work, raced>>

\* PruneUploaded deletes what is old, then the process ends.
Exit ==
  /\ Stopped
  /\ \E old \in SUBSET uploaded : uploaded' = uploaded \ old

\* The deadline is looked at between two passes.
DrainDeadline == phase = "draining" /\ AllIdle /\ due = {} /\ progressed /\ Exit

DrainComplete == phase = "draining" /\ AllIdle /\ due = {} /\ ~progressed /\ Exit

Drain == BeginDrain \/ DrainTarget \/ NextPass \/ DrainDeadline \/ DrainComplete

-----------------------------------------------------------------------------
Next ==
  \/ Start \/ Crash \/ Shutdown \/ SetPause
  \/ Logger
  \/ \E t \in Targets : Tick(t) \/ Upload(t) \/ BackoffEnds(t)
  \/ \E p \in Procs : Finalizer(p)
  \/ Drain

Spec == Init /\ [][Next]_vars

\* Tickers fire, backoffs end and no goroutine is starved.
Fairness ==
  /\ \A t \in Targets : WF_vars(Tick(t)) /\ WF_vars(Upload(t)) /\ WF_vars(BackoffEnds(t))
  /\ \A p \in Procs : WF_vars(Finalizer(p))

FairSpec == Spec /\ Fairness

-----------------------------------------------------------------------------
(* Properties *)

TypeOK ==
  /\ phase \in {"down", "up", "closing", "draining"}
  /\ config.configured \subseteq config.enabled /\ config.enabled \subseteq Targets
  /\ paused \in BOOLEAN
  /\ writer \in Files \cup {Nil} /\ active \in Files \cup {Nil}
  /\ pending \subseteq Files /\ uploaded \subseteq Files /\ raced \subseteq Files
  /\ lines \in [Files -> Nat \cup {Nil}]
  /\ marks \subseteq Files \X Targets
  /\ stored \in [Targets -> [Files -> Seq(Nat)]]
  /\ pc \in [Procs -> Where]
  /\ todo \in [Procs -> SUBSET Files] /\ moved \in [Procs -> Files \cup {Nil}]
  /\ skip \in [Targets -> Files \cup {Nil}] /\ file \in [Targets -> Files \cup {Nil}]
  /\ total \in [Targets -> Nat] /\ next \in [Targets -> Nat]
  /\ backoff \in [Targets -> BOOLEAN]
  /\ due \subseteq Targets /\ failed \subseteq Targets /\ progressed \in BOOLEAN

\* Server t holds every entry of f exactly once, in order.
Delivered(f, t) == stored[t][f] = Sequence(Entries(f))

\* A marker is never a lie: whatever crashed, failed halfway or was disabled
\* and enabled again, the server behind it holds the whole, closed file.
MarkersTrue ==
  \A m \in marks : m[1] \notin raced => m[1] # writer /\ Delivered(m[1], m[2])

\* Retries and restarts neither repeat, skip nor reorder entries: a server
\* holds a prefix of the file at all times, half-read files included.
StoredIsPrefix ==
  \A t \in Targets, f \in Files :
    /\ stored[t][f] = Sequence(Len(stored[t][f]))
    /\ Len(stored[t][f]) <= Entries(f)

\* While a target uploads or marks a file, no other goroutine moves it away.
UploadedInPlace ==
  \A t \in Targets : pc[t] \in {"session", "data", "mark"} => file[t] \in pending

\* A drain leaves a file behind only for a target whose last attempt failed.
OwedAtDrain(t) == {f \in pending : <<f, t>> \notin marks}

DrainLeavesOnlyFailures ==
  [][DrainComplete =>
       \A t \in config.configured : OwedAtDrain(t) # {} => t \in failed]_vars

\* README: "a file moves from data/pending/ to data/uploaded/ only after
\* every enabled target has accepted it", with no session exempted.
NothingLost == \A f \in uploaded : \E t \in Targets : Delivered(f, t)

\* Seen from outside, markers, retries and restarts are invisible.
Abstract == INSTANCE Delivery WITH
  enabled <- config.enabled,
  size    <- [f \in Files |-> IF lines[f] = Nil THEN Nil ELSE Entries(f)],
  held    <- [t \in Targets |-> [f \in Files |-> Len(stored[t][f])]],
  queue   <- pending,
  exposed <- raced

ImplementsDelivery == Abstract!Spec

Serving ==
  /\ phase = "up" /\ ~paused
  /\ config.enabled # {} /\ config.configured = config.enabled

\* A request, a file access or a rename fails.
Fails ==
  \/ \E t \in Targets : backoff'[t] /\ ~backoff[t]
  \/ \E p \in Procs : /\ Finalize(p) /\ UNCHANGED pending
                      /\ \E f \in todo[p] \ todo'[p] : Ready(f)

\* Once the process stays up, unpaused, with credentials for its targets,
\* and failures end, every finished session leaves pending/: whatever crash,
\* half-done attempt or left-over marker came before.
EventuallyUploaded ==
  <>[]Serving /\ <>[][~Fails]_vars =>
    \A f \in Files : []<>(f \notin pending \/ f \in {writer, active})
=============================================================================
