------------------------------ MODULE MainLoop ------------------------------
(***************************************************************************)
(* cmd/ravenlink: the main loop with everything that acts on it.  Each     *)
(* tick polls the collection machine, then the recording machine; between  *)
(* the parts of a tick the dashboard pauses or resumes, the robot connects *)
(* or publishes, the logger takes commands, and the context is cancelled.  *)
(*                                                                         *)
(* The logger is reduced to what the loop can tell of it: whether a        *)
(* session is open.  SessionLogger has its detail.  OBS and the client's   *)
(* calls are what ObsContract says, which ObsClient is shown to implement. *)
(***************************************************************************)
EXTENDS MatchMachine, Sequences

CONSTANTS
  RecordTrigger,  \* recordTrigger: what starts OBS
  CollectTrigger, \* collectTrigger: what starts a session
  ControlWords,   \* FMSControlData values the robot may publish
  Steps,          \* possible times between two ticks
  FmsBuffer,      \* capacity of fmsCh
  CmdBuffer       \* capacity of the logger's cmdCh

ASSUME MainLoopAssumption ==
  /\ RecordTrigger \in Trigger /\ CollectTrigger \in Trigger
  /\ ControlWords \subseteq Int /\ Steps \subseteq Nat
  /\ FmsBuffer \in Nat \ {0} /\ CmdBuffer \in Nat \ {0}

VARIABLES
  cancelled,  \* ctx.Done()
  connected,  \* nt.Connected()
  fmsCh,      \* control words on their way to the loop
  closed,     \* the fan-out has returned and closed its channels
  fms,        \* latest FMS state
  sm,         \* recording machine
  collectSM,  \* collection machine
  pc,         \* where the loop stands
  paused,     \* collectState
  cmdCh,      \* commands on their way to the logger
  session,    \* the logger has a file open
  loggerDone, \* its Run has returned
  obs,        \* OBS is recording
  call,       \* the call the loop waits for: "start", "stop" or "none"
  settled,    \* history: OBS has answered the last call, and stayed so since
  lost,       \* history: the last start or end of a session came to nothing
  touched     \* history: the pause flag was set since the tick began

loop   == <<fms, sm, collectSM, pc>>
robot  == <<connected, fmsCh, closed>>
logger == <<cmdCh, session, loggerDone, lost>>
video  == <<obs, call, settled>>
vars   == <<cancelled, robot, loop, paused, touched, logger, video>>

\* To the loop any request may come late at any time: it cannot know better, and
\* the hand of OBS's operator has the same effect.
OBS == INSTANCE ObsContract WITH recording <- obs, late <- {"start", "stop"}

Init ==
  /\ cancelled = FALSE /\ connected = FALSE
  /\ fmsCh = <<>> /\ closed = FALSE
  /\ fms = FMSStateDisconnected
  /\ sm = IdleMachine /\ collectSM = IdleMachine
  /\ pc = "select"
  /\ paused = FALSE /\ touched = FALSE
  /\ cmdCh = <<>> /\ session = FALSE /\ loggerDone = FALSE /\ lost = FALSE
  /\ obs = FALSE /\ call = "none" /\ settled = TRUE

-----------------------------------------------------------------------------
(* Robot, NT client and fan-out *)

Connect ==
  /\ connected' = ~connected
  /\ UNCHANGED <<cancelled, fmsCh, closed, loop, paused, touched, logger, video>>

\* A control word reaches the fan-out, which drops it when the loop lags.
Publish(word) ==
  /\ connected /\ ~closed
  /\ fmsCh' = IF Len(fmsCh) < FmsBuffer THEN Append(fmsCh, word) ELSE fmsCh
  /\ UNCHANGED <<cancelled, connected, closed, loop, paused, touched, logger, video>>

CloseChannels ==
  /\ cancelled /\ ~closed
  /\ closed' = TRUE
  /\ UNCHANGED <<cancelled, connected, fmsCh, loop, paused, touched, logger, video>>

-----------------------------------------------------------------------------
(* Dashboard and shutdown *)

Pause ==
  /\ ~paused
  /\ paused' = TRUE /\ touched' = TRUE
  /\ UNCHANGED <<cancelled, robot, loop, logger, video>>

Resume ==
  /\ paused
  /\ paused' = FALSE
  /\ UNCHANGED <<cancelled, robot, loop, touched, logger, video>>

Cancel ==
  /\ ~cancelled
  /\ cancelled' = TRUE
  /\ UNCHANGED <<robot, loop, paused, touched, logger, video>>

\* OBS carries out a request that the loop has been told failed, or quits, which
\* is the same as a late stop.
DisturbOBS ==
  /\ OBS!ServeLate
  /\ UNCHANGED <<cancelled, robot, loop, paused, touched, logger>>

-----------------------------------------------------------------------------
(* Logger *)

Lifecycle == {"start", "end"}
Commands  == Lifecycle \cup {"marker"}

NoneIn(commands) == \A i \in DOMAIN commands : commands[i] \notin Lifecycle

\* sendCommand: with the buffer full the command is dropped.
Send(c) ==
  IF Len(cmdCh) < CmdBuffer
  THEN /\ cmdCh' = Append(cmdCh, c)
       /\ lost' = (lost /\ c \notin Lifecycle)
  ELSE /\ lost' = (lost \/ c \in Lifecycle)
       /\ UNCHANGED cmdCh

\* A start may fail to create its file; what was open is closed either way.
Receive ==
  /\ ~loggerDone /\ cmdCh # <<>>
  /\ cmdCh' = Tail(cmdCh)
  /\ CASE Head(cmdCh) = "start" ->
            /\ session' \in BOOLEAN
            /\ lost' = (lost \/ (~session' /\ NoneIn(Tail(cmdCh))))
       [] Head(cmdCh) = "end"    -> session' = FALSE /\ UNCHANGED lost
       [] Head(cmdCh) = "marker" -> UNCHANGED <<session, lost>>
  /\ UNCHANGED <<cancelled, robot, loop, paused, touched, loggerDone, video>>

\* Run returns when it sees the context or the closed values channel, with
\* commands left unread.
Return ==
  /\ ~loggerDone /\ (cancelled \/ closed)
  /\ loggerDone' = TRUE /\ session' = FALSE
  /\ UNCHANGED <<cancelled, robot, loop, paused, touched, cmdCh, lost, video>>

-----------------------------------------------------------------------------
(* runMainLoop *)

ReadFms ==
  /\ pc = "select" /\ fmsCh # <<>>
  /\ fms' = FMSStateFromRaw(Head(fmsCh))
  /\ fmsCh' = Tail(fmsCh)
  /\ UNCHANGED <<cancelled, connected, closed, sm, collectSM, pc, paused, touched,
                 logger, video>>

\* The closed and drained channel ends the loop.
FmsClosed ==
  /\ pc = "select" /\ closed /\ fmsCh = <<>>
  /\ pc' = "done"
  /\ UNCHANGED <<cancelled, robot, fms, sm, collectSM, paused, touched, logger, video>>

\* A last call stops OBS if the machine is not idle.
CtxDone ==
  /\ pc = "select" /\ cancelled
  /\ IF sm.State # "Idle" THEN OBS!Begin("stop") /\ pc' = "last"
     ELSE UNCHANGED video /\ pc' = "done"
  /\ UNCHANGED <<cancelled, robot, fms, sm, collectSM, paused, touched, logger>>

MatchLive(state) == state.Enabled /\ state.FMSAttached

\* Mutant: the failsafe looks for autonomous only.
Failsafe_AutoOnly(state) == paused /\ ~(MatchLive(state) /\ state.AutoMode)

\* A live FMS match overrides the pause.
Failsafe(state) == paused /\ ~MatchLive(state)

Tick(d) ==
  /\ pc = "select"
  /\ pc' = "collect"
  /\ fms' = IF connected THEN fms ELSE FMSStateDisconnected
  /\ paused' = Failsafe(fms')
  /\ touched' = FALSE
  /\ sm' = Elapse(sm, d) /\ collectSM' = Elapse(collectSM, d)
  /\ UNCHANGED <<cancelled, robot, logger, video>>

\* Mutant: a pause stops the updates and leaves the session to itself.
CollectPaused_Freezes == UNCHANGED <<collectSM, cmdCh, lost>>

\* Paused: the collection machine and the logger go back to idle.
CollectPaused ==
  IF collectSM.State # "Idle"
  THEN collectSM' = IdleMachine /\ Send("end")
  ELSE UNCHANGED <<collectSM, cmdCh, lost>>

\* Mutant: only the start is passed on, and a reset machine ends nothing.
CollectRunning_StartsOnly ==
  LET result == Update(collectSM, fms, CollectTrigger) IN
  /\ collectSM' = result.machine
  /\ IF "StartRecord" \in result.actions THEN Send("start")
     ELSE UNCHANGED <<cmdCh, lost>>

CollectRunning ==
  LET result == Update(collectSM, fms, CollectTrigger) IN
  /\ collectSM' = result.machine
  /\ CASE "StartRecord" \in result.actions -> Send("start")
       [] "StopRecord" \in result.actions  -> Send("end")
       [] OTHER -> UNCHANGED <<cmdCh, lost>>

Collect ==
  /\ pc = "collect"
  /\ pc' = "record"
  /\ IF paused THEN CollectPaused ELSE CollectRunning
  /\ UNCHANGED <<cancelled, robot, fms, sm, paused, touched, session, loggerDone, video>>

\* match_start and match_end.
Marked(before, after) ==
  \/ before = "Idle" /\ after = "RecordingAuto"
  \/ before \in Recording /\ after = "StopPending"

\* The tick's action, if it has one, is a call that blocks the loop.
RunActions(actions) ==
  \/ "StartRecord" \in actions /\ OBS!Begin("start") /\ pc' = "obs"
  \/ "StopRecord" \in actions /\ OBS!Begin("stop") /\ pc' = "obs"
  \/ actions = {} /\ UNCHANGED video /\ pc' = "select"

\* Mutant: a pause holds back the OBS actions too.
Record_PauseSkipsOBS ==
  LET result == Update(sm, fms, RecordTrigger) IN
  /\ pc = "record"
  /\ sm' = result.machine
  /\ IF Marked(sm.State, sm'.State) THEN Send("marker") ELSE UNCHANGED <<cmdCh, lost>>
  /\ RunActions(IF paused THEN {} ELSE result.actions)
  /\ UNCHANGED <<cancelled, robot, fms, collectSM, paused, touched, session, loggerDone>>

\* prevState is the state the last tick left: sm.State before the update.
Record ==
  LET result == Update(sm, fms, RecordTrigger) IN
  /\ pc = "record"
  /\ sm' = result.machine
  /\ IF Marked(sm.State, sm'.State) THEN Send("marker") ELSE UNCHANGED <<cmdCh, lost>>
  /\ RunActions(result.actions)
  /\ UNCHANGED <<cancelled, robot, fms, collectSM, paused, touched, session, loggerDone>>

\* While the loop waits OBS serves the call or the client gives up, perhaps to
\* try again; then the call returns.  Nothing repeats one that has failed.
Calling ==
  /\ \/ (OBS!Serve \/ OBS!GiveUp) /\ UNCHANGED pc
     \/ OBS!Return /\ pc' = IF pc = "obs" THEN "select" ELSE "done"
  /\ UNCHANGED <<cancelled, robot, fms, sm, collectSM, paused, touched, logger>>

-----------------------------------------------------------------------------
Environment == Connect \/ (\E w \in ControlWords : Publish(w)) \/ Pause \/ Resume \/ Cancel
               \/ DisturbOBS
Ticks       == \E d \in Steps : Tick(d)
Rest        == Collect \/ Record \/ Calling
Leave       == CtxDone \/ FmsClosed

Next == Environment \/ CloseChannels \/ Receive \/ Return \/ ReadFms \/ Ticks \/ Rest \/ Leave

Spec == Init /\ [][Next]_vars

-----------------------------------------------------------------------------
(* Properties *)

TypeOK ==
  /\ {cancelled, connected, closed, paused, touched, session, loggerDone, obs,
      settled, lost} \subseteq BOOLEAN
  /\ fmsCh \in Seq(ControlWords) /\ Len(fmsCh) <= FmsBuffer
  /\ fms \in FMSState
  /\ sm \in Machine /\ collectSM \in Machine
  /\ pc \in {"select", "collect", "record", "obs", "last", "done"}
  /\ call \in OBS!Requests \cup {"none"}
  /\ pc \in {"obs", "last"} <=> call # "none"
  /\ cmdCh \in Seq(Commands) /\ Len(cmdCh) <= CmdBuffer

\* A session will be open once the logger has caught up.
SessionAhead ==
  \/ session /\ NoneIn(cmdCh)
  \/ \E i \in DOMAIN cmdCh :
       cmdCh[i] = "start" /\ NoneIn(SubSeq(cmdCh, i + 1, Len(cmdCh)))

\* Sessions follow the collection machine: whatever outages, cancelled stops,
\* pauses and resumes came before, a session is open or about to be exactly
\* while the machine collects.  Only a lost start or end (full cmdCh, file not
\* created) breaks this, and the next one that gets through repairs it.
SessionFollowsCollector ==
  ~lost /\ ~loggerDone => (SessionAhead <=> collectSM.State # "Idle")

\* main.go: a paused session "always auto-resumes" on a live FMS match.  In a
\* tick that sees one, unless the pause was set again behind the failsafe's
\* back, data is being collected before any match marker is written.
FailsafeCollects ==
  pc = "record" /\ MatchLive(fms) /\ shouldStartRecording(fms, CollectTrigger) /\ ~touched
    => collectSM.State \in Recording

\* Whenever the loop is not inside a call, OBS records exactly while the
\* recording machine is out of Idle, if OBS has carried out the loop's last call
\* and has not changed of itself since.  After a call that failed, a quit in the
\* middle of a recording, or a request that was given up on and served after
\* the opposite one (client.go:331), the two differ and the loop does not learn
\* of it: it makes no further call until the machine starts or stops again.
ObsFollowsMachine ==
  pc \in {"select", "collect", "record"} /\ settled => (obs <=> sm.State # "Idle")

\* Pausing takes effect within the tick that sees it: unless the command to end
\* the session was lost, none is open or about to be when the collection step is
\* done, and the failsafe is the only way out.
PauseEndsSession ==
  pc = "record" /\ paused /\ ~touched /\ ~lost /\ ~loggerDone => ~SessionAhead

\* docs/DEVELOPMENT.md: on shutdown "OBS recording is stopped if currently
\* active."  The code does not do so always (section 5 of the README).
ShutdownStopsOBS == pc = "done" /\ settled => ~obs
=============================================================================
