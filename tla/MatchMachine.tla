---------------------------- MODULE MatchMachine ----------------------------
(***************************************************************************)
(* The match recording state machine of internal/statemachine as pure      *)
(* operators: a machine value, one FMS state in, the next machine value    *)
(* and the actions for the caller out.  The main loop owns two of these    *)
(* machines (OBS recording, NT data collection), so the operators carry    *)
(* no variables; Recorder and MainLoop drive them.                         *)
(*                                                                         *)
(* Time.  The code keeps for each running timer the instant it was set     *)
(* and compares now - instant with a threshold.  The model keeps that      *)
(* difference itself: a timer is Nil or the time elapsed since it was set, *)
(* "timer = now" is age 0, and Elapse adds the time between two polls.     *)
(* Ages may be negative: the FMS-detach path sets a timer in the future.   *)
(***************************************************************************)
EXTENDS Integers

CONSTANTS
  Nil,                \* a timer that is not running (a nil *float64)
  StopDelay,          \* stopDelay: pending time before a recording stops
  AutoTeleopGap,      \* autoTeleopGap: tolerated disabled gap after auto
  NTDisconnectGrace,  \* ntDisconnectGrace: tolerated NetworkTables outage
  DetachDelay         \* the literal 3.0 of the FMS-detach path

ASSUME TimingAssumption ==
  /\ Nil \notin Int
  /\ StopDelay \in Nat
  /\ AutoTeleopGap \in Nat
  /\ NTDisconnectGrace \in Nat
  /\ DetachDelay \in Nat \ {0}

-----------------------------------------------------------------------------
(* FMS control words *)

FlagSet(value, bit) == (value \div bit) % 2 = 1

FMSStateFromRaw(value) ==
  [ Enabled     |-> FlagSet(value, 1),
    AutoMode    |-> FlagSet(value, 2),
    TestMode    |-> FlagSet(value, 4),
    EStop       |-> FlagSet(value, 8),
    FMSAttached |-> FlagSet(value, 16),
    Raw         |-> value ]

FMSStateDisconnected ==
  [ Enabled |-> FALSE, AutoMode |-> FALSE, TestMode |-> FALSE,
    EStop |-> FALSE, FMSAttached |-> FALSE, Raw |-> -1 ]

FMSState ==
  [ Enabled : BOOLEAN, AutoMode : BOOLEAN, TestMode : BOOLEAN,
    EStop : BOOLEAN, FMSAttached : BOOLEAN, Raw : Int ]

-----------------------------------------------------------------------------
(* The machine *)

Recording == {"RecordingAuto", "RecordingTeleop"}
State     == {"Idle", "StopPending"} \cup Recording
Trigger   == {"fms", "auto", "any"}
Timer     == Int \cup {Nil}

Machine ==
  [ State : State, wasEnabled : BOOLEAN, disabledAt : Timer,
    stopPendingAt : Timer, ntDisconnectedAt : Timer ]

\* What NewMachine builds and what reset() restores are the same value.
IdleMachine ==
  [ State |-> "Idle", wasEnabled |-> FALSE, disabledAt |-> Nil,
    stopPendingAt |-> Nil, ntDisconnectedAt |-> Nil ]

Older(timer, d) == IF timer = Nil THEN Nil ELSE timer + d

\* The clock advances by d between two calls of Update.
Elapse(m, d) ==
  [ m EXCEPT !.disabledAt       = Older(@, d),
             !.stopPendingAt    = Older(@, d),
             !.ntDisconnectedAt = Older(@, d) ]

shouldStartRecording(fms, trigger) ==
  /\ fms.Enabled
  /\ trigger = "fms"  => fms.FMSAttached
  /\ trigger = "auto" => fms.AutoMode

Returns(m, actions) == [machine |-> m, actions |-> actions]

\* Raw < 0: hold the state, and give the recording up once the outage has
\* lasted longer than the grace period.
UpdateDisconnected(m) ==
  IF m.State = "Idle" THEN Returns(m, {})
  ELSE IF m.ntDisconnectedAt = Nil
       THEN Returns([m EXCEPT !.ntDisconnectedAt = 0], {})
  ELSE IF m.ntDisconnectedAt > NTDisconnectGrace
       THEN Returns(IdleMachine, {"StopRecord"})
  ELSE Returns(m, {})

\* Mutant: every detached poll arms the timer anew, not only the first.
Detached_Rearms(m, fms, trigger) ==
  IF trigger = "fms" /\ ~fms.FMSAttached /\ m.State # "Idle"
  THEN [m EXCEPT !.State = "StopPending",
                 !.stopPendingAt = StopDelay - DetachDelay]
  ELSE m

\* FMS detach while recording, in fms trigger mode only.
Detached(m, fms, trigger) ==
  IF trigger = "fms" /\ ~fms.FMSAttached /\ m.State \in Recording
  THEN [m EXCEPT !.State = "StopPending",
                 !.stopPendingAt = StopDelay - DetachDelay]
  ELSE m

EStopped(m, fms) ==
  IF fms.EStop /\ m.State \in Recording
  THEN [m EXCEPT !.State = "StopPending", !.stopPendingAt = 0, !.disabledAt = 0]
  ELSE m

UpdateIdle(m, fms, trigger) ==
  IF shouldStartRecording(fms, trigger)
  THEN Returns([m EXCEPT !.State = "RecordingAuto", !.wasEnabled = TRUE,
                         !.disabledAt = Nil], {"StartRecord"})
  ELSE Returns(m, {})

\* Mutant: the gap timer restarts at every disabled poll.
UpdateAuto_RestartsGap(m, fms) ==
  IF fms.Enabled
  THEN Returns([m EXCEPT !.wasEnabled = TRUE, !.disabledAt = Nil,
                         !.State = IF ~fms.AutoMode /\ ~fms.TestMode
                                   THEN "RecordingTeleop" ELSE @], {})
  ELSE Returns([m EXCEPT !.disabledAt = 0], {})

UpdateAuto(m, fms) ==
  IF fms.Enabled
  THEN Returns([m EXCEPT !.wasEnabled = TRUE, !.disabledAt = Nil,
                         !.State = IF ~fms.AutoMode /\ ~fms.TestMode
                                   THEN "RecordingTeleop" ELSE @], {})
  ELSE IF m.disabledAt = Nil THEN Returns([m EXCEPT !.disabledAt = 0], {})
  ELSE IF m.disabledAt > AutoTeleopGap
       THEN Returns([m EXCEPT !.State = "StopPending", !.stopPendingAt = 0], {})
  ELSE Returns(m, {})

UpdateTeleop(m, fms) ==
  IF fms.Enabled
  THEN Returns([m EXCEPT !.wasEnabled = TRUE, !.disabledAt = Nil], {})
  ELSE IF m.disabledAt = Nil
       THEN Returns([m EXCEPT !.disabledAt = 0, !.State = "StopPending",
                              !.stopPendingAt = 0], {})
  ELSE Returns(m, {})

\* Mutant: the expiry is tested before the re-enable.
UpdateStopPending_ExpiresFirst(m, fms, trigger) ==
  IF m.stopPendingAt # Nil /\ m.stopPendingAt >= StopDelay
  THEN Returns(IdleMachine, {"StopRecord"})
  ELSE IF shouldStartRecording(fms, trigger)
  THEN Returns([m EXCEPT !.State = IF fms.AutoMode THEN "RecordingAuto"
                                   ELSE "RecordingTeleop",
                         !.stopPendingAt = Nil, !.disabledAt = Nil], {})
  ELSE Returns(m, {})

UpdateStopPending(m, fms, trigger) ==
  IF shouldStartRecording(fms, trigger)
  THEN Returns([m EXCEPT !.State = IF fms.AutoMode THEN "RecordingAuto"
                                   ELSE "RecordingTeleop",
                         !.stopPendingAt = Nil, !.disabledAt = Nil], {})
  ELSE IF m.stopPendingAt # Nil /\ m.stopPendingAt >= StopDelay
       THEN Returns(IdleMachine, {"StopRecord"})
  ELSE Returns(m, {})

Transition(m, fms, trigger) ==
  CASE m.State = "Idle"            -> UpdateIdle(m, fms, trigger)
    [] m.State = "RecordingAuto"   -> UpdateAuto(m, fms)
    [] m.State = "RecordingTeleop" -> UpdateTeleop(m, fms)
    [] m.State = "StopPending"     -> UpdateStopPending(m, fms, trigger)

\* Mutant: a reconnect does not clear the disconnect timer.
UpdateConnected_KeepsOutage(m, fms, trigger) ==
  Transition(EStopped(Detached(m, fms, trigger), fms), fms, trigger)

\* Connected: the disconnect timer is cleared, then the detach and E-stop
\* overrides apply, then the switch runs on the state they leave behind.
UpdateConnected(m, fms, trigger) ==
  Transition(EStopped(Detached([m EXCEPT !.ntDisconnectedAt = Nil], fms, trigger),
                      fms),
             fms, trigger)

Update(m, fms, trigger) ==
  IF fms.Raw < 0 THEN UpdateDisconnected(m) ELSE UpdateConnected(m, fms, trigger)
=============================================================================
