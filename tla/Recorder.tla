------------------------------ MODULE Recorder ------------------------------
(***************************************************************************)
(* One match state machine in the main loop: the tick polls it with the    *)
(* latest FMS state and carries out what Update returns; a pause resets    *)
(* it.  The history variables measure the real time the machine's timers   *)
(* are meant to stand for.                                                 *)
(***************************************************************************)
EXTENDS MatchMachine

CONSTANTS
  ControlWords, \* FMSControlData values the robot may publish
  MaxStep,      \* the longest time between two polls of the main loop
  Horizon,      \* history clocks saturate here
  ClockJumps    \* steps of the wall clock, for SpecWallClock only

Steps == 1..MaxStep
Longer(a, b) == IF a > b THEN a ELSE b

\* The detach path holds for DetachDelay, more than StopDelay when that is shorter.
DetachSlack == Longer(0, DetachDelay - StopDelay)
StopBound   == AutoTeleopGap + MaxStep + StopDelay + DetachSlack

ASSUME RecorderAssumption ==
  /\ ControlWords \subseteq Int
  /\ MaxStep \in Nat \ {0}
  /\ Horizon \in Nat
  /\ Horizon > StopBound
  /\ Horizon > NTDisconnectGrace + DetachDelay
  /\ ClockJumps \subseteq Int

VARIABLES
  trigger,    \* the configured recordTrigger
  machine,    \* the Machine value
  out,        \* what the last Update returned
  recording,  \* history: whether the caller was told to record
  quiet,      \* history: time since the last poll that met the trigger
  silent,     \* history: time since the last poll with NT connected
  offFor      \* history: length of the current run of connected, disabled polls

vars == <<trigger, machine, out, recording, quiet, silent, offFor>>

Saturated(t) == IF t < Horizon THEN t ELSE Horizon

FMSInputs == {FMSStateDisconnected} \cup {FMSStateFromRaw(w) : w \in ControlWords}

Triggers(fms) == fms.Raw >= 0 /\ shouldStartRecording(fms, trigger)

Init ==
  /\ trigger \in Trigger
  /\ machine = IdleMachine
  /\ out = {}
  /\ recording = FALSE
  /\ quiet = Horizon
  /\ silent = Horizon
  /\ offFor = Nil

\* The history clocks of one poll.
Measure(fms, d) ==
  /\ quiet'  = IF Triggers(fms) THEN 0 ELSE Saturated(quiet + d)
  /\ silent' = IF fms.Raw >= 0 THEN 0 ELSE Saturated(silent + d)
  /\ offFor' = IF fms.Raw < 0 \/ fms.Enabled THEN Nil
               ELSE IF offFor = Nil THEN 0
               ELSE Saturated(offFor + d)

\* One tick: time d has passed, Update runs, the caller executes the actions.
Poll(fms, d) ==
  LET result == Update(Elapse(machine, d), fms, trigger) IN
  /\ machine' = result.machine
  /\ out' = result.actions
  /\ recording' = IF "StartRecord" \in out' THEN TRUE
                  ELSE IF "StopRecord" \in out' THEN FALSE
                  ELSE recording
  /\ Measure(fms, d)
  /\ UNCHANGED trigger

\* The tick of a paused collector: Reset, and the caller ends its session.
PausedReset ==
  /\ machine.State # "Idle"
  /\ machine' = IdleMachine
  /\ out' = {}
  /\ recording' = FALSE
  /\ UNCHANGED <<trigger, quiet, silent, offFor>>

Polls == \E fms \in FMSInputs, d \in Steps : Poll(fms, d)

Next == Polls \/ PausedReset

Spec == Init /\ [][Next]_vars

\* The ticker keeps firing while the program runs.
FairSpec == Spec /\ WF_vars(Polls)

-----------------------------------------------------------------------------
(* defaultClock reads the wall clock: it jumps when the host's time is set. *)
(* NoEarlyStop does not survive that (section 5 of the README).            *)

ClockJump ==
  /\ \E j \in ClockJumps : machine' = Elapse(machine, j)
  /\ out' = {}
  /\ UNCHANGED <<trigger, recording, quiet, silent, offFor>>

SpecWallClock == Init /\ [][Next \/ ClockJump]_vars

-----------------------------------------------------------------------------
(* Properties *)

TypeOK ==
  /\ trigger \in Trigger
  /\ machine \in Machine
  /\ out \in {{}, {"StartRecord"}, {"StopRecord"}}
  /\ recording \in BOOLEAN
  /\ quiet \in 0..Horizon
  /\ silent \in 0..Horizon
  /\ offFor \in (0..Horizon) \cup {Nil}

\* The caller's view and the machine's agree after every step: the recording
\* is on exactly when the machine is out of Idle, whatever order of starts,
\* cancelled stops, outages and pauses led there (machine.go Update, Reset).
CallerAgrees == recording <=> machine.State # "Idle"

\* Timers fit the state: nothing runs in Idle, a pending stop has its timer,
\* a recording has no stale stop timer, and teleop holds no disabled timer -
\* with one left over, UpdateTeleop would never notice the end of the match.
TimersFitState ==
  /\ machine.State = "Idle" => machine = IdleMachine
  /\ machine.State = "StopPending" <=> machine.stopPendingAt # Nil
  /\ machine.State = "RecordingTeleop" => machine.disabledAt = Nil

\* A recording that has seen only disabled, connected polls for StopBound is
\* over: gap and stop delay never add up to more, whatever happened before.
StopsInTime ==
  recording /\ offFor # Nil => offFor < StopBound

ShortestHold == IF trigger = "fms" /\ DetachDelay < StopDelay
                THEN DetachDelay ELSE StopDelay

\* A stop is never early: during an outage only after more than the grace
\* period without NT, otherwise only once the trigger has been quiet for the
\* stop delay (the detach delay when FMS is what triggers).
NoEarlyStop ==
  [][out' = {"StopRecord"} =>
       IF silent' > 0 THEN silent' > NTDisconnectGrace
       ELSE quiet' >= ShortestHold]_vars

RobotEnabled == silent = 0 /\ offFor = Nil

\* However NT flaps, a robot that is never enabled again is eventually, and
\* for good, no longer recorded.
EventuallyStops == <>[]~RobotEnabled => <>[]~recording

\* The machine implements the recording contract.
MinHold == LET hold == IF DetachDelay < StopDelay THEN DetachDelay ELSE StopDelay
           IN  IF NTDisconnectGrace + 1 < hold THEN NTDisconnectGrace + 1 ELSE hold

Contract == INSTANCE RecordingContract

ImplementsContract == Contract!Spec
=============================================================================
