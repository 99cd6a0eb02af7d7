--------------------------- MODULE RecorderProofs ---------------------------
(***************************************************************************)
(* Proofs about Recorder, for every delay, grace period, control word and  *)
(* poll spacing.                                                           *)
(***************************************************************************)
EXTENDS Recorder, TLAPS

\* How much older than the quiet time a pending stop may look: the detach
\* path sets its timer back so that DetachDelay is left of StopDelay.
HeadStart == IF trigger = "fms" THEN Longer(0, StopDelay - DetachDelay) ELSE 0

\* The pending stop has been pending no longer than the trigger is quiet.
PendingIsQuiet ==
  machine.State = "StopPending" =>
    /\ machine.stopPendingAt >= 0 - DetachSlack
    /\ quiet = Horizon \/ machine.stopPendingAt <= quiet + HeadStart

\* The disconnect timer never runs ahead of the outage it measures.
OutageIsSilence ==
  machine.ntDisconnectedAt # Nil =>
    silent = Horizon \/ machine.ntDisconnectedAt <= silent

\* Where a run of disabled polls has got to in each state.
GapAccounted ==
  /\ machine.State = "RecordingAuto" /\ machine.disabledAt # Nil => machine.disabledAt >= 0
  /\ offFor # Nil =>
       /\ machine.State # "RecordingTeleop"
       /\ machine.State = "RecordingAuto" =>
            /\ machine.disabledAt # Nil
            /\ offFor <= machine.disabledAt
            /\ machine.disabledAt <= AutoTeleopGap
       /\ machine.State = "StopPending" =>
            /\ offFor < StopBound
            /\ offFor <= AutoTeleopGap + MaxStep + machine.stopPendingAt + DetachSlack

\* Without NT no poll meets the trigger.
SilenceIsQuiet == silent <= quiet

IInv ==
  /\ TypeOK
  /\ CallerAgrees
  /\ TimersFitState
  /\ PendingIsQuiet
  /\ OutageIsSilence
  /\ SilenceIsQuiet
  /\ GapAccounted

-----------------------------------------------------------------------------
(* Facts about the operators *)

LEMMA InputsTyped == FMSInputs \subseteq FMSState
<1>1. \A value, bit : FlagSet(value, bit) \in BOOLEAN
  BY DEF FlagSet
<1>2. ControlWords \subseteq Int
  BY RecorderAssumption
<1>3. \A w \in ControlWords : FMSStateFromRaw(w) \in FMSState
  BY <1>1, <1>2 DEF FMSState, FMSStateFromRaw
<1>4. FMSStateDisconnected \in FMSState
  BY DEF FMSState, FMSStateDisconnected
<1>5. QED
  BY <1>3, <1>4 DEF FMSInputs

LEMMA IdleTyped == IdleMachine \in Machine
BY DEF IdleMachine, Machine, State, Timer

LEMMA ElapseTyped ==
  ASSUME NEW m \in Machine, NEW d \in Int
  PROVE  /\ Elapse(m, d) \in Machine
         /\ Elapse(m, d).State = m.State
         /\ Elapse(m, d).disabledAt = Older(m.disabledAt, d)
         /\ Elapse(m, d).stopPendingAt = Older(m.stopPendingAt, d)
         /\ Elapse(m, d).ntDisconnectedAt = Older(m.ntDisconnectedAt, d)
<1>1. \A t \in Timer : Older(t, d) \in Timer
  BY DEF Older, Timer
<1>2. QED
  BY <1>1 DEF Elapse, Machine

\* Every result of Update is a machine with at most one action.
LEMMA UpdateTyped ==
  ASSUME NEW m \in Machine, NEW fms \in FMSState, NEW t \in Trigger
  PROVE  /\ Update(m, fms, t).machine \in Machine
         /\ Update(m, fms, t).actions \in {{}, {"StartRecord"}, {"StopRecord"}}
<1> DEFINE p == [m EXCEPT !.ntDisconnectedAt = Nil]
           q == Detached(p, fms, t)
           r == EStopped(q, fms)
<1>1. /\ 0 \in Timer /\ Nil \in Timer /\ StopDelay - DetachDelay \in Timer
      /\ {"Idle", "RecordingAuto", "RecordingTeleop", "StopPending"} \subseteq State
      /\ \A s \in State : s \in {"Idle", "RecordingAuto", "RecordingTeleop", "StopPending"}
  BY TimingAssumption DEF Timer, State, Recording
<1>2. UpdateDisconnected(m).machine \in Machine
      /\ UpdateDisconnected(m).actions \in {{}, {"StopRecord"}}
  BY <1>1, IdleTyped DEF UpdateDisconnected, Returns, Machine
<1>3. p \in Machine
  BY <1>1 DEF Machine
<1>4. q \in Machine
  BY <1>1, <1>3 DEF Detached, Machine
<1>5. r \in Machine
  BY <1>1, <1>4 DEF EStopped, Machine
<1> HIDE DEF p, q, r
<1>6. Transition(r, fms, t).machine \in Machine
      /\ Transition(r, fms, t).actions \in {{}, {"StartRecord"}, {"StopRecord"}}
  <2>1. CASE r.State = "Idle"
    BY <1>1, <1>5, <2>1 DEF Transition, UpdateIdle, Returns, Machine
  <2>2. CASE r.State = "RecordingAuto"
    BY <1>1, <1>5, <2>2 DEF Transition, UpdateAuto, Returns, Machine
  <2>3. CASE r.State = "RecordingTeleop"
    BY <1>1, <1>5, <2>3 DEF Transition, UpdateTeleop, Returns, Machine
  <2>4. CASE r.State = "StopPending"
    BY <1>1, <1>5, <2>4, IdleTyped DEF Transition, UpdateStopPending, Returns, Machine
  <2>5. QED
    BY <1>1, <1>5, <2>1, <2>2, <2>3, <2>4 DEF Machine
<1>7. QED
  BY <1>2, <1>6 DEF Update, UpdateConnected, p, q, r

\* TimersFitState as a fact about a machine value.
Fits(m) ==
  /\ m.State = "Idle" => m = IdleMachine
  /\ m.State = "StopPending" <=> m.stopPendingAt # Nil
  /\ m.State = "RecordingTeleop" => m.disabledAt = Nil

\* What Update can do to a machine n while NT is connected, m being the
\* machine before: stay idle, start, record on, tolerate a gap, begin a
\* pending stop, keep it pending, or stop.
StaysIdle(m, n, acts, fms, t) ==
  /\ ~shouldStartRecording(fms, t)
  /\ m.State = "Idle" /\ n = IdleMachine /\ acts = {}

RecordsEnabled(m, n, acts, fms, t) ==
  /\ fms.Enabled
  /\ m.State = "Idle" => shouldStartRecording(fms, t)
  /\ acts = IF m.State = "Idle" THEN {"StartRecord"} ELSE {}
  /\ n.State \in Recording
  /\ n.disabledAt = Nil /\ n.stopPendingAt = Nil /\ n.ntDisconnectedAt = Nil

ToleratesGap(m, n, acts, fms) ==
  /\ ~fms.Enabled
  /\ acts = {}
  /\ m.State = "RecordingAuto" /\ n.State = "RecordingAuto"
  /\ n.disabledAt = IF m.disabledAt = Nil THEN 0 ELSE m.disabledAt
  /\ n.disabledAt <= AutoTeleopGap
  /\ n.stopPendingAt = Nil /\ n.ntDisconnectedAt = Nil

BeginsStop(m, n, acts, fms, t) ==
  /\ ~shouldStartRecording(fms, t)
  /\ acts = {}
  /\ m.State \in Recording /\ n.State = "StopPending"
  /\ \/ n.stopPendingAt = 0
     \/ t = "fms" /\ n.stopPendingAt = StopDelay - DetachDelay
  /\ n.ntDisconnectedAt = Nil

StaysPending(m, n, acts, fms, t) ==
  /\ ~shouldStartRecording(fms, t)
  /\ acts = {}
  /\ m.State = "StopPending" /\ n.State = "StopPending"
  /\ n.stopPendingAt = m.stopPendingAt /\ m.stopPendingAt < StopDelay
  /\ n.ntDisconnectedAt = Nil

Stops(m, n, acts, fms, t) ==
  /\ ~shouldStartRecording(fms, t)
  /\ acts = {"StopRecord"} /\ n = IdleMachine
  /\ \/ m.State = "StopPending" /\ m.stopPendingAt >= StopDelay
     \/ m.State \in Recording /\ StopDelay = 0

ConnectedOutcome(m, n, acts, fms, t) ==
  \/ StaysIdle(m, n, acts, fms, t)
  \/ RecordsEnabled(m, n, acts, fms, t)
  \/ ToleratesGap(m, n, acts, fms)
  \/ BeginsStop(m, n, acts, fms, t)
  \/ StaysPending(m, n, acts, fms, t)
  \/ Stops(m, n, acts, fms, t)

LEMMA UpdateConnectedOutcome ==
  ASSUME NEW m \in Machine, Fits(m), NEW fms \in FMSState, NEW t \in Trigger
  PROVE  LET r == UpdateConnected(m, fms, t)
         IN  ConnectedOutcome(m, r.machine, r.actions, fms, t)
<1> DEFINE p == [m EXCEPT !.ntDisconnectedAt = Nil]
           q == Detached(p, fms, t)
           s == EStopped(q, fms)
           r == Transition(s, fms, t)
<1> SUFFICES ConnectedOutcome(m, r.machine, r.actions, fms, t)
  BY DEF UpdateConnected
<1> USE TimingAssumption
<1> HIDE DEF r
<1>1. m.State \in {"Idle", "RecordingAuto", "RecordingTeleop", "StopPending"}
  BY DEF Machine, State, Recording
<1>2. CASE m.State = "Idle"
  <2>1. m = IdleMachine /\ s = IdleMachine
    <3>1. m = IdleMachine
      BY <1>2 DEF Fits
    <3>2. p = IdleMachine
      <4>1. m.ntDisconnectedAt = Nil
        BY <3>1 DEF IdleMachine
      <4>2. p = m
        BY <4>1 DEF Machine
      <4>3. QED
        BY <3>1, <4>2
    <3>3. q = IdleMachine
      BY <3>2 DEF Detached, IdleMachine, Recording
    <3>4. QED
      BY <3>1, <3>3 DEF EStopped, IdleMachine, Recording
  <2>2. r = UpdateIdle(IdleMachine, fms, t)
    BY <2>1 DEF Transition, IdleMachine, r
  <2>3. QED
    BY <1>2, <2>1, <2>2 DEF UpdateIdle, Returns, Machine, ConnectedOutcome, StaysIdle,
       RecordsEnabled, IdleMachine, Recording, shouldStartRecording
<1>3. CASE m.State \in Recording
  <2>1. m.stopPendingAt = Nil
    BY <1>3 DEF Fits, Recording
  <2>2. CASE s.State = "StopPending"
    <3>1. /\ s.ntDisconnectedAt = Nil
          /\ \/ s.stopPendingAt = 0
             \/ t = "fms" /\ s.stopPendingAt = StopDelay - DetachDelay
      BY <1>3, <2>2 DEF EStopped, Detached, Machine, Recording
    <3>2. r = UpdateStopPending(s, fms, t)
      BY <2>2 DEF Transition, r
    <3>3. s \in Machine
      <4>1. 0 \in Timer /\ Nil \in Timer /\ StopDelay - DetachDelay \in Timer
        BY DEF Timer
      <4>2. "StopPending" \in State
        BY DEF State
      <4>3. QED
        BY <4>1, <4>2 DEF EStopped, Detached, Machine
    <3> HIDE DEF s
    <3>4. CASE shouldStartRecording(fms, t)
      BY <1>3, <3>1, <3>2, <3>3, <3>4 DEF UpdateStopPending, Returns, Machine, ConnectedOutcome,
         RecordsEnabled, Recording, shouldStartRecording
    <3>5. CASE ~shouldStartRecording(fms, t) /\ s.stopPendingAt >= StopDelay
      <4>1. s.stopPendingAt # Nil
        BY <3>1
      <4>2. StopDelay = 0
        BY <3>1, <3>5
      <4>3. r = Returns(IdleMachine, {"StopRecord"})
        BY <3>2, <3>5, <4>1 DEF UpdateStopPending
      <4>4. QED
        BY <1>3, <3>5, <4>2, <4>3 DEF Returns, Machine, ConnectedOutcome, Stops
    <3>6. CASE ~shouldStartRecording(fms, t) /\ ~(s.stopPendingAt >= StopDelay)
      <4>1. r = Returns(s, {})
        BY <3>2, <3>6 DEF UpdateStopPending
      <4>2. QED
        BY <1>3, <2>2, <3>1, <3>6, <4>1 DEF Returns, Machine, ConnectedOutcome, BeginsStop
    <3>7. QED
      BY <3>4, <3>5, <3>6
  <2>3. CASE s.State # "StopPending"
    <3>1. s = p /\ (t = "fms" => fms.FMSAttached)
      BY <1>3, <2>3 DEF EStopped, Detached, Machine, Recording
    <3>2. /\ p \in Machine
          /\ p.State = m.State /\ p.disabledAt = m.disabledAt
          /\ p.stopPendingAt = Nil /\ p.ntDisconnectedAt = Nil
      BY <2>1 DEF Machine, Timer
    <3> HIDE DEF p, s
    <3>3. CASE m.State = "RecordingAuto"
      <4>1. r = UpdateAuto(p, fms)
        BY <3>1, <3>2, <3>3 DEF Transition, r
      <4>2. CASE fms.Enabled
        BY <3>2, <3>3, <4>1, <4>2 DEF UpdateAuto, Returns, Machine, ConnectedOutcome,
           RecordsEnabled, Recording
      <4>3. CASE ~fms.Enabled /\ m.disabledAt = Nil
        BY <3>2, <3>3, <4>1, <4>3 DEF UpdateAuto, Returns, Machine, ConnectedOutcome, ToleratesGap
      <4>4. CASE ~fms.Enabled /\ m.disabledAt # Nil /\ m.disabledAt > AutoTeleopGap
        BY <1>3, <3>2, <3>3, <4>1, <4>4 DEF UpdateAuto, Returns, Machine, ConnectedOutcome,
           BeginsStop, shouldStartRecording
      <4>5. CASE ~fms.Enabled /\ m.disabledAt # Nil /\ ~(m.disabledAt > AutoTeleopGap)
        <5>1. m.disabledAt \in Int
          BY <4>5 DEF Machine, Timer
        <5>2. r = Returns(p, {})
          BY <3>2, <4>1, <4>5 DEF UpdateAuto
        <5>3. QED
          BY <3>2, <3>3, <4>5, <5>1, <5>2 DEF Returns, Machine, ConnectedOutcome, ToleratesGap
      <4>6. QED
        BY <4>2, <4>3, <4>4, <4>5
    <3>4. CASE m.State = "RecordingTeleop"
      <4>1. r = UpdateTeleop(p, fms) /\ m.disabledAt = Nil
        BY <3>1, <3>2, <3>4 DEF Transition, Fits, r
      <4>2. CASE fms.Enabled
        BY <3>2, <3>4, <4>1, <4>2 DEF UpdateTeleop, Returns, Machine, ConnectedOutcome,
           RecordsEnabled, Recording
      <4>3. CASE ~fms.Enabled
        BY <1>3, <3>2, <3>4, <4>1, <4>3 DEF UpdateTeleop, Returns, Machine, ConnectedOutcome,
           BeginsStop, shouldStartRecording
      <4>4. QED
        BY <4>2, <4>3
    <3>5. QED
      BY <1>3, <3>3, <3>4 DEF Recording
  <2>4. QED
    BY <2>2, <2>3
<1>4. CASE m.State = "StopPending"
  <2>1. /\ s = p /\ p.State = "StopPending" /\ p.stopPendingAt = m.stopPendingAt
        /\ p.ntDisconnectedAt = Nil
    BY <1>4 DEF EStopped, Detached, Machine, Recording
  <2>2. m.stopPendingAt # Nil /\ m.stopPendingAt \in Int
    BY <1>4 DEF Fits, Machine, Timer
  <2>3. r = UpdateStopPending(p, fms, t)
    BY <2>1 DEF Transition, r
  <2>4. p \in Machine
    BY DEF Machine, Timer
  <2> HIDE DEF p, s
  <2>5. CASE shouldStartRecording(fms, t)
    BY <1>4, <2>1, <2>3, <2>4, <2>5 DEF UpdateStopPending, Returns, Machine, ConnectedOutcome,
       RecordsEnabled, Recording, shouldStartRecording
  <2>6. CASE ~shouldStartRecording(fms, t) /\ m.stopPendingAt >= StopDelay
    BY <1>4, <2>1, <2>2, <2>3, <2>6 DEF UpdateStopPending, Returns, Machine, ConnectedOutcome, Stops
  <2>7. CASE ~shouldStartRecording(fms, t) /\ m.stopPendingAt < StopDelay
    <3>1. r = Returns(p, {})
      BY <2>1, <2>2, <2>3, <2>7 DEF UpdateStopPending
    <3>2. QED
      BY <1>4, <2>1, <2>7, <3>1 DEF Returns, Machine, ConnectedOutcome, StaysPending
  <2>8. QED
    BY <2>2, <2>5, <2>6, <2>7
<1>5. QED
  BY <1>1, <1>2, <1>3, <1>4 DEF Recording

-----------------------------------------------------------------------------
(* One poll, NT connected or not, seen through the outcome of Update *)

\* What the elapsed machine inherits from the invariant.
LEMMA ElapsedFits ==
  ASSUME IInv, NEW d \in Steps
  PROVE  Elapse(machine, d) \in Machine /\ Fits(Elapse(machine, d))
<1>1. d \in Int /\ machine \in Machine
  BY RecorderAssumption DEF Steps, IInv, TypeOK
<1>2. CASE machine.State = "Idle"
  <2>1. Elapse(machine, d) = IdleMachine
    <3>1. machine = IdleMachine
      BY <1>2 DEF IInv, TimersFitState
    <3>2. /\ machine.disabledAt = Nil /\ machine.stopPendingAt = Nil
          /\ machine.ntDisconnectedAt = Nil
      BY <3>1 DEF IdleMachine
    <3>3. Elapse(machine, d) = machine
      BY <1>1, <3>2 DEF Elapse, Older, Machine
    <3>4. QED
      BY <3>1, <3>3
  <2>2. QED
    BY <2>1, IdleTyped DEF Fits, IdleMachine
<1>3. CASE machine.State # "Idle"
  <2>1. \A t \in Timer : t # Nil <=> Older(t, d) # Nil
    BY <1>1, TimingAssumption DEF Older, Timer
  <2>2. QED
    BY <1>1, <1>3, <2>1, ElapseTyped DEF Fits, IInv, TimersFitState, Machine
<1>4. QED
  BY <1>2, <1>3

\* Assumptions on the constants as the arithmetic steps use them.
LEMMA Bounds ==
  /\ StopDelay \in Nat /\ AutoTeleopGap \in Nat /\ NTDisconnectGrace \in Nat
  /\ DetachDelay \in Nat /\ DetachDelay > 0 /\ MaxStep \in Nat /\ MaxStep > 0
  /\ Horizon \in Nat /\ DetachSlack \in Nat /\ StopBound \in Nat
  /\ DetachSlack >= DetachDelay - StopDelay
  /\ DetachSlack = 0 \/ DetachSlack = DetachDelay - StopDelay
  /\ StopBound = AutoTeleopGap + MaxStep + StopDelay + DetachSlack
  /\ StopBound > AutoTeleopGap + MaxStep
  /\ Horizon > StopBound /\ Horizon > NTDisconnectGrace + DetachDelay
BY TimingAssumption, RecorderAssumption DEF StopBound, DetachSlack, Longer

LEMMA PollTyped ==
  ASSUME IInv, NEW fms \in FMSInputs, NEW d \in Steps, Poll(fms, d)
  PROVE  TypeOK' /\ SilenceIsQuiet'
<1>1. fms \in FMSState /\ d \in Nat /\ trigger \in Trigger
  BY InputsTyped, Bounds DEF Steps, IInv, TypeOK
<1>2. /\ machine' \in Machine
      /\ out' \in {{}, {"StartRecord"}, {"StopRecord"}}
  BY <1>1, ElapsedFits, UpdateTyped DEF Poll
<1>3. trigger' \in Trigger /\ recording' \in BOOLEAN
  BY <1>1 DEF Poll, IInv, TypeOK
<1>4. quiet' \in 0..Horizon /\ silent' \in 0..Horizon
  BY <1>1, Bounds DEF Poll, Measure, Saturated, IInv, TypeOK
<1>5. offFor' \in (0..Horizon) \cup {Nil}
  BY <1>1, Bounds, TimingAssumption DEF Poll, Measure, Saturated, IInv, TypeOK
<1>6. silent' <= quiet'
  <2>1. silent <= quiet /\ silent \in Nat /\ quiet \in Nat
    BY Bounds DEF IInv, SilenceIsQuiet, TypeOK
  <2>2. CASE fms.Raw >= 0
    BY <1>4, <2>2, Bounds DEF Poll, Measure
  <2>3. CASE ~(fms.Raw >= 0)
    BY <1>1, <2>1, <2>3, Bounds DEF Poll, Measure, Saturated, Triggers
  <2>4. QED
    BY <2>2, <2>3
<1>7. QED
  BY <1>2, <1>3, <1>4, <1>5, <1>6 DEF TypeOK, SilenceIsQuiet

\* The clocks of one poll, in the arithmetic form the case proofs use.
LEMMA PollClocks ==
  ASSUME IInv, NEW fms \in FMSInputs, NEW d \in Steps, Poll(fms, d)
  PROVE  /\ d \in Nat /\ d > 0 /\ d <= MaxStep
         /\ quiet \in Nat /\ silent \in Nat /\ trigger' = trigger
         /\ HeadStart \in Nat /\ HeadStart' = HeadStart
         /\ offFor # Nil => offFor \in Nat
         /\ machine.State \in State
         /\ Elapse(machine, d).State = machine.State
         /\ machine.disabledAt # Nil =>
              /\ machine.disabledAt \in Int
              /\ Elapse(machine, d).disabledAt = machine.disabledAt + d
         /\ machine.disabledAt = Nil => Elapse(machine, d).disabledAt = Nil
         /\ machine.stopPendingAt # Nil =>
              /\ machine.stopPendingAt \in Int
              /\ Elapse(machine, d).stopPendingAt = machine.stopPendingAt + d
         /\ machine.ntDisconnectedAt # Nil =>
              /\ machine.ntDisconnectedAt \in Int
              /\ Elapse(machine, d).ntDisconnectedAt = machine.ntDisconnectedAt + d
         /\ machine.ntDisconnectedAt = Nil => Elapse(machine, d).ntDisconnectedAt = Nil
<1>1. d \in Nat /\ d > 0 /\ d <= MaxStep
  BY Bounds DEF Steps
<1>2. machine \in Machine
  BY DEF IInv, TypeOK
<1>3. Nil \notin Int
  BY TimingAssumption
<1>4. /\ machine.State \in State
      /\ machine.disabledAt \in Timer /\ machine.stopPendingAt \in Timer
      /\ machine.ntDisconnectedAt \in Timer
  BY <1>2 DEF Machine
<1>5. \A t \in Timer : /\ t # Nil => t \in Int /\ Older(t, d) = t + d
                       /\ t = Nil => Older(t, d) = Nil
  BY DEF Older, Timer
<1>6. quiet \in Nat /\ silent \in Nat /\ (offFor # Nil => offFor \in Nat)
  BY Bounds DEF IInv, TypeOK
<1>7. trigger' = trigger
  BY DEF Poll
<1>8. /\ Elapse(machine, d).State = machine.State
      /\ Elapse(machine, d).disabledAt = Older(machine.disabledAt, d)
      /\ Elapse(machine, d).stopPendingAt = Older(machine.stopPendingAt, d)
      /\ Elapse(machine, d).ntDisconnectedAt = Older(machine.ntDisconnectedAt, d)
  BY <1>1, <1>2, ElapseTyped
<1>9. HeadStart \in Nat /\ HeadStart' = HeadStart
  BY <1>7, Bounds DEF HeadStart, Longer
<1>10. QED
  BY <1>1, <1>4, <1>5, <1>6, <1>7, <1>8, <1>9

LEMMA PollDisconnected ==
  ASSUME IInv, NEW fms \in FMSInputs, NEW d \in Steps, Poll(fms, d), fms.Raw < 0
  PROVE  /\ (CallerAgrees /\ TimersFitState /\ PendingIsQuiet /\ OutageIsSilence
              /\ GapAccounted)'
         /\ out' = {"StopRecord"} => silent' > NTDisconnectGrace
         /\ out' # {"StartRecord"}
         /\ silent' > 0
         /\ quiet' = Saturated(quiet + d)
<1> DEFINE e == Elapse(machine, d)
<1>1. /\ machine' = UpdateDisconnected(e).machine
      /\ out' = UpdateDisconnected(e).actions
      /\ recording' = IF "StartRecord" \in out' THEN TRUE
                      ELSE IF "StopRecord" \in out' THEN FALSE ELSE recording
      /\ offFor' = Nil
      /\ silent' = Saturated(silent + d)
      /\ quiet' = Saturated(quiet + d)
  <2>1. ~(fms.Raw >= 0)
    BY InputsTyped DEF FMSState
  <2>2. Update(e, fms, trigger) = UpdateDisconnected(e)
    BY DEF Update
  <2>3. QED
    BY <2>1, <2>2 DEF Poll, Measure, Triggers
<1>2. e \in Machine /\ Fits(e)
  BY ElapsedFits
<1>3. /\ silent' \in Nat /\ quiet' \in Nat /\ silent' > 0
      /\ silent' = Horizon \/ silent' = silent + d
      /\ quiet' = Horizon \/ quiet' = quiet + d
      /\ silent' >= 0 /\ silent' <= Horizon
  BY <1>1, PollClocks, Bounds DEF Saturated
<1>4. ASSUME machine'.State = e.State, machine'.disabledAt = e.disabledAt
      PROVE  GapAccounted'
  <2>1. ASSUME e.State = "RecordingAuto", e.disabledAt # Nil
        PROVE  e.disabledAt >= 0
    <3>1. machine.State = "RecordingAuto" /\ machine.disabledAt # Nil
      BY <2>1, PollClocks
    <3>2. machine.disabledAt >= 0 /\ machine.disabledAt \in Int
          /\ e.disabledAt = machine.disabledAt + d
      BY <3>1, PollClocks DEF IInv, GapAccounted
    <3> HIDE DEF e
    <3>3. QED
      BY <3>2, PollClocks
  <2>2. QED
    BY <1>1, <1>4, <2>1 DEF GapAccounted
<1>pending. ASSUME e.State = "StopPending"
            PROVE  /\ e.stopPendingAt >= 0 - DetachSlack
                   /\ quiet' = Horizon \/ e.stopPendingAt <= quiet' + HeadStart
  <2>1. machine.State = "StopPending" /\ machine.stopPendingAt # Nil
    BY <1>pending, PollClocks DEF IInv, TimersFitState
  <2>2. /\ machine.stopPendingAt >= 0 - DetachSlack
        /\ quiet = Horizon \/ machine.stopPendingAt <= quiet + HeadStart
    BY <2>1 DEF IInv, PendingIsQuiet
  <2>3. machine.stopPendingAt \in Int /\ e.stopPendingAt = machine.stopPendingAt + d
    BY <2>1, PollClocks
  <2>4. quiet' = Horizon \/ (quiet' = quiet + d /\ quiet + d < Horizon)
    BY <1>1, PollClocks, Bounds DEF Saturated
  <2> HIDE DEF e
  <2>5. QED
    BY <2>2, <2>3, <2>4, PollClocks, Bounds
<1>5. CASE e.State = "Idle"
  <2>1. machine' = e /\ out' = {} /\ machine' = IdleMachine /\ recording' = recording
    BY <1>1, <1>2, <1>5 DEF UpdateDisconnected, Returns, Fits
  <2>2. CallerAgrees'
    BY <1>5, <2>1, PollClocks DEF CallerAgrees, IInv
  <2>3. QED
    BY <1>1, <1>3, <1>4, <2>1, <2>2
       DEF TimersFitState, PendingIsQuiet, OutageIsSilence, IdleMachine
<1>6. CASE e.State # "Idle" /\ e.ntDisconnectedAt = Nil
  <2>1. machine' = [e EXCEPT !.ntDisconnectedAt = 0] /\ out' = {} /\ recording' = recording
    BY <1>1, <1>6 DEF UpdateDisconnected, Returns
  <2>2. /\ machine'.State = e.State /\ machine'.stopPendingAt = e.stopPendingAt
        /\ machine'.disabledAt = e.disabledAt /\ machine'.ntDisconnectedAt = 0
    BY <1>2, <2>1 DEF Machine
  <2>3. CallerAgrees' /\ TimersFitState'
    BY <1>2, <1>6, <2>1, <2>2, PollClocks DEF CallerAgrees, TimersFitState, Fits, IInv
  <2>4. PendingIsQuiet'
    BY <1>pending, <2>2, PollClocks DEF PendingIsQuiet
  <2>5. OutageIsSilence'
    BY <1>3, <2>2 DEF OutageIsSilence
  <2>6. QED
    BY <1>1, <1>3, <1>4, <2>1, <2>2, <2>3, <2>4, <2>5
<1>7. CASE /\ e.State # "Idle" /\ e.ntDisconnectedAt # Nil
           /\ e.ntDisconnectedAt > NTDisconnectGrace
  <2>1. machine' = IdleMachine /\ out' = {"StopRecord"} /\ recording' = FALSE
    BY <1>1, <1>7 DEF UpdateDisconnected, Returns
  <2>2. silent' > NTDisconnectGrace
    BY <1>3, <1>7, PollClocks, Bounds DEF IInv, OutageIsSilence
  <2>3. QED
    BY <1>1, <1>3, <2>1, <2>2
       DEF CallerAgrees, TimersFitState, PendingIsQuiet, OutageIsSilence, GapAccounted,
           IdleMachine
<1>8. CASE /\ e.State # "Idle" /\ e.ntDisconnectedAt # Nil
           /\ ~(e.ntDisconnectedAt > NTDisconnectGrace)
  <2>1. machine' = e /\ out' = {} /\ recording' = recording
    BY <1>1, <1>8 DEF UpdateDisconnected, Returns
  <2>2. CallerAgrees' /\ TimersFitState'
    BY <1>2, <1>8, <2>1, PollClocks DEF CallerAgrees, TimersFitState, Fits, IInv
  <2>3. PendingIsQuiet'
    BY <1>pending, <2>1, PollClocks DEF PendingIsQuiet
  <2>4. OutageIsSilence'
    BY <1>3, <1>8, <2>1, PollClocks DEF OutageIsSilence, IInv
  <2>5. QED
    BY <1>1, <1>3, <1>4, <2>1, <2>2, <2>3, <2>4
<1>9. QED
  BY <1>5, <1>6, <1>7, <1>8

LEMMA PollConnected ==
  ASSUME IInv, NEW fms \in FMSInputs, NEW d \in Steps, Poll(fms, d), ~(fms.Raw < 0)
  PROVE  /\ (CallerAgrees /\ TimersFitState /\ PendingIsQuiet /\ OutageIsSilence
              /\ GapAccounted)'
         /\ out' = {"StopRecord"} => quiet' >= ShortestHold
         /\ silent' = 0
         /\ IF shouldStartRecording(fms, trigger)
              THEN quiet' = 0 /\ recording' = TRUE
              ELSE quiet' = Saturated(quiet + d) /\ out' # {"StartRecord"}
<1> DEFINE e == Elapse(machine, d)
           eligible == shouldStartRecording(fms, trigger)
<1>1. /\ ConnectedOutcome(e, machine', out', fms, trigger)
      /\ recording' = IF "StartRecord" \in out' THEN TRUE
                      ELSE IF "StopRecord" \in out' THEN FALSE ELSE recording
      /\ quiet' = IF eligible THEN 0 ELSE Saturated(quiet + d)
      /\ silent' = 0
      /\ offFor' = IF fms.Enabled THEN Nil
                   ELSE IF offFor = Nil THEN 0 ELSE Saturated(offFor + d)
  <2>1. fms \in FMSState /\ trigger \in Trigger
    BY InputsTyped DEF IInv, TypeOK
  <2>2. fms.Raw >= 0
    BY <2>1 DEF FMSState
  <2>3. Update(e, fms, trigger) = UpdateConnected(e, fms, trigger)
    BY DEF Update
  <2>4. ConnectedOutcome(e, machine', out', fms, trigger)
    BY <2>1, <2>3, ElapsedFits, UpdateConnectedOutcome DEF Poll
  <2>5. QED
    BY <2>2, <2>4 DEF Poll, Measure, Triggers
<1>2. e \in Machine /\ Fits(e)
  BY ElapsedFits
<1>3. quiet' \in Nat /\ (~eligible => quiet' = Horizon \/ quiet' = quiet + d)
  BY <1>1, PollClocks, Bounds DEF Saturated
<1>4. ~fms.Enabled => /\ ~eligible
                      /\ offFor' \in Nat
                      /\ offFor = Nil => offFor' = 0
                      /\ offFor # Nil => offFor \in Nat /\ offFor' <= offFor + d
  BY <1>1, PollClocks, Bounds DEF Saturated, shouldStartRecording
<1>5. recording <=> e.State # "Idle"
  BY PollClocks DEF IInv, CallerAgrees
<1>6. fms.Enabled => offFor' = Nil
  BY <1>1
<1>7. ASSUME e.State = "StopPending"
      PROVE  /\ machine.State = "StopPending"
             /\ machine.stopPendingAt \in Int /\ e.stopPendingAt = machine.stopPendingAt + d
             /\ machine.stopPendingAt >= 0 - DetachSlack
             /\ quiet = Horizon \/ machine.stopPendingAt <= quiet + HeadStart
  <2>1. machine.State = "StopPending" /\ machine.stopPendingAt # Nil
    BY <1>7, PollClocks DEF IInv, TimersFitState
  <2>2. /\ machine.stopPendingAt >= 0 - DetachSlack
        /\ quiet = Horizon \/ machine.stopPendingAt <= quiet + HeadStart
    BY <2>1 DEF IInv, PendingIsQuiet
  <2>3. QED
    BY <2>1, <2>2, PollClocks
<1>8. /\ ShortestHold \in Nat /\ ShortestHold + HeadStart = StopDelay
      /\ ShortestHold <= StopDelay /\ StopDelay <= Horizon
      /\ trigger = "fms" => StopDelay - DetachDelay <= HeadStart
      /\ StopDelay - DetachDelay >= 0 - DetachSlack
      /\ StopDelay - DetachDelay + DetachSlack >= 0
  BY Bounds DEF ShortestHold, HeadStart, Longer
<1> HIDE DEF e, eligible
<1>idle. "Idle" \notin Recording /\ "StopPending" \notin Recording
  BY DEF Recording
<1>a. CASE StaysIdle(e, machine', out', fms, trigger)
  <2>1. /\ machine' = IdleMachine /\ recording' = recording /\ ~eligible
        /\ out' = {} /\ e.State = "Idle"
    BY <1>1, <1>a DEF StaysIdle, eligible
  <2>2. QED
    BY <1>1, <1>5, <2>1 DEF CallerAgrees, TimersFitState, PendingIsQuiet,
       OutageIsSilence, GapAccounted, IdleMachine, eligible
<1>b. CASE RecordsEnabled(e, machine', out', fms, trigger)
  <2>1. /\ recording' = TRUE /\ machine'.State \in Recording /\ offFor' = Nil
        /\ machine'.disabledAt = Nil /\ machine'.stopPendingAt = Nil
        /\ machine'.ntDisconnectedAt = Nil
    BY <1>1, <1>5, <1>6, <1>b DEF RecordsEnabled
  <2>2. out' # {"StopRecord"} /\ (out' = {"StartRecord"} => e.State = "Idle")
    BY <1>b DEF RecordsEnabled
  <2>3. out' = {"StartRecord"} => eligible
    BY <2>2, <1>b DEF RecordsEnabled, eligible
  <2>4. QED
    BY <1>1, <1>idle, <2>1, <2>2, <2>3 DEF CallerAgrees, TimersFitState, PendingIsQuiet,
       OutageIsSilence, GapAccounted, eligible
<1>c. CASE ToleratesGap(e, machine', out', fms)
  <2>1. /\ recording' = recording /\ machine'.State = "RecordingAuto" /\ out' = {}
        /\ e.State = "RecordingAuto" /\ ~fms.Enabled
        /\ machine'.disabledAt = IF e.disabledAt = Nil THEN 0 ELSE e.disabledAt
        /\ machine'.disabledAt <= AutoTeleopGap
        /\ machine'.stopPendingAt = Nil /\ machine'.ntDisconnectedAt = Nil
    BY <1>1, <1>c DEF ToleratesGap
  <2>2. /\ machine'.disabledAt # Nil /\ machine'.disabledAt \in Int
        /\ offFor' <= machine'.disabledAt
    <3>1. CASE offFor = Nil
      <4>1. e.disabledAt # Nil => machine.disabledAt \in Int /\ e.disabledAt = machine.disabledAt + d
        BY PollClocks DEF e
      <4>2. offFor' = 0
        BY <1>4, <2>1, <3>1
      <4>3. machine.State = "RecordingAuto"
        BY <2>1, PollClocks DEF e
      <4>4. e.disabledAt # Nil => machine.disabledAt # Nil /\ machine.disabledAt >= 0
        BY <4>3, PollClocks DEF e, IInv, GapAccounted
      <4>5. QED
        BY <2>1, <4>1, <4>2, <4>4, PollClocks, TimingAssumption
    <3>2. CASE offFor # Nil
      <4>1. machine.State = "RecordingAuto"
        BY <2>1, PollClocks DEF e
      <4>2. machine.disabledAt # Nil /\ offFor <= machine.disabledAt
        BY <3>2, <4>1 DEF IInv, GapAccounted
      <4>3. machine.disabledAt \in Int /\ e.disabledAt = machine.disabledAt + d
        BY <4>2, PollClocks DEF e
      <4>4. QED
        BY <1>4, <2>1, <3>2, <4>2, <4>3, PollClocks, TimingAssumption
    <3>3. QED
      BY <3>1, <3>2
  <2>3. machine'.disabledAt >= 0 /\ ~eligible
    BY <1>4, <2>1, <2>2
  <2>4. QED
    BY <1>1, <1>5, <2>1, <2>2, <2>3 DEF CallerAgrees, TimersFitState, PendingIsQuiet,
       OutageIsSilence, GapAccounted, eligible
<1>d. CASE BeginsStop(e, machine', out', fms, trigger)
  <2>1. /\ ~eligible /\ out' = {} /\ recording' = recording
        /\ e.State \in Recording /\ machine'.State = "StopPending"
        /\ \/ machine'.stopPendingAt = 0
           \/ trigger = "fms" /\ machine'.stopPendingAt = StopDelay - DetachDelay
        /\ machine'.ntDisconnectedAt = Nil
    BY <1>1, <1>d DEF BeginsStop, eligible
  <2>2. /\ machine'.stopPendingAt \in Int /\ machine'.stopPendingAt # Nil
        /\ machine'.stopPendingAt >= 0 - DetachSlack
        /\ machine'.stopPendingAt <= HeadStart
        /\ machine'.stopPendingAt + DetachSlack >= 0
    BY <1>8, <2>1, PollClocks, Bounds, TimingAssumption
  <2>3. CallerAgrees' /\ TimersFitState' /\ OutageIsSilence'
    BY <1>5, <1>idle, <2>1, <2>2 DEF CallerAgrees, TimersFitState, OutageIsSilence
  <2>4. PendingIsQuiet'
    BY <1>3, <2>2, PollClocks DEF PendingIsQuiet
  <2>5. offFor' # Nil => offFor' \in Nat /\ offFor' <= AutoTeleopGap + MaxStep
    <3>1. CASE fms.Enabled
      BY <1>6, <3>1
    <3>2. CASE ~fms.Enabled /\ offFor = Nil
      BY <1>4, <3>2, Bounds
    <3>3. CASE ~fms.Enabled /\ offFor # Nil
      <4>1. machine.State \in Recording /\ machine.State # "RecordingTeleop"
        BY <2>1, <3>3, PollClocks DEF IInv, GapAccounted, e
      <4>2. machine.State = "RecordingAuto"
        BY <4>1 DEF Recording
      <4>3. /\ machine.disabledAt \in Int /\ offFor <= machine.disabledAt
            /\ machine.disabledAt <= AutoTeleopGap
        BY <3>3, <4>2, PollClocks DEF IInv, GapAccounted
      <4>4. QED
        BY <1>4, <3>3, <4>3, PollClocks, Bounds
    <3>4. QED
      BY <3>1, <3>2, <3>3
  <2>6. GapAccounted'
    <3>1. offFor' # Nil => /\ offFor' < StopBound
                          /\ offFor' <= AutoTeleopGap + MaxStep + machine'.stopPendingAt
                                        + DetachSlack
      BY <2>2, <2>5, Bounds
    <3>2. QED
      BY <2>1, <3>1 DEF GapAccounted
  <2>7. QED
    BY <1>1, <2>1, <2>3, <2>4, <2>6 DEF eligible
<1>e. CASE StaysPending(e, machine', out', fms, trigger)
  <2>1. /\ ~eligible /\ out' = {} /\ recording' = recording
        /\ e.State = "StopPending" /\ machine'.State = "StopPending"
        /\ machine'.stopPendingAt = e.stopPendingAt /\ e.stopPendingAt < StopDelay
        /\ machine'.ntDisconnectedAt = Nil
    BY <1>1, <1>e DEF StaysPending, eligible
  <2>2. /\ machine'.stopPendingAt \in Int /\ machine'.stopPendingAt # Nil
        /\ machine'.stopPendingAt >= 0 - DetachSlack
        /\ machine'.stopPendingAt = machine.stopPendingAt + d
        /\ machine.stopPendingAt \in Int
        /\ machine'.stopPendingAt + DetachSlack >= 0
    BY <1>7, <2>1, PollClocks, Bounds, TimingAssumption
  <2>3. CallerAgrees' /\ TimersFitState' /\ OutageIsSilence'
    BY <1>5, <2>1, <2>2 DEF CallerAgrees, TimersFitState, OutageIsSilence
  <2>4. PendingIsQuiet'
    <3>1. quiet' = Horizon \/ (quiet' = quiet + d /\ quiet + d < Horizon)
      BY <1>1, <2>1, PollClocks, Bounds DEF Saturated, eligible
    <3>2. quiet' = Horizon \/ machine'.stopPendingAt <= quiet' + HeadStart
      BY <1>7, <2>1, <2>2, <3>1, PollClocks, Bounds
    <3>3. QED
      BY <2>2, <3>2, PollClocks DEF PendingIsQuiet
  <2>5. ASSUME offFor' # Nil
        PROVE  /\ offFor' \in Nat
               /\ offFor' <= AutoTeleopGap + MaxStep + machine'.stopPendingAt + DetachSlack
    <3>1. ~fms.Enabled
      BY <1>6, <2>5
    <3>2. CASE offFor = Nil
      BY <1>4, <2>2, <3>1, <3>2, Bounds
    <3>3. CASE offFor # Nil
      <4>1. offFor <= AutoTeleopGap + MaxStep + machine.stopPendingAt + DetachSlack
        BY <1>7, <2>1, <3>3 DEF IInv, GapAccounted
      <4>2. QED
        BY <1>4, <2>2, <3>1, <3>3, <4>1, PollClocks, Bounds
    <3>4. QED
      BY <3>2, <3>3
  <2>6. GapAccounted'
    <3>1. offFor' # Nil => offFor' < StopBound
      BY <2>1, <2>2, <2>5, Bounds
    <3>2. QED
      BY <2>1, <2>5, <3>1 DEF GapAccounted
  <2>7. QED
    BY <1>1, <2>1, <2>3, <2>4, <2>6 DEF eligible
<1>f. CASE Stops(e, machine', out', fms, trigger)
  <2>1. /\ ~eligible /\ out' = {"StopRecord"} /\ machine' = IdleMachine /\ recording' = FALSE
        /\ \/ e.State = "StopPending" /\ e.stopPendingAt >= StopDelay
           \/ StopDelay = 0
    BY <1>1, <1>f DEF Stops, eligible
  <2>2. quiet' >= ShortestHold
    <3>1. CASE StopDelay = 0
      BY <1>3, <1>8, <3>1
    <3>2. CASE e.State = "StopPending" /\ e.stopPendingAt >= StopDelay
      <4>1. quiet' = Horizon \/ (quiet' = quiet + d /\ quiet + d < Horizon)
        BY <1>1, <2>1, PollClocks, Bounds DEF Saturated, eligible
      <4>2. QED
        BY <1>7, <1>8, <3>2, <4>1, PollClocks, Bounds
    <3>3. QED
      BY <2>1, <3>1, <3>2
  <2>3. QED
    BY <1>1, <2>1, <2>2 DEF CallerAgrees, TimersFitState, PendingIsQuiet,
       OutageIsSilence, GapAccounted, IdleMachine, eligible
<1>z. QED
  BY <1>1, <1>a, <1>b, <1>c, <1>d, <1>e, <1>f DEF ConnectedOutcome

-----------------------------------------------------------------------------
(* The theorems *)

LEMMA InitInv == Init => IInv
<1> SUFFICES ASSUME Init PROVE IInv
  OBVIOUS
<1>1. /\ machine = IdleMachine /\ machine.State = "Idle" /\ machine.stopPendingAt = Nil
      /\ machine.ntDisconnectedAt = Nil /\ offFor = Nil /\ recording = FALSE
  BY DEF Init, IdleMachine
<1>2. TypeOK
  <2>1. Horizon \in 0..Horizon
    BY Bounds
  <2>2. machine \in Machine
    BY <1>1, IdleTyped
  <2>3. QED
    BY <2>1, <2>2 DEF Init, TypeOK
<1>3. QED
  BY <1>1, <1>2, Bounds DEF IInv, CallerAgrees, TimersFitState, PendingIsQuiet,
     OutageIsSilence, SilenceIsQuiet, GapAccounted, Init

LEMMA ResetInv == IInv /\ PausedReset => IInv'
<1> SUFFICES ASSUME IInv, PausedReset PROVE IInv'
  OBVIOUS
<1>1. /\ machine' = IdleMachine /\ machine'.State = "Idle" /\ machine'.stopPendingAt = Nil
      /\ machine'.ntDisconnectedAt = Nil /\ recording' = FALSE
  BY DEF PausedReset, IdleMachine
<1>2. TypeOK'
  BY <1>1, IdleTyped DEF PausedReset, TypeOK, IInv
<1>3. QED
  BY <1>1, <1>2 DEF IInv, CallerAgrees, TimersFitState, PendingIsQuiet, OutageIsSilence,
     SilenceIsQuiet, GapAccounted, PausedReset

LEMMA NextInv == IInv /\ [Next]_vars => IInv'
<1>1. ASSUME IInv, NEW fms \in FMSInputs, NEW d \in Steps, Poll(fms, d)
      PROVE  IInv'
  <2>1. TypeOK' /\ SilenceIsQuiet'
    BY <1>1, PollTyped
  <2>2. CASE fms.Raw < 0
    BY <1>1, <2>1, <2>2, PollDisconnected DEF IInv
  <2>3. CASE ~(fms.Raw < 0)
    BY <1>1, <2>1, <2>3, PollConnected DEF IInv
  <2>4. QED
    BY <2>2, <2>3
<1>2. ASSUME IInv, UNCHANGED vars
      PROVE  IInv'
  BY <1>2 DEF IInv, TypeOK, CallerAgrees, TimersFitState, PendingIsQuiet, OutageIsSilence,
     SilenceIsQuiet, GapAccounted, HeadStart, vars
<1>3. QED
  BY <1>1, <1>2, ResetInv DEF Next, Polls

THEOREM Invariance == Spec => []IInv
<1>1. QED
  BY InitInv, NextInv, PTL DEF Spec

\* Every variable keeps its type, in particular one Update never returns both
\* a start and a stop (machine.go Update).
THEOREM TypeCorrect == Spec => []TypeOK
<1>1. IInv => TypeOK
  BY DEF IInv
<1>2. QED
  BY <1>1, Invariance, PTL

\* The recording is on exactly when the machine is out of Idle.
THEOREM CallerAlwaysAgrees == Spec => []CallerAgrees
<1>1. IInv => CallerAgrees
  BY DEF IInv
<1>2. QED
  BY <1>1, Invariance, PTL

\* No timer survives the state it belongs to.
THEOREM TimersAlwaysFit == Spec => []TimersFitState
<1>1. IInv => TimersFitState
  BY DEF IInv
<1>2. QED
  BY <1>1, Invariance, PTL

\* A disabled robot is not recorded for longer than gap, stop delay and one
\* poll allow.
THEOREM AlwaysStopsInTime == Spec => []StopsInTime
<1>1. IInv => StopsInTime
  <2> SUFFICES ASSUME IInv, recording, offFor # Nil PROVE offFor < StopBound
    BY DEF StopsInTime
  <2>1. machine.State \in {"RecordingAuto", "StopPending"}
    BY DEF IInv, CallerAgrees, GapAccounted, TypeOK, Machine, State, Recording
  <2>2. CASE machine.State = "StopPending"
    BY <2>2 DEF IInv, GapAccounted
  <2>3. CASE machine.State = "RecordingAuto"
    <3>1. /\ machine.disabledAt # Nil /\ offFor <= machine.disabledAt
          /\ machine.disabledAt <= AutoTeleopGap
      BY <2>3 DEF IInv, GapAccounted
    <3>2. machine.disabledAt \in Int /\ offFor \in Nat
      BY <3>1 DEF IInv, TypeOK, Machine, Timer
    <3>3. QED
      BY <3>1, <3>2, Bounds
  <2>4. QED
    BY <2>1, <2>2, <2>3
<1>2. QED
  BY <1>1, Invariance, PTL

\* A recording is never stopped before the hold its cause asks for.
THEOREM NeverStopsEarly == Spec => NoEarlyStop
<1> DEFINE Early == out' = {"StopRecord"} =>
                      IF silent' > 0 THEN silent' > NTDisconnectGrace
                      ELSE quiet' >= ShortestHold
<1>1. IInv /\ [Next]_vars => [Early]_vars
  <2>1. ASSUME IInv, NEW fms \in FMSInputs, NEW d \in Steps, Poll(fms, d)
        PROVE  Early
    <3>1. CASE fms.Raw < 0
      BY <2>1, <3>1, PollDisconnected
    <3>2. CASE ~(fms.Raw < 0)
      <4>1. silent' = 0 /\ (out' = {"StopRecord"} => quiet' >= ShortestHold)
        BY <2>1, <3>2, PollConnected
      <4>2. ~(silent' > 0)
        BY <4>1
      <4>3. QED
        BY <4>1, <4>2
    <3>3. QED
      BY <3>1, <3>2
  <2>2. PausedReset => Early
    BY DEF PausedReset
  <2>3. QED
    BY <2>1, <2>2 DEF Next, Polls
<1>2. QED
  BY <1>1, Invariance, PTL DEF Spec, NoEarlyStop

\* The machine refines the recording contract: every poll is a triggered or a
\* quiet poll of the contract, and a pause is its forced stop.
THEOREM Refinement == Spec => ImplementsContract
<1>1. Init => Contract!Init
  BY DEF Init, Contract!Init
<1>2. IInv /\ [Next]_vars => [Contract!Next]_(Contract!vars)
  <2>1. ASSUME IInv, NEW fms \in FMSInputs, NEW d \in Steps, Poll(fms, d)
        PROVE  Contract!TriggeredPoll \/ Contract!QuietPoll(d)
    <3>1. recording' \in BOOLEAN /\ recording \in BOOLEAN
      BY <2>1, PollTyped DEF TypeOK, IInv
    <3>2. recording' # recording => out' # {}
      BY <2>1, <3>1 DEF Poll
    <3>3. out' \in {{}, {"StartRecord"}, {"StopRecord"}}
      BY <2>1, PollTyped DEF TypeOK
    <3>4. out' = {"StopRecord"} => recording' = FALSE
      BY <2>1 DEF Poll
    <3>5. MinHold <= NTDisconnectGrace + 1 /\ MinHold <= ShortestHold /\ MinHold \in Nat
          /\ ShortestHold \in Nat
      BY Bounds DEF MinHold, ShortestHold
    <3>6. quiet' \in Nat
      BY <2>1, PollTyped, Bounds DEF TypeOK
    <3>7. CASE fms.Raw < 0
      <4>1. quiet' = Saturated(quiet + d) /\ out' # {"StartRecord"}
            /\ (out' = {"StopRecord"} => silent' > NTDisconnectGrace)
        BY <2>1, <3>7, PollDisconnected
      <4>2. silent' <= quiet' /\ silent' \in Nat
        BY <2>1, PollTyped, Bounds DEF TypeOK, SilenceIsQuiet
      <4>3. out' = {"StopRecord"} => quiet' >= MinHold
        BY <3>5, <3>6, <4>1, <4>2, Bounds
      <4>4. QED
        BY <3>1, <3>2, <3>3, <3>4, <4>1, <4>3
           DEF Contract!QuietPoll, Contract!Saturated, Saturated
    <3>8. CASE ~(fms.Raw < 0) /\ shouldStartRecording(fms, trigger)
      <4>1. quiet' = 0 /\ recording' = TRUE
        BY <2>1, <3>8, PollConnected
      <4>2. QED
        BY <4>1 DEF Contract!TriggeredPoll
    <3>9. CASE ~(fms.Raw < 0) /\ ~shouldStartRecording(fms, trigger)
      <4>1. quiet' = Saturated(quiet + d) /\ out' # {"StartRecord"}
            /\ (out' = {"StopRecord"} => quiet' >= ShortestHold)
        BY <2>1, <3>9, PollConnected
      <4>2. out' = {"StopRecord"} => quiet' >= MinHold
        BY <3>5, <3>6, <4>1
      <4>3. QED
        BY <3>1, <3>2, <3>3, <3>4, <4>1, <4>2
           DEF Contract!QuietPoll, Contract!Saturated, Saturated
    <3>10. QED
      BY <3>7, <3>8, <3>9
  <2>2. PausedReset => Contract!ForcedStop
    BY DEF PausedReset, Contract!ForcedStop
  <2>3. UNCHANGED vars => UNCHANGED Contract!vars
    BY DEF vars, Contract!vars
  <2>4. QED
    BY <2>1, <2>2, <2>3 DEF Next, Polls, Contract!Next
<1>3. QED
  BY <1>1, <1>2, Invariance, PTL DEF Spec, ImplementsContract, Contract!Spec
=============================================================================
