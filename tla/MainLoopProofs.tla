--------------------------- MODULE MainLoopProofs ---------------------------
(***************************************************************************)
(* Proofs about cmd/ravenlink: MainLoop, for any delays, triggers, control *)
(* words, steps and buffers, and Lifecycle, for any requests and           *)
(* subsystems.                                                             *)
(***************************************************************************)
EXTENDS MainLoop, Lifecycle, TLAPS

\* What SessionAhead says of a session s and commands q.
Ahead(s, q) ==
  \/ s /\ NoneIn(q)
  \/ \E i \in DOMAIN q : q[i] = "start" /\ NoneIn(SubSeq(q, i + 1, Len(q)))

\* The call of a tick asks for what the machine has decided, and OBS, once it has
\* answered, does what it was asked for.
CallAgrees ==
  /\ pc = "obs" => (call = "start" <=> sm.State # "Idle")
  /\ call # "none" /\ settled => (obs <=> call = "start")

\* A pause the tick has seen has put the collection machine to rest.
PauseRests == pc = "record" /\ paused /\ ~touched => collectSM.State = "Idle"

\* What the loop knows of the field is a word the robot has published, or nothing.
WordOrOut == fms = FMSStateDisconnected \/ \E w \in ControlWords : fms = FMSStateFromRaw(w)

\* A tick that sees a live match goes on to its collection step unpaused.
FailsafeSeen == pc = "collect" /\ paused /\ ~touched => ~MatchLive(fms)

\* Machines hold their state on a negative word; on any other the failsafe works.
FailsafeWorks == fms.Raw >= 0 => FailsafeCollects

Failsafed == WordOrOut /\ FailsafeSeen /\ FailsafeWorks

IInv ==
  /\ TypeOK
  /\ SessionFollowsCollector
  /\ ObsFollowsMachine
  /\ CallAgrees
  /\ PauseRests
  /\ Failsafed

-----------------------------------------------------------------------------
(* Commands on their way *)

LEMMA NoneBehind ==
  ASSUME NEW q \in Seq(Commands), NEW i \in 1..Len(q)
  PROVE  NoneIn(SubSeq(q, i + 1, Len(q))) <=> \A j \in i + 1..Len(q) : q[j] \notin Lifecycle
<1> DEFINE r == SubSeq(q, i + 1, Len(q))
<1>1. /\ Len(q) \in Nat /\ DOMAIN r = 1..Len(q) - i
      /\ \A k \in 1..Len(q) - i : r[k] = q[i + k]
  OBVIOUS
<1>2. \A j \in i + 1..Len(q) : j - i \in 1..Len(q) - i /\ i + (j - i) = j
  BY <1>1
<1>3. \A k \in 1..Len(q) - i : i + k \in i + 1..Len(q)
  BY <1>1
<1> HIDE DEF r
<1>4. (\A k \in 1..Len(q) - i : r[k] \notin Lifecycle)
        <=> \A j \in i + 1..Len(q) : q[j] \notin Lifecycle
  BY <1>1, <1>2, <1>3
<1> QED
  BY <1>1, <1>4 DEF NoneIn, r

\* The last start or end decides.
LEMMA AheadIndexed ==
  ASSUME NEW q \in Seq(Commands), NEW s \in BOOLEAN
  PROVE  Ahead(s, q) <=>
           \/ s /\ \A j \in 1..Len(q) : q[j] \notin Lifecycle
           \/ \E i \in 1..Len(q) :
                q[i] = "start" /\ \A j \in i + 1..Len(q) : q[j] \notin Lifecycle
<1>1. DOMAIN q = 1..Len(q)
  OBVIOUS
<1> QED
  BY <1>1, NoneBehind DEF Ahead, NoneIn

LEMMA AheadOfAppend ==
  ASSUME NEW q \in Seq(Commands), NEW s \in BOOLEAN, NEW c \in Commands
  PROVE  /\ Append(q, c) \in Seq(Commands) /\ Len(Append(q, c)) = Len(q) + 1
         /\ c = "start" => Ahead(s, Append(q, c))
         /\ c = "end" => ~Ahead(s, Append(q, c))
         /\ c = "marker" => (Ahead(s, Append(q, c)) <=> Ahead(s, q))
<1> DEFINE r == Append(q, c)
<1>1. /\ r \in Seq(Commands) /\ Len(q) \in Nat /\ Len(r) = Len(q) + 1
      /\ r[Len(q) + 1] = c /\ \A j \in 1..Len(q) : r[j] = q[j]
  OBVIOUS
<1> HIDE DEF r
<1>2. c = "start" => Ahead(s, r)
  BY <1>1, AheadIndexed
<1>3. c = "end" => ~Ahead(s, r)
  BY <1>1, AheadIndexed DEF Lifecycle
<1>4. c = "marker" => (Ahead(s, r) <=> Ahead(s, q))
  <2> SUFFICES ASSUME c = "marker" PROVE Ahead(s, r) <=> Ahead(s, q)
    OBVIOUS
  <2>1. "marker" \notin Lifecycle
    BY DEF Lifecycle
  <2>2. \A i \in 0..Len(q) : (\A j \in i + 1..Len(r) : r[j] \notin Lifecycle)
                               <=> (\A j \in i + 1..Len(q) : q[j] \notin Lifecycle)
    BY <1>1, <2>1
  <2>3. (\A j \in 1..Len(r) : r[j] \notin Lifecycle)
          <=> (\A j \in 1..Len(q) : q[j] \notin Lifecycle)
    BY <1>1, <2>1
  <2>4. (\E i \in 1..Len(r) : r[i] = "start" /\ \A j \in i + 1..Len(r) : r[j] \notin Lifecycle)
          <=> (\E i \in 1..Len(q) :
                 q[i] = "start" /\ \A j \in i + 1..Len(q) : q[j] \notin Lifecycle)
    BY <1>1, <2>2
  <2> QED
    BY <1>1, <2>3, <2>4, AheadIndexed
<1> QED
  BY <1>1, <1>2, <1>3, <1>4 DEF r

LEMMA AheadOfTail ==
  ASSUME NEW q \in Seq(Commands), q # <<>>, NEW s \in BOOLEAN
  PROVE  /\ Tail(q) \in Seq(Commands) /\ Len(Tail(q)) = Len(q) - 1 /\ Head(q) \in Commands
         /\ Head(q) = "start" => (Ahead(s, q) <=> Ahead(TRUE, Tail(q)))
         /\ Head(q) = "end" => (Ahead(s, q) <=> Ahead(FALSE, Tail(q)))
         /\ Head(q) = "marker" => (Ahead(s, q) <=> Ahead(s, Tail(q)))
         /\ ~NoneIn(Tail(q)) => (Ahead(TRUE, Tail(q)) <=> Ahead(FALSE, Tail(q)))
<1> DEFINE r == Tail(q)
<1>1. /\ r \in Seq(Commands) /\ Len(q) \in Nat /\ Len(q) > 0 /\ Len(r) = Len(q) - 1
      /\ q[1] = Head(q) /\ q[1] \in Commands
      /\ \A j \in 1..Len(r) : r[j] = q[j + 1]
  OBVIOUS
<1> HIDE DEF r
<1>2. \A i \in 0..Len(r) : (\A j \in i + 1..Len(r) : r[j] \notin Lifecycle)
                             <=> (\A j \in i + 2..Len(q) : q[j] \notin Lifecycle)
  <2> SUFFICES ASSUME NEW i \in 0..Len(r)
      PROVE  (\A j \in i + 1..Len(r) : r[j] \notin Lifecycle)
               <=> (\A j \in i + 2..Len(q) : q[j] \notin Lifecycle)
    OBVIOUS
  <2>1. \A j \in i + 2..Len(q) : j - 1 \in i + 1..Len(r) /\ r[j - 1] = q[j]
    BY <1>1
  <2>2. \A j \in i + 1..Len(r) : j + 1 \in i + 2..Len(q) /\ r[j] = q[j + 1]
    BY <1>1
  <2> QED
    BY <2>1, <2>2
<1> DEFINE none == \A j \in 1..Len(r) : r[j] \notin Lifecycle
           later == \E i \in 1..Len(r) :
                      r[i] = "start" /\ \A j \in i + 1..Len(r) : r[j] \notin Lifecycle
<1>3. none <=> \A j \in 2..Len(q) : q[j] \notin Lifecycle
  BY <1>1, <1>2
<1>4. later <=> \E i \in 2..Len(q) :
        q[i] = "start" /\ \A j \in i + 1..Len(q) : q[j] \notin Lifecycle
  <2>1. ASSUME NEW i \in 1..Len(r), r[i] = "start", \A j \in i + 1..Len(r) : r[j] \notin Lifecycle
        PROVE  /\ i + 1 \in 2..Len(q) /\ q[i + 1] = "start"
               /\ \A j \in (i + 1) + 1..Len(q) : q[j] \notin Lifecycle
    BY <1>1, <1>2, <2>1
  <2>2. ASSUME NEW i \in 2..Len(q), q[i] = "start", \A j \in i + 1..Len(q) : q[j] \notin Lifecycle
        PROVE  /\ i - 1 \in 1..Len(r) /\ r[i - 1] = "start"
               /\ \A j \in (i - 1) + 1..Len(r) : r[j] \notin Lifecycle
    <3>1. i - 1 \in 1..Len(r) /\ (i - 1) + 1 = i /\ (i - 1) + 2 = i + 1
      BY <1>1
    <3> QED
      BY <1>1, <1>2, <2>2, <3>1
  <2> QED
    BY <2>1, <2>2
<1>5. \A t \in BOOLEAN : Ahead(t, r) <=> (t /\ none) \/ later
  BY <1>1, AheadIndexed
<1>6. Ahead(s, q) <=> \/ s /\ q[1] \notin Lifecycle /\ none
                      \/ q[1] = "start" /\ none
                      \/ later
  <2>1. (\A j \in 1..Len(q) : q[j] \notin Lifecycle) <=> q[1] \notin Lifecycle /\ none
    BY <1>1, <1>3
  <2>2. (\E i \in 1..Len(q) : q[i] = "start" /\ \A j \in i + 1..Len(q) : q[j] \notin Lifecycle)
          <=> (q[1] = "start" /\ none) \/ later
    BY <1>1, <1>3, <1>4
  <2> QED
    BY <2>1, <2>2, AheadIndexed
<1>7. NoneIn(r) <=> none
  BY <1>1 DEF NoneIn
<1>8. "start" \in Lifecycle /\ "end" \in Lifecycle /\ "marker" \notin Lifecycle
  BY DEF Lifecycle
<1> HIDE DEF none, later
<1> QED
  BY <1>1, <1>5, <1>6, <1>7, <1>8 DEF r

-----------------------------------------------------------------------------
(* The machines *)

LEMMA IdleTyped == IdleMachine \in Machine /\ IdleMachine.State = "Idle"
BY DEF IdleMachine, Machine, State, Timer

LEMMA ElapseTyped ==
  ASSUME NEW m \in Machine, NEW d \in Int
  PROVE  Elapse(m, d) \in Machine /\ Elapse(m, d).State = m.State
<1>1. \A t \in Timer : Older(t, d) \in Timer
  BY DEF Older, Timer
<1> QED
  BY <1>1 DEF Elapse, Machine

LEMMA WordsTyped ==
  /\ \A w \in ControlWords : FMSStateFromRaw(w) \in FMSState
  /\ FMSStateDisconnected \in FMSState
<1>1. \A value, bit : FlagSet(value, bit) \in BOOLEAN
  BY DEF FlagSet
<1> QED
  BY <1>1, MainLoopAssumption DEF FMSState, FMSStateFromRaw, FMSStateDisconnected

\* Start and stop are returned exactly when the machine leaves Idle and when it
\* comes back to it.
Agree(m, n, actions) ==
  \/ actions = {} /\ (m.State = "Idle" <=> n.State = "Idle")
  \/ actions = {"StartRecord"} /\ n.State # "Idle"
  \/ actions = {"StopRecord"} /\ n.State = "Idle"

LEMMA UpdateAgrees ==
  ASSUME NEW m \in Machine, NEW state \in FMSState, NEW t \in Trigger
  PROVE  LET r == Update(m, state, t)
         IN  r.machine \in Machine /\ Agree(m, r.machine, r.actions)
<1> DEFINE p == [m EXCEPT !.ntDisconnectedAt = Nil]
           q == Detached(p, state, t)
           s == EStopped(q, state)
           u == Transition(s, state, t)
<1>1. /\ 0 \in Timer /\ Nil \in Timer /\ StopDelay - DetachDelay \in Timer
      /\ {"Idle", "RecordingAuto", "RecordingTeleop", "StopPending"} \subseteq State
      /\ \A x \in State : x \in {"Idle", "RecordingAuto", "RecordingTeleop", "StopPending"}
      /\ Recording = {"RecordingAuto", "RecordingTeleop"}
  BY TimingAssumption DEF Timer, State, Recording
<1>2. LET r == UpdateDisconnected(m)
      IN  r.machine \in Machine /\ Agree(m, r.machine, r.actions)
  BY <1>1, IdleTyped DEF UpdateDisconnected, Returns, Machine, Agree
<1>3. p \in Machine /\ (p.State = "Idle" <=> m.State = "Idle")
  BY <1>1 DEF Machine
<1>4. q \in Machine /\ (q.State = "Idle" <=> m.State = "Idle")
  BY <1>1, <1>3 DEF Detached, Machine
<1>5. s \in Machine /\ (s.State = "Idle" <=> m.State = "Idle")
  BY <1>1, <1>4 DEF EStopped, Machine
<1> HIDE DEF p, q, s
<1>6. u.machine \in Machine /\ Agree(s, u.machine, u.actions)
  <2>1. CASE s.State = "Idle"
    BY <1>1, <1>5, <2>1 DEF Transition, UpdateIdle, Returns, Machine, Agree
  <2>2. CASE s.State = "RecordingAuto"
    BY <1>1, <1>5, <2>2 DEF Transition, UpdateAuto, Returns, Machine, Agree
  <2>3. CASE s.State = "RecordingTeleop"
    BY <1>1, <1>5, <2>3 DEF Transition, UpdateTeleop, Returns, Machine, Agree
  <2>4. CASE s.State = "StopPending"
    BY <1>1, <1>5, <2>4, IdleTyped DEF Transition, UpdateStopPending, Returns, Machine, Agree
  <2> QED
    BY <1>1, <1>5, <2>1, <2>2, <2>3, <2>4 DEF Machine
<1>7. Agree(m, u.machine, u.actions)
  BY <1>5, <1>6 DEF Agree
<1> QED
  BY <1>2, <1>6, <1>7 DEF Update, UpdateConnected, p, q, s

\* A machine that may start records afterwards, in whatever state it was: an
\* E-stop does not keep it from resuming.
LEMMA UpdateRecords ==
  ASSUME NEW m \in Machine, NEW state \in FMSState, NEW t \in Trigger,
         state.Raw >= 0, state.FMSAttached, shouldStartRecording(state, t)
  PROVE  Update(m, state, t).machine.State \in Recording
<1> DEFINE p == [m EXCEPT !.ntDisconnectedAt = Nil]
           s == EStopped(p, state)
<1>1. /\ 0 \in Timer /\ Nil \in Timer
      /\ {"Idle", "RecordingAuto", "RecordingTeleop", "StopPending"} \subseteq State
      /\ \A x \in State : x \in {"Idle", "RecordingAuto", "RecordingTeleop", "StopPending"}
      /\ Recording = {"RecordingAuto", "RecordingTeleop"}
  BY TimingAssumption DEF Timer, State, Recording
<1>2. state.Enabled
  BY DEF shouldStartRecording
<1>3. p \in Machine
  BY <1>1 DEF Machine
<1>4. s \in Machine
  BY <1>1, <1>3 DEF EStopped, Machine
<1>5. Update(m, state, t) = Transition(s, state, t)
  BY DEF Update, UpdateConnected, Detached, FMSState
<1> HIDE DEF p, s
<1>6. Transition(s, state, t).machine.State \in Recording
  <2>1. CASE s.State = "Idle"
    BY <1>1, <1>4, <2>1 DEF Transition, UpdateIdle, Returns, Machine
  <2>2. CASE s.State = "RecordingAuto"
    BY <1>1, <1>2, <1>4, <2>2 DEF Transition, UpdateAuto, Returns, Machine
  <2>3. CASE s.State = "RecordingTeleop"
    BY <1>1, <1>2, <1>4, <2>3 DEF Transition, UpdateTeleop, Returns, Machine
  <2>4. CASE s.State = "StopPending"
    BY <1>1, <1>4, <2>4 DEF Transition, UpdateStopPending, Returns, Machine
  <2> QED
    BY <1>1, <1>4, <2>1, <2>2, <2>3, <2>4 DEF Machine
<1> QED
  BY <1>5, <1>6

-----------------------------------------------------------------------------
(* The steps *)

LEMMA InitInv == Init => IInv
<1> SUFFICES ASSUME Init PROVE IInv
  OBVIOUS
<1>1. TypeOK
  <2>1. /\ FmsBuffer \in Nat /\ CmdBuffer \in Nat
        /\ <<>> \in Seq(ControlWords) /\ <<>> \in Seq(Commands) /\ Len(<<>>) = 0
    BY MainLoopAssumption
  <2>2. /\ fmsCh \in Seq(ControlWords) /\ Len(fmsCh) <= FmsBuffer
        /\ cmdCh \in Seq(Commands) /\ Len(cmdCh) <= CmdBuffer
    BY <2>1 DEF Init
  <2>3. fms \in FMSState /\ sm \in Machine /\ collectSM \in Machine
    BY IdleTyped, WordsTyped DEF Init
  <2> QED
    BY <2>2, <2>3 DEF Init, TypeOK
<1>2. SessionFollowsCollector
  BY IdleTyped DEF Init, SessionFollowsCollector, SessionAhead
<1>3. ObsFollowsMachine /\ CallAgrees /\ PauseRests
  BY IdleTyped DEF Init, ObsFollowsMachine, CallAgrees, PauseRests
<1>4. Failsafed
  BY DEF Init, Failsafed, WordOrOut, FailsafeSeen, FailsafeWorks, FailsafeCollects
<1> QED
  BY <1>1, <1>2, <1>3, <1>4 DEF IInv

LEMMA AheadNow == SessionAhead <=> Ahead(session, cmdCh)
BY DEF SessionAhead, Ahead

\* A command that is sent moves the session with it, unless it is lost.
LEMMA SendStep ==
  ASSUME IInv, NEW c \in Commands, Send(c), session' = session
  PROVE  /\ cmdCh' \in Seq(Commands) /\ Len(cmdCh') <= CmdBuffer /\ lost' \in BOOLEAN
         /\ ~lost' /\ c = "start" => SessionAhead'
         /\ ~lost' /\ c = "end" => ~SessionAhead'
         /\ ~lost' /\ c = "marker" => ~lost /\ (SessionAhead' <=> SessionAhead)
<1>1. cmdCh \in Seq(Commands) /\ session \in BOOLEAN /\ lost \in BOOLEAN /\ Len(cmdCh) <= CmdBuffer
  BY DEF IInv, TypeOK
<1>2. /\ "start" \in Lifecycle /\ "end" \in Lifecycle /\ "marker" \notin Lifecycle
      /\ CmdBuffer \in Nat /\ Len(cmdCh) \in Nat
  BY <1>1, MainLoopAssumption DEF Lifecycle
<1>3. /\ SessionAhead <=> Ahead(session, cmdCh)
      /\ SessionAhead' <=> Ahead(session, cmdCh')
  BY AheadNow DEF SessionAhead, Ahead
<1>4. CASE Len(cmdCh) < CmdBuffer
  <2>1. cmdCh' = Append(cmdCh, c) /\ lost' = (lost /\ c \notin Lifecycle)
    BY <1>4 DEF Send
  <2>2. cmdCh' \in Seq(Commands) /\ Len(cmdCh') <= CmdBuffer
    BY <1>1, <1>2, <1>4, <2>1, AheadOfAppend
  <2>3. lost' \in BOOLEAN
    BY <2>1
  <2>4. /\ c = "start" => Ahead(session, cmdCh')
        /\ c = "end" => ~Ahead(session, cmdCh')
        /\ c = "marker" => (Ahead(session, cmdCh') <=> Ahead(session, cmdCh))
    BY <1>1, <2>1, AheadOfAppend
  <2>5. c = "marker" => lost' = lost
    BY <1>1, <1>2, <2>1
  <2> QED
    BY <1>3, <2>2, <2>3, <2>4, <2>5
<1>5. CASE ~(Len(cmdCh) < CmdBuffer)
  <2>1. cmdCh' = cmdCh /\ lost' = (lost \/ c \in Lifecycle)
    BY <1>5 DEF Send
  <2>2. lost' \in BOOLEAN
    BY <2>1
  <2>3. c \in {"start", "end"} => lost'
    BY <1>2, <2>1
  <2>4. c = "marker" => lost' = lost
    BY <1>1, <1>2, <2>1
  <2> QED
    BY <1>1, <1>3, <2>1, <2>2, <2>3, <2>4
<1> QED
  BY <1>4, <1>5

\* The environment: robot, dashboard, end of the context.
LEMMA EnvironmentStep ==
  ASSUME IInv, Environment \/ CloseChannels
  PROVE  IInv'
<1> USE DEF IInv
<1>1. /\ UNCHANGED <<fms, sm, collectSM, pc, cmdCh, session, loggerDone, lost, call>>
      /\ {cancelled', connected', closed', paused', touched'} \subseteq BOOLEAN
  <2>1. {cancelled, connected, closed, paused, touched} \subseteq BOOLEAN
    BY DEF TypeOK
  <2>2. ASSUME NEW w \in ControlWords, Publish(w)
        PROVE  /\ UNCHANGED <<fms, sm, collectSM, pc, cmdCh, session, loggerDone, lost, call>>
               /\ {cancelled', connected', closed', paused', touched'} \subseteq BOOLEAN
    BY <2>1, <2>2 DEF Publish, loop, logger, video
  <2>3. ASSUME DisturbOBS
        PROVE  /\ UNCHANGED <<fms, sm, collectSM, pc, cmdCh, session, loggerDone, lost, call>>
               /\ {cancelled', connected', closed', paused', touched'} \subseteq BOOLEAN
    BY <2>1, <2>3 DEF DisturbOBS, OBS!ServeLate, loop, robot, logger
  <2> QED
    BY <2>1, <2>2, <2>3 DEF Environment, CloseChannels, Connect, Pause, Resume, Cancel, loop,
                            robot, logger, video
<1>2. fmsCh' \in Seq(ControlWords) /\ Len(fmsCh') <= FmsBuffer
  <2>1. fmsCh \in Seq(ControlWords) /\ Len(fmsCh) <= FmsBuffer /\ FmsBuffer \in Nat
    BY MainLoopAssumption DEF TypeOK
  <2>2. ASSUME NEW w \in ControlWords, Publish(w)
        PROVE  fmsCh' \in Seq(ControlWords) /\ Len(fmsCh') <= FmsBuffer
    BY <2>1, <2>2 DEF Publish
  <2> QED
    BY <2>1, <2>2 DEF Environment, CloseChannels, Connect, Pause, Resume, Cancel, DisturbOBS,
                      robot
\* OBS moves, but never without settled telling.
<1>3. /\ obs' \in BOOLEAN /\ settled' \in BOOLEAN
      /\ settled' => settled /\ obs' = obs
  <2>1. obs \in BOOLEAN /\ settled \in BOOLEAN
    BY DEF TypeOK
  <2>2. CASE DisturbOBS
    <3>1. PICK k \in {"start", "stop"} : obs' = (k = "start")
      BY <2>2 DEF DisturbOBS, OBS!ServeLate
    <3>2. settled' = (settled /\ obs' = obs)
      BY <2>2 DEF DisturbOBS, OBS!ServeLate
    <3> QED
      BY <2>1, <3>1, <3>2
  <2>3. ASSUME NEW w \in ControlWords, Publish(w)
        PROVE  UNCHANGED <<obs, settled>>
    BY <2>3 DEF Publish, video
  <2> QED
    BY <2>1, <2>2, <2>3 DEF Environment, CloseChannels, Connect, Pause, Resume, Cancel, video
<1>4. TypeOK'
  BY <1>1, <1>2, <1>3 DEF TypeOK
<1>5. SessionFollowsCollector' /\ ObsFollowsMachine' /\ CallAgrees'
  BY <1>1, <1>3 DEF SessionFollowsCollector, SessionAhead, ObsFollowsMachine, CallAgrees
<1>6. paused' /\ ~touched' => paused /\ ~touched
  <2>1. ASSUME NEW w \in ControlWords, Publish(w)
        PROVE  paused' = paused /\ touched' = touched
    BY <2>1 DEF Publish
  <2> QED
    BY <2>1 DEF Environment, CloseChannels, Connect, Pause, Resume, Cancel, DisturbOBS
<1>7. PauseRests'
  BY <1>1, <1>6 DEF PauseRests
<1>8. ~touched' => ~touched
  <2>1. ASSUME NEW w \in ControlWords, Publish(w)
        PROVE  touched' = touched
    BY <2>1 DEF Publish
  <2> QED
    BY <2>1 DEF Environment, CloseChannels, Connect, Pause, Resume, Cancel, DisturbOBS
<1>9. Failsafed'
  BY <1>1, <1>6, <1>8 DEF Failsafed, WordOrOut, FailsafeSeen, FailsafeWorks, FailsafeCollects
<1> QED
  BY <1>4, <1>5, <1>7, <1>9

\* The logger takes a command or returns.
LEMMA LoggerStep ==
  ASSUME IInv, Receive \/ Return
  PROVE  IInv'
<1> USE DEF IInv
<1>1. UNCHANGED <<cancelled, connected, fmsCh, closed, fms, sm, collectSM, pc, paused,
                  touched, obs, call, settled>>
  BY DEF Receive, Return, robot, loop, video
<1>2. /\ cmdCh \in Seq(Commands) /\ Len(cmdCh) <= CmdBuffer /\ Len(cmdCh) \in Nat
      /\ session \in BOOLEAN /\ lost \in BOOLEAN /\ CmdBuffer \in Nat
  BY MainLoopAssumption DEF TypeOK
<1>3. ObsFollowsMachine' /\ CallAgrees' /\ PauseRests' /\ Failsafed'
  BY <1>1 DEF ObsFollowsMachine, CallAgrees, PauseRests, Failsafed, WordOrOut, FailsafeSeen,
              FailsafeWorks, FailsafeCollects
<1>4. CASE Return
  <2>1. cmdCh' = cmdCh /\ lost' = lost /\ loggerDone' = TRUE /\ session' = FALSE
    BY <1>4 DEF Return
  <2>2. TypeOK'
    BY <1>1, <2>1 DEF TypeOK
  <2>3. SessionFollowsCollector'
    BY <2>1 DEF SessionFollowsCollector
  <2> QED
    BY <1>3, <2>2, <2>3
<1>5. CASE Receive
  <2>1. /\ cmdCh # <<>> /\ cmdCh' = Tail(cmdCh) /\ loggerDone' = loggerDone
        /\ Head(cmdCh) \in Commands
    BY <1>2, <1>5, AheadOfTail DEF Receive
  <2>2. Head(cmdCh) \in {"start", "end", "marker"}
    BY <2>1 DEF Commands, Lifecycle
  <2>3. /\ session' \in BOOLEAN /\ lost' \in BOOLEAN
        /\ ~lost' => ~lost /\ (Ahead(session, cmdCh) <=> Ahead(session', Tail(cmdCh)))
    <3>1. CASE Head(cmdCh) = "start"
      <4>1. /\ session' \in BOOLEAN
            /\ lost' = (lost \/ (~session' /\ NoneIn(Tail(cmdCh))))
        BY <1>5, <3>1 DEF Receive
      <4>2. lost' \in BOOLEAN /\ (~lost' => ~lost /\ (session' = TRUE \/ ~NoneIn(Tail(cmdCh))))
        BY <4>1
      <4>3. session' = TRUE \/ session' = FALSE
        BY <4>1
      <4>4. /\ Ahead(session, cmdCh) <=> Ahead(TRUE, Tail(cmdCh))
            /\ ~NoneIn(Tail(cmdCh)) => (Ahead(TRUE, Tail(cmdCh)) <=> Ahead(FALSE, Tail(cmdCh)))
        BY <1>2, <2>1, <3>1, AheadOfTail
      <4>5. CASE session' = TRUE
        BY <4>1, <4>2, <4>4, <4>5
      <4>6. CASE session' = FALSE
        BY <4>1, <4>2, <4>4, <4>6
      <4> QED
        BY <4>3, <4>5, <4>6
    <3>2. CASE Head(cmdCh) = "end"
      <4>1. session' = FALSE /\ lost' = lost
        BY <1>5, <3>2 DEF Receive
      <4> QED
        BY <1>2, <2>1, <3>2, <4>1, AheadOfTail
    <3>3. CASE Head(cmdCh) = "marker"
      <4>1. session' = session /\ lost' = lost
        BY <1>5, <3>3 DEF Receive
      <4> QED
        BY <1>2, <2>1, <3>3, <4>1, AheadOfTail
    <3> QED
      BY <2>2, <3>1, <3>2, <3>3
  <2>4. TypeOK'
    <3>1. cmdCh' \in Seq(Commands) /\ Len(cmdCh') <= CmdBuffer
      BY <1>2, <2>1, AheadOfTail
    <3> QED
      BY <1>1, <2>1, <2>3, <3>1 DEF TypeOK
  <2>5. SessionAhead' <=> Ahead(session', Tail(cmdCh))
    BY <2>1 DEF SessionAhead, Ahead
  <2>6. SessionFollowsCollector'
    BY <1>1, <2>1, <2>3, <2>5, AheadNow DEF SessionFollowsCollector
  <2> QED
    BY <1>3, <2>4, <2>6
<1> QED
  BY <1>4, <1>5

\* The loop reads a control word, or leaves.
LEMMA SelectStep ==
  ASSUME IInv, ReadFms \/ Leave
  PROVE  IInv'
<1> USE DEF IInv
<1>1. /\ UNCHANGED <<cancelled, connected, closed, sm, collectSM, paused, touched,
                     cmdCh, session, loggerDone, lost>>
      /\ pc = "select" /\ pc' \in {"select", "last", "done"}
  BY DEF ReadFms, Leave, CtxDone, FmsClosed, robot, logger
<1>2. /\ SessionFollowsCollector' /\ PauseRests'
      /\ FailsafeSeen' /\ FailsafeWorks'
  BY <1>1 DEF SessionFollowsCollector, SessionAhead, PauseRests, FailsafeSeen,
              FailsafeWorks, FailsafeCollects
<1>3. CASE ReadFms
  <2>1. fmsCh \in Seq(ControlWords) /\ Len(fmsCh) <= FmsBuffer /\ FmsBuffer \in Nat
    BY MainLoopAssumption DEF TypeOK
  <2>2. /\ fmsCh # <<>> /\ fmsCh' = Tail(fmsCh) /\ fms' = FMSStateFromRaw(Head(fmsCh))
        /\ UNCHANGED <<obs, call, settled, pc>>
    BY <1>3 DEF ReadFms, video
  <2>3. fmsCh' \in Seq(ControlWords) /\ Len(fmsCh') <= FmsBuffer /\ Head(fmsCh) \in ControlWords
    BY <2>1, <2>2
  <2>4. fms' \in FMSState
    BY <2>2, <2>3, WordsTyped
  <2>5. TypeOK'
    BY <1>1, <2>2, <2>3, <2>4 DEF TypeOK
  <2>6. ObsFollowsMachine' /\ CallAgrees'
    BY <1>1, <2>2 DEF ObsFollowsMachine, CallAgrees
  <2>7. WordOrOut'
    BY <2>2, <2>3 DEF WordOrOut
  <2> QED
    BY <1>2, <2>5, <2>6, <2>7 DEF Failsafed
<1>4. CASE Leave
  <2>1. /\ UNCHANGED <<fmsCh, fms, obs>>
        /\ \/ pc' = "last" /\ call' = "stop" /\ settled' = FALSE
           \/ pc' = "done" /\ UNCHANGED <<call, settled>>
    BY <1>4 DEF Leave, CtxDone, FmsClosed, OBS!Begin, robot, video
  <2>2. TypeOK'
    BY <1>1, <2>1 DEF TypeOK, OBS!Requests
  <2>3. ObsFollowsMachine' /\ CallAgrees'
    BY <1>1, <2>1 DEF ObsFollowsMachine, CallAgrees
  <2>4. WordOrOut'
    BY <2>1 DEF WordOrOut, Failsafed
  <2> QED
    BY <1>2, <2>2, <2>3, <2>4 DEF Failsafed
<1> QED
  BY <1>3, <1>4

LEMMA TickStep ==
  ASSUME IInv, Ticks
  PROVE  IInv'
<1> USE DEF IInv
<1>1. PICK d \in Steps : Tick(d)
  BY DEF Ticks
<1>2. /\ UNCHANGED <<cancelled, connected, fmsCh, closed, cmdCh, session, loggerDone, lost, obs,
                     call, settled>>
      /\ pc = "select" /\ pc' = "collect" /\ touched' = FALSE
      /\ fms' = IF connected THEN fms ELSE FMSStateDisconnected
      /\ paused' = Failsafe(fms')
      /\ sm' = Elapse(sm, d) /\ collectSM' = Elapse(collectSM, d)
  BY <1>1 DEF Tick, robot, logger, video
<1>3. /\ sm' \in Machine /\ sm'.State = sm.State
      /\ collectSM' \in Machine /\ collectSM'.State = collectSM.State
  <2>1. d \in Int /\ sm \in Machine /\ collectSM \in Machine
    BY MainLoopAssumption DEF TypeOK
  <2> QED
    BY <1>2, <2>1, ElapseTyped
<1>4. fms' \in FMSState
  BY <1>2, WordsTyped DEF TypeOK
<1>5. paused' \in BOOLEAN
  BY <1>2 DEF Failsafe
<1>6. TypeOK'
  BY <1>2, <1>3, <1>4, <1>5 DEF TypeOK
<1>7. SessionFollowsCollector'
  BY <1>2, <1>3 DEF SessionFollowsCollector, SessionAhead
<1>8. ObsFollowsMachine' /\ CallAgrees' /\ PauseRests'
  BY <1>2, <1>3 DEF ObsFollowsMachine, CallAgrees, PauseRests
<1>9. Failsafed'
  BY <1>2 DEF Failsafed, WordOrOut, FailsafeSeen, FailsafeWorks, FailsafeCollects, Failsafe
<1> QED
  BY <1>6, <1>7, <1>8, <1>9

LEMMA CollectStep ==
  ASSUME IInv, Collect
  PROVE  IInv'
<1> USE DEF IInv
<1>1. /\ UNCHANGED <<cancelled, connected, fmsCh, closed, fms, sm, paused, touched,
                     session, loggerDone, obs, call, settled>>
      /\ pc = "collect" /\ pc' = "record"
      /\ paused => CollectPaused
      /\ ~paused => CollectRunning
  BY DEF Collect, robot, video
<1>2. /\ cmdCh \in Seq(Commands) /\ Len(cmdCh) <= CmdBuffer /\ lost \in BOOLEAN
      /\ session \in BOOLEAN /\ collectSM \in Machine /\ fms \in FMSState
      /\ "start" \in Commands /\ "end" \in Commands
  BY DEF TypeOK, Commands, Lifecycle
\* What either branch does to the collection machine and to the commands.
<1> DEFINE Kept == /\ UNCHANGED <<cmdCh, lost>>
                   /\ collectSM.State = "Idle" <=> collectSM'.State = "Idle"
           Sent == \/ Send("start") /\ collectSM'.State # "Idle"
                   \/ Send("end") /\ collectSM'.State = "Idle"
<1>3. collectSM' \in Machine /\ (Kept \/ Sent) /\ (paused => collectSM'.State = "Idle")
  <2>1. CASE paused
    <3>1. CASE collectSM.State # "Idle"
      BY <1>1, <2>1, <3>1, IdleTyped DEF CollectPaused
    <3>2. CASE collectSM.State = "Idle"
      BY <1>1, <1>2, <2>1, <3>2 DEF CollectPaused
    <3> QED
      BY <3>1, <3>2
  <2>2. CASE ~paused
    <3> DEFINE result == Update(collectSM, fms, CollectTrigger)
    <3>1. result.machine \in Machine /\ Agree(collectSM, result.machine, result.actions)
      BY <1>2, MainLoopAssumption, UpdateAgrees
    <3>2. /\ collectSM' = result.machine
          /\ CASE "StartRecord" \in result.actions -> Send("start")
               [] "StopRecord" \in result.actions  -> Send("end")
               [] OTHER -> UNCHANGED <<cmdCh, lost>>
      BY <1>1, <2>2 DEF CollectRunning
    <3> HIDE DEF result
    <3>3. CASE result.actions = {} /\ (collectSM.State = "Idle" <=> result.machine.State = "Idle")
      BY <2>2, <3>1, <3>2, <3>3
    <3>4. CASE result.actions = {"StartRecord"} /\ result.machine.State # "Idle"
      BY <2>2, <3>1, <3>2, <3>4
    <3>5. CASE result.actions = {"StopRecord"} /\ result.machine.State = "Idle"
      <4>1. "StartRecord" \notin result.actions /\ "StopRecord" \in result.actions
        BY <3>5
      <4> QED
        BY <2>2, <3>1, <3>2, <3>5, <4>1
    <3> QED
      BY <3>1, <3>3, <3>4, <3>5 DEF Agree
  <2> QED
    BY <1>2, <2>1, <2>2 DEF TypeOK
<1>4. /\ cmdCh' \in Seq(Commands) /\ Len(cmdCh') <= CmdBuffer /\ lost' \in BOOLEAN
      /\ ~lost' /\ ~loggerDone' => (SessionAhead' <=> collectSM'.State # "Idle")
  <2>1. CASE Kept
    BY <1>1, <1>2, <2>1 DEF SessionFollowsCollector, SessionAhead
  <2>2. CASE Send("start") /\ collectSM'.State # "Idle"
    BY <1>1, <1>2, <2>2, SendStep
  <2>3. CASE Send("end") /\ collectSM'.State = "Idle"
    BY <1>1, <1>2, <2>3, SendStep
  <2> QED
    BY <1>3, <2>1, <2>2, <2>3
<1>5. TypeOK'
  BY <1>1, <1>3, <1>4 DEF TypeOK
<1>6. SessionFollowsCollector' /\ PauseRests'
  BY <1>1, <1>3, <1>4 DEF SessionFollowsCollector, PauseRests
<1>7. ObsFollowsMachine' /\ CallAgrees'
  BY <1>1 DEF ObsFollowsMachine, CallAgrees
<1>8. FailsafeWorks'
  <2> SUFFICES ASSUME fms.Raw >= 0, MatchLive(fms), shouldStartRecording(fms, CollectTrigger),
                      ~touched
      PROVE  collectSM'.State \in Recording
    BY <1>1 DEF FailsafeWorks, FailsafeCollects
  <2>1. ~paused
    BY <1>1 DEF Failsafed, FailsafeSeen
  <2>2. collectSM' = Update(collectSM, fms, CollectTrigger).machine
    BY <1>1, <2>1 DEF CollectRunning
  <2> QED
    BY <1>2, <2>2, UpdateRecords, MainLoopAssumption DEF MatchLive
<1>9. Failsafed'
  BY <1>1, <1>8 DEF Failsafed, WordOrOut, FailsafeSeen
<1> QED
  BY <1>5, <1>6, <1>7, <1>9

LEMMA RecordStep ==
  ASSUME IInv, Record
  PROVE  IInv'
<1> USE DEF IInv
<1> DEFINE result == Update(sm, fms, RecordTrigger)
<1>1. /\ UNCHANGED <<cancelled, connected, fmsCh, closed, fms, collectSM, paused, touched,
                     session, loggerDone>>
      /\ pc = "record" /\ sm' = result.machine /\ RunActions(result.actions)
      /\ Send("marker") \/ UNCHANGED <<cmdCh, lost>>
  BY DEF Record, robot
<1>2. sm' \in Machine /\ Agree(sm, sm', result.actions)
  BY <1>1, MainLoopAssumption, UpdateAgrees DEF TypeOK
<1> HIDE DEF result
<1>3. /\ cmdCh' \in Seq(Commands) /\ Len(cmdCh') <= CmdBuffer /\ lost' \in BOOLEAN
      /\ ~lost' => ~lost /\ (SessionAhead' <=> SessionAhead)
  <2>1. "marker" \in Commands
    BY DEF Commands
  <2>2. CASE Send("marker")
    BY <1>1, <2>1, <2>2, SendStep
  <2>3. CASE UNCHANGED <<cmdCh, lost>>
    BY <1>1, <2>3 DEF TypeOK, SessionAhead
  <2> QED
    BY <1>1, <2>2, <2>3
\* A call begins, or there is nothing to do.
<1>4. /\ obs' = obs
      /\ \/ pc' = "obs" /\ call' = "start" /\ settled' = FALSE /\ sm'.State # "Idle"
         \/ pc' = "obs" /\ call' = "stop" /\ settled' = FALSE /\ sm'.State = "Idle"
         \/ /\ pc' = "select" /\ UNCHANGED <<call, settled>>
            /\ sm.State = "Idle" <=> sm'.State = "Idle"
  <2>1. CASE result.actions = {} /\ (sm.State = "Idle" <=> sm'.State = "Idle")
    BY <1>1, <2>1 DEF RunActions, video
  <2>2. CASE result.actions = {"StartRecord"} /\ sm'.State # "Idle"
    <3>1. "StopRecord" \notin result.actions /\ result.actions # {}
      BY <2>2
    <3> QED
      BY <1>1, <2>2, <3>1 DEF RunActions, OBS!Begin
  <2>3. CASE result.actions = {"StopRecord"} /\ sm'.State = "Idle"
    <3>1. "StartRecord" \notin result.actions /\ result.actions # {}
      BY <2>3
    <3> QED
      BY <1>1, <2>3, <3>1 DEF RunActions, OBS!Begin
  <2> QED
    BY <1>2, <2>1, <2>2, <2>3 DEF Agree
<1>5. TypeOK'
  BY <1>1, <1>2, <1>3, <1>4 DEF TypeOK, OBS!Requests
<1>6. SessionFollowsCollector' /\ PauseRests'
  BY <1>1, <1>3, <1>4 DEF SessionFollowsCollector, PauseRests
<1>7. ObsFollowsMachine'
  BY <1>1, <1>4 DEF ObsFollowsMachine
<1>8. CallAgrees'
  BY <1>1, <1>4 DEF CallAgrees, TypeOK
<1>9. Failsafed'
  BY <1>1, <1>4 DEF Failsafed, WordOrOut, FailsafeSeen, FailsafeWorks, FailsafeCollects
<1> QED
  BY <1>5, <1>6, <1>7, <1>8, <1>9

\* What goes on while the loop waits for a call, and its return.
LEMMA CallStep ==
  ASSUME IInv, Calling
  PROVE  IInv'
<1> USE DEF IInv
<1>1. UNCHANGED <<cancelled, connected, fmsCh, closed, fms, sm, collectSM, paused, touched,
                  cmdCh, session, loggerDone, lost>>
  BY DEF Calling, robot, logger
<1>2. /\ call \in {"start", "stop"} /\ pc \in {"obs", "last"}
      /\ obs \in BOOLEAN /\ settled \in BOOLEAN
  BY DEF Calling, OBS!Serve, OBS!GiveUp, OBS!Return, TypeOK, OBS!Requests
<1>3. \/ /\ UNCHANGED <<pc, call>> /\ obs' = (call = "start") /\ settled' = TRUE
      \/ UNCHANGED <<pc, call, obs>> /\ settled' = FALSE
      \/ /\ UNCHANGED <<obs, settled>> /\ call' = "none"
         /\ pc' = IF pc = "obs" THEN "select" ELSE "done"
  BY DEF Calling, OBS!Serve, OBS!GiveUp, OBS!Return
<1>4. TypeOK'
  BY <1>1, <1>2, <1>3 DEF TypeOK
<1>5. ObsFollowsMachine'
  BY <1>1, <1>2, <1>3 DEF ObsFollowsMachine, CallAgrees
<1>6. CallAgrees'
  BY <1>1, <1>2, <1>3 DEF CallAgrees
<1>7. SessionFollowsCollector' /\ PauseRests'
  BY <1>1, <1>2, <1>3 DEF SessionFollowsCollector, SessionAhead, PauseRests
<1>8. Failsafed'
  BY <1>1, <1>2, <1>3 DEF Failsafed, WordOrOut, FailsafeSeen, FailsafeWorks, FailsafeCollects
<1> QED
  BY <1>4, <1>5, <1>6, <1>7, <1>8

LEMMA NextInv == IInv /\ [Next]_vars => IInv'
<1> SUFFICES ASSUME IInv, [Next]_vars PROVE IInv'
  OBVIOUS
<1>1. CASE Environment \/ CloseChannels
  BY <1>1, EnvironmentStep
<1>2. CASE Receive \/ Return
  BY <1>2, LoggerStep
<1>3. CASE ReadFms \/ Leave
  BY <1>3, SelectStep
<1>4. CASE Ticks
  BY <1>4, TickStep
<1>5. CASE Rest
  BY <1>5, CollectStep, RecordStep, CallStep DEF Rest
<1>6. CASE UNCHANGED vars
  BY <1>6 DEF IInv, TypeOK, SessionFollowsCollector, SessionAhead, ObsFollowsMachine,
              CallAgrees, PauseRests, Failsafed, WordOrOut, FailsafeSeen, FailsafeWorks,
              FailsafeCollects, vars, robot, loop, logger, video
<1> QED
  BY <1>1, <1>2, <1>3, <1>4, <1>5, <1>6 DEF Next

LEMMA Inductive == Spec => []IInv
BY InitInv, NextInv, PTL DEF Spec

-----------------------------------------------------------------------------
(* The theorems *)

\* Every variable of the loop, its channels and its machines keeps its type, and
\* the channels never exceed their buffers.
THEOREM TypeCorrect == Spec => []TypeOK
<1>1. IInv => TypeOK
  BY DEF IInv
<1> QED
  BY <1>1, Inductive, PTL

\* Unless a start or end was lost, a session is open or about to be exactly while
\* the collection machine is out of Idle, through every pause and outage.
THEOREM SessionsFollow == Spec => []SessionFollowsCollector
<1>1. IInv => SessionFollowsCollector
  BY DEF IInv
<1> QED
  BY <1>1, Inductive, PTL

\* Between two calls OBS records exactly while the recording machine is out of
\* Idle, from the moment OBS has answered a call until it changes of itself: by a
\* quit, or by a request the client has given up on (client.go:331).
THEOREM ObsFollows == Spec => []ObsFollowsMachine
<1>1. IInv => ObsFollowsMachine
  BY DEF IInv
<1> QED
  BY <1>1, Inductive, PTL

\* A pause that a tick has seen leaves no session open or about to be, unless the
\* command to end it was lost.
THEOREM PauseEnds == Spec => []PauseEndsSession
<1>1. IInv => PauseEndsSession
  BY DEF IInv, PauseRests, SessionFollowsCollector, PauseEndsSession
<1> QED
  BY <1>1, Inductive, PTL

\* In a tick that sees a live match, a pause set before it no longer keeps data
\* from being collected when the match markers are written (main.go:651-656).
\* The control word is a 6-bit mask (fmsstate.go:21), so it is not negative: a
\* negative number is the machines' own sign of a robot that is out of reach.
THEOREM FailsafeHolds ==
  ASSUME ControlWords \subseteq Nat
  PROVE  Spec => []FailsafeCollects
<1>1. ASSUME IInv PROVE FailsafeCollects
  <2>1. CASE fms = FMSStateDisconnected
    BY <2>1 DEF FMSStateDisconnected, FailsafeCollects, MatchLive
  <2>2. ASSUME NEW w \in ControlWords, fms = FMSStateFromRaw(w)
        PROVE  fms.Raw >= 0
    BY <2>2 DEF FMSStateFromRaw
  <2> QED
    BY <1>1, <2>1, <2>2 DEF IInv, Failsafed, WordOrOut, FailsafeWorks
<1> QED
  BY <1>1, Inductive, PTL

-----------------------------------------------------------------------------
(* The end of the process: Lifecycle *)

\* A restart that is about to cancel a live context has set its flag.
FlagBeforeCancel ==
  \A r \in Requests :
    kind[r] = "restart" /\ hook[r] = "cancel" /\ ~ctxDone => restart = "yes"

\* The restart that cancelled first has set its flag in time.
CauseFlagged ==
  \A r \in Requests : cause = r /\ kind[r] = "restart" => restart = "yes"

\* A context that is live has no cause and no late flag.
LateMeansDone == ~ctxDone => cause = None /\ restart # "late"

\* Only a process without a timely flag exits.
ExitUnflagged == outcome = "exited" => restart # "yes"

\* Nobody but the menu, which the tray starts, closes quitCh, and only a closed
\* channel panics.
ClosedByMenu ==
  /\ quitClosed => menu \in {"stopping", "gone"}
  /\ outcome = "panicked" => quitClosed
  /\ tray = "off" => menu = "off"

EndInv ==
  /\ EndTypeOK
  /\ FlagBeforeCancel
  /\ CauseFlagged
  /\ LateMeansDone
  /\ ExitUnflagged
  /\ ClosedByMenu

LEMMA EndInitInv == EndInit => EndInv
BY LifecycleAssumption
DEF EndInit, EndInv, EndTypeOK, FlagBeforeCancel, CauseFlagged, LateMeansDone, ExitUnflagged,
    ClosedByMenu

\* The steps of the hooks.
LEMMA HookStep ==
  ASSUME EndInv, NEW r \in Requests, Ask(r) \/ Hook(r)
  PROVE  EndInv'
<1> USE LifecycleAssumption
        DEF EndInv, EndTypeOK, FlagBeforeCancel, CauseFlagged, LateMeansDone, ExitUnflagged,
            ClosedByMenu, Alive
<1>1. CASE Ask(r)
  BY <1>1 DEF Ask, channels, icon
<1>2. CASE Fire(r)
  <2>1. /\ hook[r] = "delay"
        /\ hook' = [hook EXCEPT ![r] = IF kind[r] = "restart" THEN "flag" ELSE "cancel"]
        /\ UNCHANGED <<macOS, full, main, outcome, running, ctxDone, waiter, sigCh, quitCh,
                       quitClosed, tray, trayStop, menu, kind, restart, cause>>
    BY <1>2 DEF Fire, channels, icon
  <2>2. hook' \in [Requests -> {"none", "delay", "flag", "cancel", "send", "done"}]
    BY <2>1
  <2>3. FlagBeforeCancel'
    BY <2>1
  <2>4. QED
    BY <2>1, <2>2, <2>3
<1>3. CASE Flag(r)
  <2>1. /\ hook[r] = "flag" /\ hook' = [hook EXCEPT ![r] = "cancel"]
        /\ restart' = IF ctxDone /\ restart # "yes" THEN "late" ELSE "yes"
        /\ outcome = "running"
        /\ UNCHANGED <<macOS, full, main, outcome, running, ctxDone, waiter, sigCh, quitCh,
                       quitClosed, tray, trayStop, menu, kind, cause>>
    BY <1>3 DEF Flag, channels, icon
  <2>2. FlagBeforeCancel' /\ CauseFlagged' /\ LateMeansDone'
    BY <2>1
  <2>3. QED
    BY <2>1, <2>2
<1>4. CASE HookCancels(r)
  <2>1. /\ hook[r] = "cancel" /\ hook' = [hook EXCEPT ![r] = "send"]
        /\ ctxDone' = TRUE /\ cause' = IF ctxDone THEN cause ELSE r
        /\ UNCHANGED <<macOS, full, main, outcome, running, waiter, sigCh, quitCh, quitClosed,
                       tray, trayStop, menu, kind, restart>>
    BY <1>4 DEF HookCancels, CancelBy, channels, icon
  <2>2. CauseFlagged'
    BY <2>1
  <2>3. EndTypeOK' /\ FlagBeforeCancel' /\ LateMeansDone'
    BY <2>1
  <2>4. QED
    BY <2>1, <2>2, <2>3
<1>5. CASE SendQuit(r)
  BY <1>5 DEF SendQuit, icon
<1>6. QED
  BY <1>1, <1>2, <1>3, <1>4, <1>5 DEF Hook

LEMMA StopTyped ==
  ASSUME EndTypeOK, StopTray
  PROVE  trayStop' \in {"no", "asked", "lost"}
<1>1. CASE trayStop # "no"
  BY <1>1 DEF StopTray, EndTypeOK
<1>2. CASE trayStop = "no" /\ tray # "off"
  BY <1>2 DEF StopTray
<1>3. CASE trayStop = "no" /\ tray = "off" /\ macOS
  BY <1>3 DEF StopTray
<1>4. CASE trayStop = "no" /\ tray = "off" /\ ~macOS
  BY <1>4 DEF StopTray
<1> QED
  BY <1>1, <1>2, <1>3, <1>4

\* The steps of the waiter, the tray and the signals.
LEMMA TrayStep ==
  ASSUME EndInv,
         \/ Interrupt \/ Wake \/ WaiterCancels \/ WaiterStopsTray
         \/ TrayStarts \/ TrayEnds \/ ClickQuit \/ MenuStopsTray
  PROVE  EndInv'
<1> USE LifecycleAssumption
        DEF EndInv, EndTypeOK, FlagBeforeCancel, CauseFlagged, LateMeansDone, ExitUnflagged,
            ClosedByMenu, Alive
<1>1. CASE Interrupt
  BY <1>1 DEF Interrupt, icon, asked
<1>2. CASE Wake
  <2>1. /\ waiter' = "cancel" /\ {sigCh', quitCh'} \subseteq BOOLEAN
        /\ UNCHANGED <<macOS, full, main, outcome, running, ctxDone, quitClosed, tray, trayStop,
                       menu, hook, kind, restart, cause>>
    BY <1>2 DEF Wake, icon, asked
  <2>2. QED
    BY <2>1
<1>3. CASE WaiterCancels
  <2>1. cause' \notin Requests \/ cause' = cause
    BY <1>3 DEF WaiterCancels, CancelBy
  <2>2. QED
    BY <1>3, <2>1 DEF WaiterCancels, CancelBy, channels, icon, asked
<1>4. CASE WaiterStopsTray
  BY <1>4, StopTyped DEF WaiterStopsTray, channels, asked
<1>5. CASE TrayStarts
  BY <1>5 DEF TrayStarts, channels, asked
<1>6. CASE TrayEnds
  BY <1>6 DEF TrayEnds, channels, asked
<1>7. CASE ClickQuit
  BY <1>7 DEF ClickQuit, asked
<1>8. CASE MenuStopsTray
  BY <1>8, StopTyped DEF MenuStopsTray, channels, asked
<1>9. QED
  BY <1>1, <1>2, <1>3, <1>4, <1>5, <1>6, <1>7, <1>8

\* The subsystems and the end of main.
LEMMA SubsystemStep ==
  ASSUME EndInv,
         \/ \E s \in Subsystems \cup {Dashboard} : SubsystemEnds(s)
         \/ Waited \/ Drained \/ Decide
  PROVE  EndInv'
<1> USE LifecycleAssumption
        DEF EndInv, EndTypeOK, FlagBeforeCancel, CauseFlagged, LateMeansDone, ExitUnflagged,
            ClosedByMenu, Alive
<1>1. CASE \E s \in Subsystems \cup {Dashboard} : SubsystemEnds(s)
  BY <1>1 DEF SubsystemEnds, channels, icon, asked
<1>2. CASE Waited
  BY <1>2 DEF Waited, channels, icon, asked
<1>3. CASE Drained
  BY <1>3 DEF Drained, channels, icon, asked
<1>4. CASE Decide
  BY <1>4 DEF Decide, channels, icon, asked
<1>5. QED
  BY <1>1, <1>2, <1>3, <1>4

LEMMA EndStepInv == EndInv /\ [EndNext]_endVars => EndInv'
<1> SUFFICES ASSUME EndInv, [EndNext]_endVars PROVE EndInv'
  OBVIOUS
<1>1. CASE \E r \in Requests : Ask(r) \/ Hook(r)
  BY <1>1, HookStep
<1>2. CASE \/ Interrupt \/ Wake \/ WaiterCancels \/ WaiterStopsTray
           \/ TrayStarts \/ TrayEnds \/ ClickQuit \/ MenuStopsTray
  BY <1>2, TrayStep
<1>3. CASE \/ \E s \in Subsystems \cup {Dashboard} : SubsystemEnds(s)
           \/ Waited \/ Drained \/ Decide
  BY <1>3, SubsystemStep
<1>4. CASE UNCHANGED endVars
  BY <1>4 DEF endVars, channels, icon, asked, EndInv, EndTypeOK, FlagBeforeCancel, CauseFlagged,
              LateMeansDone, ExitUnflagged, ClosedByMenu
<1>5. QED
  BY <1>1, <1>2, <1>3, <1>4 DEF EndNext, Hook

LEMMA EndInductive == EndSpec => []EndInv
BY EndInitInv, EndStepInv, PTL DEF EndSpec

\* Every variable keeps its type, for any number of requests and subsystems.
THEOREM EndTypeCorrect == EndSpec => []EndTypeOK
<1>1. EndInv => EndTypeOK
  BY DEF EndInv
<1>2. QED
  BY <1>1, EndInductive, PTL

\* However signals, clicks and other requests interleave with it, a restart
\* that ends the process is carried out or fails, and is never forgotten.
THEOREM RestartAlwaysHonoured == EndSpec => []RestartHonoured
<1>1. EndInv => RestartHonoured
  BY DEF EndInv, CauseFlagged, ExitUnflagged, RestartHonoured
<1>2. QED
  BY <1>1, EndInductive, PTL

\* Without a click on Quit nothing ever panics on quitCh.
THEOREM PanicAlwaysNeedsQuit == EndSpec => []PanicNeedsQuit
<1>1. EndInv => PanicNeedsQuit
  BY DEF EndInv, ClosedByMenu, PanicNeedsQuit
<1>2. QED
  BY <1>1, EndInductive, PTL
=============================================================================
