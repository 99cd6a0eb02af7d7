----------------------------- MODULE NtPipeline -----------------------------
(***************************************************************************)
(* internal/ntclient, internal/limelight and the fan-out goroutine of      *)
(* main.go: how the robot's FMS control word reaches the main loop through *)
(* connections that break or fall silent and channels that drop, and how   *)
(* the goroutines around those channels end.                               *)
(***************************************************************************)
EXTENDS Integers, Sequences

CONSTANTS
  Words,      \* FMS control words
  Nil,        \* no word: FMSStateDisconnected
  Other,      \* a value of any other topic
  ValuesCap, FmsCap, CamerasCap,  \* capacities of the channels
  WireCap,    \* bound: frames under way from the robot
  MaxPolls    \* bound: polls in flight

\* The frame that announces the topics.
Announcement == "announcement"

ASSUME PipelineAssumption ==
  /\ Nil \notin Words /\ Other \notin Words \cup {Nil} /\ Words # {}
  /\ Announcement \notin Words \cup {Nil, Other}
  /\ {ValuesCap, FmsCap, CamerasCap, MaxPolls} \subseteq Nat \ {0}
  /\ WireCap \in Nat /\ WireCap >= 2

VARIABLES
  word,       \* the control word the robot publishes
  up,         \* the robot accepts connections
  link,       \* the connection
  wire,       \* frames on it
  nt,         \* where the client's goroutine stands
  announced,  \* topics announced on this connection
  hand,       \* the value it is sending
  connected,  \* c.connected
  values,     \* the values channel
  polls,      \* requests to cameras in flight
  cameras,    \* length of the Limelight channel
  limelight,  \* where Monitor.Run stands
  fan,        \* where the fan-out stands
  fmsCh,      \* its channel to the main loop
  fms,        \* the main loop's latest word
  main,       \* where the main goroutine stands
  cancelled,  \* ctx.Done()
  dropped     \* history: a channel has dropped the newest word

robot  == <<word, up>>
client == <<nt, announced, connected>>
camera == <<polls, cameras, limelight>>
sinks  == <<fan, fmsCh>>
loop   == <<fms, main, cancelled>>
vars   == <<robot, link, wire, client, hand, values, camera, sinks, loop, dropped>>

Topics   == {"control", "other"}
Topic(v) == IF v \in Words THEN "control" ELSE "other"
IsWord(v) == v \in Words
NoWord(s) == \A i \in DOMAIN s : ~IsWord(s[i])

Init ==
  /\ word \in Words /\ up \in BOOLEAN /\ link = "none" /\ wire = <<>>
  /\ nt = "dial" /\ announced = {} /\ hand = Nil /\ connected = FALSE
  /\ values = <<>> /\ fmsCh = <<>> /\ cameras = 0
  /\ polls = 0 /\ limelight = "select"
  /\ fan = "select"
  /\ fms = Nil /\ main = "loop" /\ cancelled = FALSE /\ dropped = FALSE

-----------------------------------------------------------------------------
(* The robot and the network *)

Subscribed == link = "up" /\ nt # "subscribe"

\* Once the client has subscribed, a change is sent at once.
ChangeWord ==
  /\ \E w \in Words \ {word} :
       /\ word' = w
       /\ \/ Subscribed /\ Len(wire) < WireCap /\ wire' = Append(wire, w) /\ dropped' = FALSE
          \/ ~Subscribed /\ UNCHANGED <<wire, dropped>>
  /\ UNCHANGED <<up, link, client, hand, values, camera, sinks, loop>>

SendOther ==
  /\ Subscribed /\ Len(wire) < WireCap
  /\ wire' = Append(wire, Other)
  /\ UNCHANGED <<robot, link, client, hand, values, camera, sinks, loop, dropped>>

\* The connection is closed, or nothing comes through it any more.
Break ==
  /\ link = "up" /\ link' = "broken"
  /\ \E n \in 0..Len(wire) : wire' = SubSeq(wire, 1, n)
  /\ UNCHANGED <<robot, client, hand, values, camera, sinks, loop, dropped>>

Power ==
  /\ link # "up" /\ up' = ~up
  /\ UNCHANGED <<word, link, wire, client, hand, values, camera, sinks, loop, dropped>>

-----------------------------------------------------------------------------
(* Client.run and Client.session *)

\* Close cancels the client's own context, which is not ctx.
Closing == main \in {"closing", "closed"}

Dial ==
  /\ nt = "dial"
  /\ \/ /\ up /\ ~Closing
        /\ link' = "up" /\ connected' = TRUE /\ nt' = "subscribe"
     \/ nt' = "lost" /\ UNCHANGED <<link, connected>>
  /\ UNCHANGED <<robot, wire, announced, hand, values, camera, sinks, loop, dropped>>

\* The session ends: its connection is closed, its map of topics forgotten.
Lose ==
  /\ nt' = "lost" /\ link' = "none" /\ wire' = <<>> /\ announced' = {}

\* The server announces its topics and sends the value of the control word.
Subscribe ==
  /\ nt = "subscribe"
  /\ \/ /\ link = "up"
        /\ wire' = <<Announcement, word>> /\ nt' = "read" /\ dropped' = FALSE
        /\ UNCHANGED <<link, announced>>
     \/ Lose /\ UNCHANGED dropped
  /\ UNCHANGED <<robot, connected, hand, values, camera, sinks, loop>>

\* A value of a topic that was not announced on this connection is skipped.
Read ==
  /\ nt = "read" /\ wire # <<>>
  /\ wire' = Tail(wire)
  /\ LET frame == Head(wire) IN
       \/ /\ frame = Announcement
          /\ announced' = Topics /\ UNCHANGED <<nt, hand, values>>
       \/ /\ frame # Announcement /\ Topic(frame) \notin announced
          /\ UNCHANGED <<nt, hand, values, announced>>
       \/ /\ frame # Announcement /\ Topic(frame) \in announced /\ UNCHANGED announced
          /\ IF Len(values) < ValuesCap
             THEN values' = Append(values, frame) /\ UNCHANGED <<nt, hand>>
             ELSE nt' = "full" /\ hand' = frame /\ UNCHANGED values
  /\ UNCHANGED <<robot, link, connected, camera, sinks, loop, dropped>>

\* Mutant: Read has no timeout.
ReadFails_NoTimeout ==
  /\ nt = "read"
  /\ Closing
  /\ Lose
  /\ UNCHANGED <<robot, connected, hand, values, camera, sinks, loop, dropped>>

\* An error, the end of the context, or no frame for readTimeout; a robot with
\* nothing to say is given up, too.
ReadFails ==
  /\ nt = "read"
  /\ link = "broken" \/ Closing \/ wire = <<>>
  /\ Lose
  /\ UNCHANGED <<robot, connected, hand, values, camera, sinks, loop, dropped>>

\* v is dropped: was it the newest word, with none of later behind it?
Drops(v, later) ==
  dropped' = (dropped \/ (IsWord(v) /\ NoWord(later)))

\* Mutant: the newest value is dropped.
Evict_Newest ==
  /\ nt = "full"
  /\ hand' = Nil /\ nt' = "read"
  /\ UNCHANGED <<robot, link, wire, announced, connected, values, camera, sinks, loop,
                 dropped>>

\* The fan-out may have made room meanwhile.
Evict ==
  /\ nt = "full" /\ nt' = "push"
  /\ \/ values = <<>> /\ UNCHANGED <<values, dropped>>
     \/ /\ values # <<>>
        /\ values' = Tail(values)
        /\ Drops(Head(values), Tail(values) \o <<hand>> \o wire)
  /\ UNCHANGED <<robot, link, wire, announced, connected, hand, camera, sinks, loop>>

Push ==
  /\ nt = "push" /\ Len(values) < ValuesCap
  /\ values' = Append(values, hand) /\ hand' = Nil /\ nt' = "read"
  /\ UNCHANGED <<robot, link, wire, announced, connected, camera, sinks, loop, dropped>>

\* run, after a session: it waits and dials again, or ends.
Lost ==
  /\ nt = "lost"
  /\ connected' = FALSE
  /\ nt' = IF Closing THEN "done" ELSE "dial"
  /\ UNCHANGED <<robot, link, wire, announced, hand, values, camera, sinks, loop, dropped>>

-----------------------------------------------------------------------------
(* limelight.Monitor *)

\* n sends, each of which drops its value when the channel is full.
Offer(ch, n, cap) == IF ch + n <= cap THEN ch + n ELSE cap

Poll ==
  /\ limelight = "select" /\ polls < MaxPolls
  /\ polls' = polls + 1
  /\ UNCHANGED <<robot, link, wire, client, hand, values, cameras, limelight, sinks, loop,
                 dropped>>

\* Mutant: the sends wait for room.
PollEnds_Blocking ==
  /\ polls > 0 /\ cameras < CamerasCap
  /\ polls' = polls - 1
  /\ cameras' = cameras + 1
  /\ UNCHANGED <<robot, link, wire, client, hand, values, limelight, sinks, loop, dropped>>

\* A failure is reported by one value, a success by two.
PollEnds ==
  /\ polls > 0
  /\ polls' = polls - 1
  /\ \E n \in 1..2 : cameras' = Offer(cameras, n, CamerasCap)
  /\ UNCHANGED <<robot, link, wire, client, hand, values, limelight, sinks, loop, dropped>>

Stop ==
  /\ limelight = "select" /\ cancelled
  /\ limelight' = "waiting"
  /\ UNCHANGED <<robot, link, wire, client, hand, values, polls, cameras, sinks,
                 loop, dropped>>

\* Mutant: Run returns without waiting for its polls.
CloseCameras_NoWait ==
  /\ limelight = "waiting"
  /\ limelight' = "done"
  /\ UNCHANGED <<robot, link, wire, client, hand, values, polls, cameras, sinks,
                 loop, dropped>>

\* Run closes the channel once no poll is left.
CloseCameras ==
  /\ limelight = "waiting" /\ polls = 0
  /\ limelight' = "done"
  /\ UNCHANGED <<robot, link, wire, client, hand, values, polls, cameras, sinks,
                 loop, dropped>>

-----------------------------------------------------------------------------
(* The fan-out and the main loop *)

\* The logger is offered every value, the main loop the control words; what
\* finds no room is dropped.
Forward ==
  /\ fan = "select" /\ values # <<>>
  /\ values' = Tail(values)
  /\ LET v == Head(values) IN
       \/ ~IsWord(v) /\ UNCHANGED <<fmsCh, dropped>>
       \/ IsWord(v) /\ Len(fmsCh) < FmsCap /\ fmsCh' = Append(fmsCh, v) /\ UNCHANGED dropped
       \/ /\ IsWord(v) /\ Len(fmsCh) = FmsCap /\ UNCHANGED fmsCh
          /\ Drops(v, Tail(values) \o <<hand>> \o wire)
  /\ UNCHANGED <<robot, link, wire, client, hand, camera, fan, loop>>

ForwardCamera ==
  /\ fan = "select" /\ cameras > 0
  /\ cameras' = cameras - 1
  /\ UNCHANGED <<robot, link, wire, client, hand, values, polls, limelight, sinks,
                 loop, dropped>>

\* Its channels are closed on the way out.
FanEnds ==
  /\ fan = "select" /\ cancelled
  /\ fan' = "done"
  /\ UNCHANGED <<robot, link, wire, client, hand, values, camera, fmsCh, loop, dropped>>

ReadFms ==
  /\ main = "loop" /\ fmsCh # <<>>
  /\ fms' = Head(fmsCh) /\ fmsCh' = Tail(fmsCh)
  /\ UNCHANGED <<robot, link, wire, client, hand, values, camera, fan, main, cancelled,
                 dropped>>

Tick ==
  /\ main = "loop" /\ ~connected
  /\ fms' = Nil
  /\ UNCHANGED <<robot, link, wire, client, hand, values, camera, sinks, main, cancelled,
                 dropped>>

-----------------------------------------------------------------------------
(* Shutdown *)

Cancel ==
  /\ ~cancelled /\ cancelled' = TRUE
  /\ UNCHANGED <<robot, link, wire, client, hand, values, camera, sinks, fms, main, dropped>>

\* wg.Wait and the drain are over, the deferred Close cancels the client.
BeginClose ==
  /\ main = "loop" /\ cancelled
  /\ fan = "done" /\ limelight = "done"
  /\ main' = "closing"
  /\ UNCHANGED <<robot, link, wire, client, hand, values, camera, sinks, fms, cancelled,
                 dropped>>

CloseValues ==
  /\ main = "closing" /\ nt = "done"
  /\ main' = "closed"
  /\ UNCHANGED <<robot, link, wire, client, hand, values, camera, sinks, fms, cancelled,
                 dropped>>

-----------------------------------------------------------------------------
Client   == Dial \/ Subscribe \/ Read \/ Evict \/ Push \/ Lost
FanOut   == Forward \/ ForwardCamera
MainLoop == ReadFms \/ Tick
Shutdown == Stop \/ CloseCameras \/ FanEnds \/ BeginClose \/ CloseValues

Next ==
  \/ ChangeWord \/ SendOther \/ Break \/ Power
  \/ Client \/ ReadFails \/ Poll \/ PollEnds \/ FanOut \/ MainLoop
  \/ Cancel \/ Shutdown

Spec == Init /\ [][Next]_vars

\* Reads end by an answer, an error or a timeout, polls by theirs; select
\* passes over no ready case for ever.
FairSpec ==
  /\ Spec
  /\ WF_vars(Client) /\ SF_vars(ReadFails /\ (link # "up" \/ Closing)) /\ WF_vars(PollEnds)
  /\ SF_vars(Forward) /\ WF_vars(MainLoop) /\ WF_vars(Shutdown)

-----------------------------------------------------------------------------
(* Properties *)

TypeOK ==
  /\ word \in Words /\ fms \in Words \cup {Nil}
  /\ link \in {"none", "up", "broken"}
  /\ wire \in Seq(Words \cup {Other, Announcement}) /\ Len(wire) <= WireCap
  /\ nt \in {"dial", "subscribe", "read", "full", "push", "lost", "done"}
  /\ announced \subseteq Topics /\ hand \in Words \cup {Other, Nil}
  /\ values \in Seq(Words \cup {Other}) /\ Len(values) <= ValuesCap
  /\ fmsCh \in Seq(Words) /\ Len(fmsCh) <= FmsCap
  /\ cameras \in 0..CamerasCap
  /\ polls \in 0..MaxPolls
  /\ limelight \in {"select", "waiting", "done"} /\ fan \in {"select", "done"}
  /\ main \in {"loop", "closing", "closed"}
  /\ up \in BOOLEAN /\ connected \in BOOLEAN /\ cancelled \in BOOLEAN /\ dropped \in BOOLEAN

\* On a working connection the robot's newest control word is always the last
\* one that the main loop has or will get, unless a channel has dropped it: no
\* reconnection, eviction or skipped frame leaves an older word in its place.
LastWordIs(line, w) ==
  \E i \in DOMAIN line : line[i] = w /\ NoWord(SubSeq(line, i + 1, Len(line)))

NewestOnItsWay ==
  Subscribed /\ ~dropped => LastWordIs(<<fms>> \o fmsCh \o values \o <<hand>> \o wire, word)

\* Nobody can send on a channel that has been closed, which would panic: no
\* poll outlives Run, and the client's goroutine does not outlive Close.
NoSendAfterClose ==
  /\ limelight = "done" => polls = 0
  /\ main = "closed" => nt = "done"

\* Once the context is cancelled the program gets to its end: with every
\* reader gone, no sender waits for room.
ShutdownEnds == cancelled ~> main = "closed"

\* The network or the robot fails, or an idle robot is given up.
Trouble ==
  \/ Break
  \/ ReadFails /\ link = "up"
  \/ up /\ nt \in {"dial", "subscribe"} /\ nt' = "lost"

\* When the robot stays and the network behaves, the main loop comes to know
\* the control word the robot settles on, however connections were lost
\* before; when the robot stays away, the main loop comes to know that.
WordArrives ==
  /\ <>[](up /\ ~cancelled /\ ~dropped) /\ <>[][~Trouble /\ word' = word]_vars
       => <>[](connected /\ fms = word)
  /\ <>[](~up /\ ~cancelled) => <>[](~connected /\ fms = Nil)
=============================================================================
