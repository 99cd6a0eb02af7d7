------------------------------ MODULE ObsClient ------------------------------
(***************************************************************************)
(* internal/obsclient: the main loop's calls and the health check share    *)
(* one connection to OBS under a mutex.  Requests run outside the mutex    *)
(* and are given up after a timeout; a dial runs inside it.  OBS quits,    *)
(* comes back, breaks connections, and may carry out a request long after  *)
(* the client has given up on it.                                          *)
(***************************************************************************)
EXTENDS Integers

CONSTANTS
  Nil,
  Conns  \* connections; a dial takes one that nothing refers to any more

Threads == {"main", "health"}
Kinds   == {"start", "stop"}

ASSUME ObsAssumption ==
  /\ Nil \notin Conns \cup Threads
  /\ Conns # {} /\ \A c, d \in Conns : Conns \ {c, d} # {}

VARIABLES
  up,            \* OBS accepts connections
  open,          \* connections that work
  recording,     \* OBS is recording
  late,          \* requests OBS may carry out although nobody waits for them
  lock,          \* holder of mu, while it dials
  client,        \* c.client
  connected,     \* c.connected
  probeInFlight, \* c.probeInFlight
  probes,        \* goroutines inside GetVersion
  pc,            \* where each thread stands
  conn,          \* the client it has read
  want,          \* main: the call
  attempt,       \* main: its attempt
  result,        \* main: what the last call returned
  cancelled,     \* ctx.Done()
  disturbed      \* history: OBS has changed of itself since it carried out the
                 \* last call

obs    == <<up, open, recording, late, disturbed>>
shared == <<client, connected>>
probe  == <<probeInFlight, probes>>
call   == <<want, attempt, result>>
vars   == <<obs, lock, shared, probe, pc, conn, call, cancelled>>

\* After Connect, which succeeded if OBS was there, and StartHealthCheck; as
\* after a successful stop.
Init ==
  /\ up \in BOOLEAN
  /\ client = IF up THEN CHOOSE c \in Conns : TRUE ELSE Nil
  /\ open = {client} \ {Nil}
  /\ connected = up
  /\ recording = FALSE /\ late = {} /\ disturbed = FALSE
  /\ lock = Nil /\ probeInFlight = FALSE /\ probes = 0
  /\ pc = [main |-> "idle", health |-> "select"]
  /\ conn = [t \in Threads |-> Nil]
  /\ want = "stop" /\ attempt = 0 /\ result = TRUE
  /\ cancelled = FALSE

Goto(t, place) == pc' = [pc EXCEPT ![t] = place]

-----------------------------------------------------------------------------
(* OBS and its connections *)

Quit ==
  /\ up
  /\ up' = FALSE /\ open' = {} /\ recording' = FALSE /\ late' = {}
  /\ disturbed' = (disturbed \/ recording)
  /\ UNCHANGED <<lock, shared, probe, pc, conn, call, cancelled>>

Launch ==
  /\ ~up /\ up' = TRUE
  /\ UNCHANGED <<open, recording, late, disturbed, lock, shared, probe, pc, conn, call,
                 cancelled>>

Break ==
  /\ \E c \in open : open' = open \ {c}
  /\ UNCHANGED <<up, recording, late, disturbed, lock, shared, probe, pc, conn, call,
                 cancelled>>

\* Equal late requests are one element, so it may stay after it was served.
ServeLate ==
  /\ \E k \in late :
       /\ recording' = (k = "start")
       /\ late' \in {late, late \ {k}}
  /\ disturbed' = (disturbed \/ recording' # recording)
  /\ UNCHANGED <<up, open, lock, shared, probe, pc, conn, call, cancelled>>

\* "Already recording" and "not active" are answers of success, too.
Serve ==
  /\ pc["main"] = "call" /\ conn["main"] \in open
  /\ recording' = (want = "start")
  /\ disturbed' = FALSE
  /\ Goto("main", "answered")
  /\ UNCHANGED <<up, open, late, lock, shared, probe, conn, call, cancelled>>

-----------------------------------------------------------------------------
(* connectLocked *)

Fresh == CHOOSE c \in Conns : c \notin open \cup {client, conn["main"], conn["health"]}

\* The previous connection is closed, whoever opened it; then the dial runs
\* with the mutex held.
BeginConnect(t) ==
  /\ pc[t] \in {"reconnect", "failed"} /\ lock = Nil
  /\ lock' = t
  /\ open' = open \ {client}
  /\ client' = Nil
  /\ connected' = FALSE
  /\ conn' = [conn EXCEPT ![t] = Nil]
  /\ Goto(t, IF pc[t] = "failed" THEN "redial" ELSE "dial")
  /\ UNCHANGED <<up, recording, late, disturbed, probe, call, cancelled>>

\* The thread goes on: the main loop with its second attempt; the health check,
\* if it began without a client and the dial has failed, by clearing the flag.
AfterConnect(t) ==
  CASE t = "main" -> "read"
    [] t = "health" /\ pc[t] = "dial" /\ client' = Nil -> "clear"
    [] OTHER -> "select"

\* Mutant: a failed dial returns without unlocking.
EndConnect_KeepsLock(t) ==
  /\ pc[t] \in {"dial", "redial"}
  /\ \/ /\ up
        /\ client' = Fresh /\ open' = open \cup {Fresh}
        /\ connected' = TRUE /\ lock' = Nil
     \/ UNCHANGED <<client, open, connected, lock>>
  /\ Goto(t, AfterConnect(t))
  /\ UNCHANGED <<up, recording, late, disturbed, probe, conn, call, cancelled>>

EndConnect(t) ==
  /\ pc[t] \in {"dial", "redial"}
  /\ lock' = Nil
  /\ \/ /\ up
        /\ client' = Fresh /\ open' = open \cup {Fresh}
        /\ connected' = TRUE
     \/ UNCHANGED <<client, open, connected>>
  /\ Goto(t, AfterConnect(t))
  /\ UNCHANGED <<up, recording, late, disturbed, probe, conn, call, cancelled>>

-----------------------------------------------------------------------------
(* StartRecording and StopRecording *)

BeginCall(k) ==
  /\ pc["main"] = "idle"
  /\ want' = k /\ attempt' = 0 /\ result' = FALSE
  /\ Goto("main", "read")
  /\ UNCHANGED <<obs, lock, shared, probe, conn, cancelled>>

\* Returning, the thread forgets the client it has read.
Return(success) ==
  /\ result' = success
  /\ Goto("main", "idle")
  /\ conn' = [conn EXCEPT !["main"] = Nil]

\* Mutant: a call that finds no connection, not even after the second attempt,
\* returns no error.
Read_NoError ==
  /\ pc["main"] = "read" /\ lock = Nil
  /\ \/ /\ client # Nil
        /\ conn' = [conn EXCEPT !["main"] = client]
        /\ Goto("main", "call")
        /\ UNCHANGED <<attempt, result>>
     \/ /\ client = Nil /\ attempt = 0
        /\ attempt' = 1
        /\ Goto("main", "reconnect")
        /\ UNCHANGED <<conn, result>>
     \/ client = Nil /\ attempt = 1 /\ Return(TRUE) /\ UNCHANGED attempt
  /\ UNCHANGED <<obs, lock, shared, probe, want, cancelled>>

Read ==
  /\ pc["main"] = "read" /\ lock = Nil
  /\ \/ /\ client # Nil
        /\ conn' = [conn EXCEPT !["main"] = client]
        /\ Goto("main", "call")
        /\ UNCHANGED <<attempt, result>>
     \/ /\ client = Nil /\ attempt = 0
        /\ attempt' = 1
        /\ Goto("main", "reconnect")
        /\ UNCHANGED <<conn, result>>
     \/ client = Nil /\ attempt = 1 /\ Return(FALSE) /\ UNCHANGED attempt
  /\ UNCHANGED <<obs, lock, shared, probe, want, cancelled>>

\* Mutant: a call that timed out is taken for one that worked.
Answer_Timeout ==
  /\ pc["main"] \in {"answered", "call"}
  /\ connected' = TRUE
  /\ Return(TRUE)
  /\ UNCHANGED <<obs, lock, client, probe, want, attempt, cancelled>>

Answer ==
  /\ pc["main"] = "answered"
  /\ connected' = TRUE
  /\ Return(TRUE)
  /\ UNCHANGED <<obs, lock, client, probe, want, attempt, cancelled>>

\* An error, or the timeout; the request may still be on its way.
Fail ==
  /\ pc["main"] \in {"call", "answered"}
  /\ late' \in IF pc["main"] = "call" /\ up THEN {late, late \cup {want}} ELSE {late}
  /\ Goto("main", "drop")
  /\ UNCHANGED <<up, open, recording, disturbed, lock, shared, probe, conn, call,
                 cancelled>>

\* The second attempt is the last.
AfterDrop ==
  /\ connected' = FALSE
  /\ IF attempt = 0 THEN /\ attempt' = 1 /\ Goto("main", "reconnect")
                         /\ conn' = [conn EXCEPT !["main"] = Nil] /\ UNCHANGED result
     ELSE Return(FALSE) /\ UNCHANGED attempt
  /\ UNCHANGED <<up, recording, late, disturbed, lock, probe, want, cancelled>>

\* Mutant: the field is cleared whatever it points to.
Drop_Unchecked ==
  /\ pc["main"] = "drop" /\ lock = Nil
  /\ open' = open \ {conn["main"]}
  /\ client' = Nil
  /\ AfterDrop

\* dropClient, unless another thread has replaced the client.
Drop ==
  /\ pc["main"] = "drop" /\ lock = Nil
  /\ IF client = conn["main"] THEN open' = open \ {client} /\ client' = Nil
     ELSE UNCHANGED <<open, client>>
  /\ AfterDrop

-----------------------------------------------------------------------------
(* probeHealth *)

\* With a probe still in flight the tick is skipped.
Tick ==
  /\ pc["health"] = "select" /\ lock = Nil
  /\ \/ client = Nil /\ Goto("health", "reconnect") /\ UNCHANGED <<conn, probe>>
     \/ client # Nil /\ probeInFlight /\ UNCHANGED <<pc, conn, probe>>
     \/ /\ client # Nil /\ ~probeInFlight
        /\ Goto("health", "await")
        /\ conn' = [conn EXCEPT !["health"] = client]
        /\ probeInFlight' = TRUE /\ probes' = probes + 1
  /\ UNCHANGED <<obs, lock, shared, call, cancelled>>

\* The goroutine has come back within the timeout, or is left behind.
ProbeEnds ==
  /\ pc["health"] = "await"
  /\ \/ /\ conn["health"] \in open
        /\ Goto("health", "alive")
        /\ probeInFlight' = FALSE /\ probes' = probes - 1
     \/ /\ Goto("health", "dead")
        /\ probeInFlight' = FALSE /\ probes' = probes - 1
     \/ Goto("health", "dead") /\ UNCHANGED probe
  /\ UNCHANGED <<obs, lock, shared, conn, call, cancelled>>

\* Closing the connection makes the goroutine left behind return.
Straggler ==
  /\ pc["health"] # "await" /\ probes > 0
  /\ probeInFlight' = FALSE /\ probes' = probes - 1
  /\ UNCHANGED <<obs, lock, shared, pc, conn, call, cancelled>>

\* Mutant: a successful probe leaves the flag as it is.
SetFlag_OnlyClears ==
  /\ pc["health"] \in {"alive", "dead", "clear"}
  /\ connected' = (connected /\ pc["health"] = "alive")
  /\ Goto("health", IF pc["health"] = "dead" THEN "failed" ELSE "select")
  /\ conn' = [conn EXCEPT !["health"] = IF pc["health"] = "dead" THEN @ ELSE Nil]
  /\ UNCHANGED <<obs, lock, client, probe, call, cancelled>>

\* The flag is written outside the mutex, on what was known before.
SetFlag ==
  /\ pc["health"] \in {"alive", "dead", "clear"}
  /\ connected' = (pc["health"] = "alive")
  /\ Goto("health", IF pc["health"] = "dead" THEN "failed" ELSE "select")
  /\ conn' = [conn EXCEPT !["health"] = IF pc["health"] = "dead" THEN @ ELSE Nil]
  /\ UNCHANGED <<obs, lock, client, probe, call, cancelled>>

-----------------------------------------------------------------------------
(* Shutdown *)

Cancel ==
  /\ ~cancelled /\ cancelled' = TRUE
  /\ UNCHANGED <<obs, lock, shared, probe, pc, conn, call>>

HealthExits ==
  /\ pc["health"] = "select" /\ cancelled
  /\ Goto("health", "done")
  /\ UNCHANGED <<obs, lock, shared, probe, conn, call, cancelled>>

\* The main loop is over, Close waits for the health check.
BeginClose ==
  /\ pc["main"] = "idle" /\ cancelled
  /\ Goto("main", "closing")
  /\ UNCHANGED <<obs, lock, shared, probe, conn, call, cancelled>>

Close ==
  /\ pc["main"] = "closing" /\ pc["health"] = "done" /\ lock = Nil
  /\ open' = open \ {client}
  /\ client' = Nil /\ connected' = FALSE
  /\ Goto("main", "closed")
  /\ UNCHANGED <<up, recording, late, disturbed, lock, probe, conn, call, cancelled>>

-----------------------------------------------------------------------------
OBS    == Quit \/ Launch \/ Break \/ ServeLate
Main   == Read \/ Serve \/ Answer \/ Fail \/ Drop \/ BeginConnect("main") \/ EndConnect("main")
          \/ Close
Health == ProbeEnds \/ SetFlag \/ BeginConnect("health") \/ EndConnect("health")

Next ==
  \/ OBS \/ Main \/ Health \/ Tick \/ Straggler
  \/ \E k \in Kinds : BeginCall(k)
  \/ Cancel \/ HealthExits \/ BeginClose

Spec == Init /\ [][Next]_vars

\* Every request ends or times out, a dial returns, sync.Mutex starves nobody,
\* the ticker fires, and select does not pass over ctx.Done for ever.
FairSpec ==
  /\ Spec
  /\ SF_vars(Main) /\ SF_vars(Health) /\ SF_vars(Tick) /\ WF_vars(Straggler)
  /\ SF_vars(HealthExits) /\ SF_vars(BeginClose)

-----------------------------------------------------------------------------
(* Properties *)

TypeOK ==
  /\ {up, recording, connected, probeInFlight, result, cancelled, disturbed} \subseteq BOOLEAN
  /\ open \subseteq Conns /\ client \in Conns \cup {Nil}
  /\ late \subseteq Kinds /\ want \in Kinds
  /\ lock \in Threads \cup {Nil}
  /\ probes \in Nat /\ attempt \in 0..1
  /\ pc["main"] \in {"idle", "read", "call", "answered", "drop", "reconnect", "dial",
                     "closing", "closed"}
  /\ pc["health"] \in {"select", "await", "alive", "dead", "failed", "reconnect", "dial",
                       "redial", "clear", "done"}
  /\ conn \in [Threads -> Conns \cup {Nil}]

\* Two threads connect, drop and reconnect, and OBS never has a connection of
\* this client beyond the one in c.client: none is forgotten while it is open,
\* and nobody dials while another dial is under way.
OneConnection ==
  /\ open \subseteq {client}
  /\ \A t \in Threads : pc[t] \in {"dial", "redial"} <=> lock = t

\* A call that reports success has been carried out: OBS is in the state that
\* was asked for, unless it has stopped with a quit, or served an abandoned
\* request for the opposite, since it carried out the call.
SuccessHolds ==
  pc["main"] = "idle" /\ result /\ ~disturbed => recording = (want = "start")

NoCall == pc["main"] \in {"idle", "closing", "closed"}

\* The contract's call and settled.
CallNow    == IF NoCall THEN "none" ELSE want
SettledNow == ~disturbed /\ IF NoCall THEN result ELSE pc["main"] = "answered"

Contract == INSTANCE ObsContract WITH call <- CallNow, settled <- SettledNow

\* StartRecording and StopRecording are to the main loop what it may take them
\* for, whatever connections the two threads drop, replace and dial in between:
\* success means served, and OBS later deviates only by what the contract names.
ImplementsObsContract == Contract!Spec

\* client.go: "at most one goroutine is blocked inside a goobs RPC", however
\* long a timed-out probe takes to come back.
ProbesBounded == probes <= 1

\* Nothing reconnects behind Close.
CloseIsFinal ==
  pc["main"] = "closed" => client = Nil /\ open = {} /\ ~connected

\* A call returns whatever OBS and the health check do, and so does Close.
CallReturns == pc["main"] # "idle" ~> pc["main"] \in {"idle", "closed"}

\* OBS misbehaves: it goes, breaks a connection, refuses a dial or lets a
\* request on a working connection fail.
Trouble ==
  \/ Break
  \/ \E t \in Threads : EndConnect(t) /\ client' = Nil /\ up
  \/ Fail /\ conn["main"] \in open
  \/ ProbeEnds /\ conn["health"] \in open /\ pc'["health"] = "dead"

\* The cached flag may lag behind but comes right, whatever the threads have
\* done to each other's connections: once no call is made and OBS stays and
\* behaves, there is a connection and the flag says so; once OBS stays away,
\* calls or not, the flag is off.
FlagHeals ==
  /\ <>[](up /\ ~cancelled /\ pc["main"] = "idle") /\ <>[][~Trouble]_vars
       => <>[](connected /\ client \in open)
  /\ <>[]~up => <>[]~connected

\* client.go: "Only clear the field if it's still the same pointer we probed -
\* otherwise another path (Connect, StartRecording) may have already replaced
\* it."  A failed probe costs nobody else the connection.
\* The code does not keep to it (section 5 of the README).
ProbeSparesOthers ==
  [][BeginConnect("health") /\ pc["health"] = "failed" => client \in {conn["health"], Nil}]_vars
=============================================================================
