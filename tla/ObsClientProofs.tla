-------------------------- MODULE ObsClientProofs ---------------------------
(***************************************************************************)
(* ObsClient keeps its safety invariants for any number of connections.    *)
(***************************************************************************)
EXTENDS ObsClient, TLAPS

\* While a dial holds the mutex there is no client: the old one was closed
\* before, the new one is stored as the mutex is released.
Holder ==
  \A t \in Threads : pc[t] \in {"dial", "redial"} => client = Nil /\ conn[t] = Nil

\* The flag says whether a goroutine is inside GetVersion, and while the health
\* check waits for one, it is.
Probing ==
  /\ probeInFlight => probes = 1
  /\ ~probeInFlight => probes = 0
  /\ pc["health"] = "await" => probeInFlight

\* What OBS has answered is so until it changes of itself.
Answered == pc["main"] = "answered" /\ ~disturbed => recording = (want = "start")

\* Close has waited for the health check.
Ended == pc["main"] = "closed" => pc["health"] = "done"

Places == pc = [t \in Threads |-> pc[t]]

\* The parts of TypeOK.
Flags ==
  {up, recording, connected, probeInFlight, result, cancelled, disturbed} \subseteq BOOLEAN

Numbers == probes \in Nat /\ attempt \in 0..1

Shapes ==
  /\ open \subseteq Conns /\ client \in Conns \cup {Nil}
  /\ late \subseteq Kinds /\ want \in Kinds
  /\ lock \in Threads \cup {Nil}
  /\ pc["main"] \in {"idle", "read", "call", "answered", "drop", "reconnect", "dial",
                     "closing", "closed"}
  /\ pc["health"] \in {"select", "await", "alive", "dead", "failed", "reconnect", "dial",
                       "redial", "clear", "done"}
  /\ conn \in [Threads -> Conns \cup {Nil}]

Inv ==
  /\ Flags /\ Numbers /\ Shapes /\ Places
  /\ OneConnection /\ Holder /\ Probing /\ Answered /\ SuccessHolds /\ Ended /\ CloseIsFinal

\* A dial finds a connection that nothing refers to.
LEMMA FreshExists ==
  ASSUME Shapes, client = Nil, open \subseteq {client},
         \E t \in Threads : conn[t] = Nil
  PROVE  Fresh \in Conns /\ Fresh \notin open
<1>1. PICK u \in Threads : open \cup {client, conn["main"], conn["health"]} \subseteq {Nil, conn[u]}
  BY DEF Shapes, Threads
<1>2. \E c \in Conns : c \notin {Nil, conn[u]}
  <2>1. conn[u] \in Conns \/ conn[u] = Nil
    BY <1>1 DEF Shapes
  <2> QED BY <2>1, ObsAssumption
<1>3. \E c \in Conns : c \notin open \cup {client, conn["main"], conn["health"]}
  BY <1>1, <1>2
<1> QED BY <1>3 DEF Fresh

LEMMA InitInv == Init => Inv
<1> SUFFICES ASSUME Init PROVE Inv
  OBVIOUS
<1> USE ObsAssumption DEF Init, Threads, Kinds
<1>1. client \in Conns \cup {Nil}
  OBVIOUS
<1>2. Flags /\ Numbers
  <2>1. Flags
    BY DEF Flags
  <2>2. Numbers
    BY DEF Numbers
  <2> QED BY <2>1, <2>2
<1>3. Shapes
  <2>1. open \subseteq Conns /\ late \subseteq Kinds /\ want \in Kinds
    BY <1>1
  <2>2. conn \in [Threads -> Conns \cup {Nil}]
    OBVIOUS
  <2>3. pc["main"] = "idle" /\ pc["health"] = "select" /\ lock \in Threads \cup {Nil}
    OBVIOUS
  <2> QED BY <1>1, <2>1, <2>2, <2>3, Zenon DEF Shapes
<1>4. Places /\ Holder /\ Probing /\ Answered /\ Ended /\ CloseIsFinal
  BY DEF Places, Holder, Probing, Answered, Ended, CloseIsFinal
<1>5. SuccessHolds
  BY DEF SuccessHolds
<1>6. OneConnection
  BY DEF OneConnection
<1> QED BY <1>2, <1>3, <1>4, <1>5, <1>6 DEF Inv

\* One probe at a time: Tick starts the second only after the first is back.
LEMMA ProbingNext ==
  ASSUME Probing, Places, [Next]_vars
  PROVE  Probing' /\ (probes' = probes \/ probes' \in {0, 1})
<1> USE DEF Probing, Places, Threads, Goto, obs, shared, probe, call, Return
<1>1. CASE Tick
  <2>1. CASE UNCHANGED <<probeInFlight, probes>>
    BY <1>1, <2>1 DEF Tick
  <2>2. CASE ~probeInFlight /\ probeInFlight' = TRUE /\ probes' = probes + 1
    <3>1. probes = 0 /\ probes' = probes + 1
      BY <2>2, Zenon
    <3>2. probes' = 1
      BY <3>1
    <3> QED BY <2>2, <3>2, Zenon
  <2> QED BY <1>1, <2>1, <2>2, Zenon DEF Tick
<1>2. CASE ProbeEnds
  <2>1. probes = 1
    BY <1>2, Zenon DEF ProbeEnds
  <2>2. pc'["health"] # "await"
    BY <1>2 DEF ProbeEnds
  <2>3. CASE UNCHANGED <<probeInFlight, probes>>
    BY <2>2, <2>3
  <2>4. CASE probeInFlight' = FALSE /\ probes' = probes - 1
    <3>1. probes' = probes - 1
      BY <2>4, Zenon
    <3>2. probes' = 0
      BY <2>1, <3>1
    <3> QED BY <2>2, <2>4, <3>2, Zenon
  <2> QED BY <1>2, <2>3, <2>4, Zenon DEF ProbeEnds
<1>3. CASE Straggler
  <2>1. probes > 0 /\ probes' = probes - 1 /\ probeInFlight' = FALSE /\ pc' = pc
    BY <1>3, Zenon DEF Straggler
  <2>2. probes = 0 \/ probes = 1
    BY Zenon
  <2>3. probes' = 0
    BY <2>1, <2>2
  <2> QED BY <2>1, <2>3, <1>3, Zenon DEF Straggler
<1>4. CASE UNCHANGED <<probeInFlight, probes>> /\ (pc'["health"] = "await" => pc["health"] = "await")
  BY <1>4
<1>5. ASSUME ~Tick, ~ProbeEnds, ~Straggler
      PROVE  UNCHANGED <<probeInFlight, probes>> /\ (pc'["health"] = "await" => pc["health"] = "await")
  BY <1>5 DEF Next, vars, OBS, Main, Health, Quit, Launch, Break, ServeLate, Read, Serve, Answer,
     Fail, Drop, AfterDrop, BeginConnect, EndConnect, AfterConnect, Close, SetFlag, BeginCall,
     Cancel, HealthExits, BeginClose
<1> QED BY <1>1, <1>2, <1>3, <1>4, <1>5

\* There are no more than two attempts.
LEMMA NumbersNext ==
  ASSUME Numbers, Probing, Places, [Next]_vars
  PROVE  Numbers'
<1>1. probes' \in Nat
  BY ProbingNext DEF Numbers
<1>2. attempt' \in {attempt, 0, 1}
  BY DEF Next, vars, OBS, Main, Health, Quit, Launch, Break, ServeLate, Read, Serve, Answer,
     Fail, Drop, AfterDrop, BeginConnect, EndConnect, Close, ProbeEnds, SetFlag, Tick, Straggler,
     BeginCall, Cancel, HealthExits, BeginClose, Return, obs, shared, probe, call
<1> QED BY <1>1, <1>2 DEF Numbers

\* The state one step leads to; the numbers have lemmas of their own.
Rest ==
  /\ Flags /\ Shapes /\ Places
  /\ OneConnection /\ Holder /\ Answered /\ SuccessHolds /\ Ended /\ CloseIsFinal

LEMMA RestNext == Rest /\ [Next]_vars => Rest'
<1> SUFFICES ASSUME Rest, [Next]_vars PROVE Rest'
  OBVIOUS
<1> USE ObsAssumption DEF Rest, Flags, Shapes, Places, OneConnection, Holder, Answered,
        SuccessHolds, Ended, CloseIsFinal, Threads, Kinds, Goto, obs, shared, probe, call, Return
<1>1. CASE Quit
  <2>1. Flags'
    BY <1>1 DEF Quit
  <2>2. Shapes'
    BY <1>1 DEF Quit
  <2>3. (Places /\ OneConnection /\ Holder)'
    BY <1>1 DEF Quit
  <2>4. (Answered /\ SuccessHolds)'
    BY <1>1 DEF Quit
  <2>5. (Ended /\ CloseIsFinal)'
    BY <1>1 DEF Quit
  <2> QED BY <2>1, <2>2, <2>3, <2>4, <2>5
<1>2. CASE Launch
  <2>1. Flags'
    BY <1>2 DEF Launch
  <2>2. Shapes'
    BY <1>2 DEF Launch
  <2>3. (Places /\ OneConnection /\ Holder)'
    BY <1>2 DEF Launch
  <2>4. (Answered /\ SuccessHolds)'
    BY <1>2 DEF Launch
  <2>5. (Ended /\ CloseIsFinal)'
    BY <1>2 DEF Launch
  <2> QED BY <2>1, <2>2, <2>3, <2>4, <2>5
<1>3. CASE Break
  <2>1. Flags'
    BY <1>3 DEF Break
  <2>2. Shapes'
    BY <1>3 DEF Break
  <2>3. (Places /\ OneConnection /\ Holder)'
    BY <1>3 DEF Break
  <2>4. (Answered /\ SuccessHolds)'
    BY <1>3 DEF Break
  <2>5. (Ended /\ CloseIsFinal)'
    BY <1>3 DEF Break
  <2> QED BY <2>1, <2>2, <2>3, <2>4, <2>5
<1>4. CASE ServeLate
  <2>1. Flags'
    BY <1>4 DEF ServeLate
  <2>2. Shapes'
    BY <1>4 DEF ServeLate
  <2>3. (Places /\ OneConnection /\ Holder)'
    BY <1>4 DEF ServeLate
  <2>4. (Answered /\ SuccessHolds)'
    BY <1>4 DEF ServeLate
  <2>5. (Ended /\ CloseIsFinal)'
    BY <1>4 DEF ServeLate
  <2> QED BY <2>1, <2>2, <2>3, <2>4, <2>5
<1>5. CASE Read
  <2>1. Flags'
    BY <1>5 DEF Read
  <2>2. Shapes'
    <3>1. CASE client # Nil
      <4>1. UNCHANGED <<open, late, want, lock, client>>
        BY <1>5, <3>1 DEF Read
      <4>2. conn' \in [Threads -> Conns \cup {Nil}]
        BY <1>5, <3>1 DEF Read
      <4>3. pc'["health"] = pc["health"] /\ pc'["main"] = "call"
        BY <1>5, <3>1 DEF Read
      <4> QED BY <4>1, <4>2, <4>3
    <3>2. CASE client = Nil
      <4>1. UNCHANGED <<open, late, want, lock, client>>
        BY <1>5, <3>2 DEF Read
      <4>2. conn' \in [Threads -> Conns \cup {Nil}]
        BY <1>5, <3>2 DEF Read
      <4>3. pc'["health"] = pc["health"] /\ pc'["main"] \in {"reconnect", "idle"}
        BY <1>5, <3>2 DEF Read
      <4> QED BY <4>1, <4>2, <4>3
    <3> QED BY <3>1, <3>2
  <2>3. (Places /\ OneConnection /\ Holder)'
    BY <1>5 DEF Read
  <2>4. (Answered /\ SuccessHolds)'
    BY <1>5 DEF Read
  <2>5. (Ended /\ CloseIsFinal)'
    BY <1>5 DEF Read
  <2> QED BY <2>1, <2>2, <2>3, <2>4, <2>5
<1>6. CASE Serve
  <2>1. Flags'
    BY <1>6 DEF Serve
  <2>2. Shapes'
    BY <1>6 DEF Serve
  <2>3. (Places /\ OneConnection /\ Holder)'
    BY <1>6 DEF Serve
  <2>4. (Answered /\ SuccessHolds)'
    BY <1>6 DEF Serve
  <2>5. (Ended /\ CloseIsFinal)'
    BY <1>6 DEF Serve
  <2> QED BY <2>1, <2>2, <2>3, <2>4, <2>5
<1>7. CASE Answer
  <2>1. Flags'
    BY <1>7 DEF Answer
  <2>2. Shapes'
    BY <1>7 DEF Answer
  <2>3. (Places /\ OneConnection /\ Holder)'
    BY <1>7 DEF Answer
  <2>4. (Answered /\ SuccessHolds)'
    BY <1>7 DEF Answer
  <2>5. (Ended /\ CloseIsFinal)'
    BY <1>7 DEF Answer
  <2> QED BY <2>1, <2>2, <2>3, <2>4, <2>5
<1>8. CASE Fail
  <2>1. Flags'
    BY <1>8 DEF Fail
  <2>2. Shapes'
    BY <1>8 DEF Fail
  <2>3. (Places /\ OneConnection /\ Holder)'
    BY <1>8 DEF Fail
  <2>4. (Answered /\ SuccessHolds)'
    BY <1>8 DEF Fail
  <2>5. (Ended /\ CloseIsFinal)'
    BY <1>8 DEF Fail
  <2> QED BY <2>1, <2>2, <2>3, <2>4, <2>5
<1>9. CASE Drop
  <2>1. Flags'
    BY <1>9 DEF Drop, AfterDrop
  <2>2. Shapes'
    BY <1>9 DEF Drop, AfterDrop
  <2>3. (Places /\ OneConnection /\ Holder)'
    BY <1>9 DEF Drop, AfterDrop
  <2>4. (Answered /\ SuccessHolds)'
    BY <1>9 DEF Drop, AfterDrop
  <2>5. (Ended /\ CloseIsFinal)'
    BY <1>9 DEF Drop, AfterDrop
  <2> QED BY <2>1, <2>2, <2>3, <2>4, <2>5
<1>10. CASE BeginConnect("main")
  <2>1. Flags'
    BY <1>10 DEF BeginConnect
  <2>2. Shapes'
    BY <1>10 DEF BeginConnect
  <2>3. (Places /\ OneConnection /\ Holder)'
    BY <1>10 DEF BeginConnect
  <2>4. (Answered /\ SuccessHolds)'
    BY <1>10 DEF BeginConnect
  <2>5. (Ended /\ CloseIsFinal)'
    BY <1>10 DEF BeginConnect
  <2> QED BY <2>1, <2>2, <2>3, <2>4, <2>5
<1>11. CASE EndConnect("main")
  <2>1. Fresh \in Conns
    <3>1. client = Nil /\ open \subseteq {client} /\ conn["main"] = Nil
      BY <1>11 DEF EndConnect
    <3> QED BY <3>1, FreshExists
  <2>2. Flags'
    BY <1>11, <2>1 DEF EndConnect, AfterConnect
  <2>3. Shapes'
    BY <1>11, <2>1 DEF EndConnect, AfterConnect
  <2>4. (Places /\ OneConnection /\ Holder)'
    BY <1>11, <2>1 DEF EndConnect, AfterConnect
  <2>5. (Answered /\ SuccessHolds)'
    BY <1>11, <2>1 DEF EndConnect, AfterConnect
  <2>6. (Ended /\ CloseIsFinal)'
    BY <1>11, <2>1 DEF EndConnect, AfterConnect
  <2> QED BY <2>2, <2>3, <2>4, <2>5, <2>6
<1>12. CASE Close
  <2>1. Flags'
    BY <1>12 DEF Close
  <2>2. Shapes'
    BY <1>12 DEF Close
  <2>3. (Places /\ OneConnection /\ Holder)'
    BY <1>12 DEF Close
  <2>4. (Answered /\ SuccessHolds)'
    BY <1>12 DEF Close
  <2>5. (Ended /\ CloseIsFinal)'
    BY <1>12 DEF Close
  <2> QED BY <2>1, <2>2, <2>3, <2>4, <2>5
<1>13. CASE ProbeEnds
  <2>1. Flags'
    BY <1>13 DEF ProbeEnds
  <2>2. Shapes'
    BY <1>13 DEF ProbeEnds
  <2>3. (Places /\ OneConnection /\ Holder)'
    BY <1>13 DEF ProbeEnds
  <2>4. (Answered /\ SuccessHolds)'
    BY <1>13 DEF ProbeEnds
  <2>5. (Ended /\ CloseIsFinal)'
    BY <1>13 DEF ProbeEnds
  <2> QED BY <2>1, <2>2, <2>3, <2>4, <2>5
<1>14. CASE SetFlag
  <2>1. Flags'
    BY <1>14 DEF SetFlag
  <2>2. Shapes'
    BY <1>14 DEF SetFlag
  <2>3. (Places /\ OneConnection /\ Holder)'
    BY <1>14 DEF SetFlag
  <2>4. (Answered /\ SuccessHolds)'
    BY <1>14 DEF SetFlag
  <2>5. (Ended /\ CloseIsFinal)'
    BY <1>14 DEF SetFlag
  <2> QED BY <2>1, <2>2, <2>3, <2>4, <2>5
<1>15. CASE BeginConnect("health")
  <2>1. Flags'
    BY <1>15 DEF BeginConnect
  <2>2. Shapes'
    BY <1>15 DEF BeginConnect
  <2>3. (Places /\ OneConnection /\ Holder)'
    BY <1>15 DEF BeginConnect
  <2>4. (Answered /\ SuccessHolds)'
    BY <1>15 DEF BeginConnect
  <2>5. (Ended /\ CloseIsFinal)'
    BY <1>15 DEF BeginConnect
  <2> QED BY <2>1, <2>2, <2>3, <2>4, <2>5
<1>16. CASE EndConnect("health")
  <2>1. Fresh \in Conns
    <3>1. client = Nil /\ open \subseteq {client} /\ conn["health"] = Nil
      BY <1>16 DEF EndConnect
    <3> QED BY <3>1, FreshExists
  <2>2. Flags'
    BY <1>16, <2>1 DEF EndConnect, AfterConnect
  <2>3. Shapes'
    BY <1>16, <2>1 DEF EndConnect, AfterConnect
  <2>4. (Places /\ OneConnection /\ Holder)'
    BY <1>16, <2>1 DEF EndConnect, AfterConnect
  <2>5. (Answered /\ SuccessHolds)'
    BY <1>16, <2>1 DEF EndConnect, AfterConnect
  <2>6. (Ended /\ CloseIsFinal)'
    BY <1>16, <2>1 DEF EndConnect, AfterConnect
  <2> QED BY <2>2, <2>3, <2>4, <2>5, <2>6
<1>17. CASE Tick
  <2>1. Flags'
    BY <1>17 DEF Tick
  <2>2. Shapes'
    BY <1>17 DEF Tick
  <2>3. (Places /\ OneConnection /\ Holder)'
    BY <1>17 DEF Tick
  <2>4. (Answered /\ SuccessHolds)'
    BY <1>17 DEF Tick
  <2>5. (Ended /\ CloseIsFinal)'
    BY <1>17 DEF Tick
  <2> QED BY <2>1, <2>2, <2>3, <2>4, <2>5
<1>18. CASE Straggler
  <2>1. Flags'
    BY <1>18 DEF Straggler
  <2>2. Shapes'
    BY <1>18 DEF Straggler
  <2>3. (Places /\ OneConnection /\ Holder)'
    BY <1>18 DEF Straggler
  <2>4. (Answered /\ SuccessHolds)'
    BY <1>18 DEF Straggler
  <2>5. (Ended /\ CloseIsFinal)'
    BY <1>18 DEF Straggler
  <2> QED BY <2>1, <2>2, <2>3, <2>4, <2>5
<1>19. CASE \E k \in Kinds : BeginCall(k)
  <2>1. PICK k \in Kinds : BeginCall(k)
    BY <1>19
  <2>2. Flags'
    BY <2>1 DEF BeginCall
  <2>3. Shapes'
    BY <2>1 DEF BeginCall
  <2>4. (Places /\ OneConnection /\ Holder)'
    BY <2>1 DEF BeginCall
  <2>5. (Answered /\ SuccessHolds)'
    BY <2>1 DEF BeginCall
  <2>6. (Ended /\ CloseIsFinal)'
    BY <2>1 DEF BeginCall
  <2> QED BY <2>2, <2>3, <2>4, <2>5, <2>6
<1>20. CASE Cancel
  <2>1. Flags'
    BY <1>20 DEF Cancel
  <2>2. Shapes'
    BY <1>20 DEF Cancel
  <2>3. (Places /\ OneConnection /\ Holder)'
    BY <1>20 DEF Cancel
  <2>4. (Answered /\ SuccessHolds)'
    BY <1>20 DEF Cancel
  <2>5. (Ended /\ CloseIsFinal)'
    BY <1>20 DEF Cancel
  <2> QED BY <2>1, <2>2, <2>3, <2>4, <2>5
<1>21. CASE HealthExits
  <2>1. Flags'
    BY <1>21 DEF HealthExits
  <2>2. Shapes'
    BY <1>21 DEF HealthExits
  <2>3. (Places /\ OneConnection /\ Holder)'
    BY <1>21 DEF HealthExits
  <2>4. (Answered /\ SuccessHolds)'
    BY <1>21 DEF HealthExits
  <2>5. (Ended /\ CloseIsFinal)'
    BY <1>21 DEF HealthExits
  <2> QED BY <2>1, <2>2, <2>3, <2>4, <2>5
<1>22. CASE BeginClose
  <2>1. Flags'
    BY <1>22 DEF BeginClose
  <2>2. Shapes'
    BY <1>22 DEF BeginClose
  <2>3. (Places /\ OneConnection /\ Holder)'
    BY <1>22 DEF BeginClose
  <2>4. (Answered /\ SuccessHolds)'
    BY <1>22 DEF BeginClose
  <2>5. (Ended /\ CloseIsFinal)'
    BY <1>22 DEF BeginClose
  <2> QED BY <2>1, <2>2, <2>3, <2>4, <2>5
<1>23. CASE UNCHANGED vars
  <2>1. Flags'
    BY <1>23 DEF vars
  <2>2. Shapes'
    BY <1>23 DEF vars
  <2>3. (Places /\ OneConnection /\ Holder)'
    BY <1>23 DEF vars
  <2>4. (Answered /\ SuccessHolds)'
    BY <1>23 DEF vars
  <2>5. (Ended /\ CloseIsFinal)'
    BY <1>23 DEF vars
  <2> QED BY <2>1, <2>2, <2>3, <2>4, <2>5
<1> QED BY <1>1, <1>2, <1>3, <1>4, <1>5, <1>6, <1>7, <1>8, <1>9, <1>10, <1>11, <1>12,
         <1>13, <1>14, <1>15, <1>16, <1>17, <1>18, <1>19, <1>20, <1>21, <1>22, <1>23 DEF Next, OBS, Main, Health

-----------------------------------------------------------------------------

LEMMA Invariant == Spec => []Inv
<1>1. Init => Inv
  BY InitInv
<1>2. Inv /\ [Next]_vars => Inv'
  BY RestNext, ProbingNext, NumbersNext DEF Inv, Rest
<1> QED BY <1>1, <1>2, PTL DEF Spec

\* Every variable keeps its type.
THEOREM TypeCorrect == Spec => []TypeOK
<1>1. Inv => TypeOK
  BY Zenon DEF Inv, Flags, Numbers, Shapes, TypeOK
<1> QED BY Invariant, <1>1, PTL

\* The health check and the main loop never leave a connection behind, and
\* never dial at once.
THEOREM AlwaysOneConnection == Spec => []OneConnection
<1>1. Inv => OneConnection
  BY DEF Inv
<1> QED BY Invariant, <1>1, PTL

\* StartRecording and StopRecording report success only for what OBS has done.
THEOREM SuccessAlwaysHolds == Spec => []SuccessHolds
<1>1. Inv => SuccessHolds
  BY DEF Inv
<1> QED BY Invariant, <1>1, PTL

\* However many probes time out, one goroutine at most is inside GetVersion.
THEOREM ProbesAlwaysBounded == Spec => []ProbesBounded
<1>1. Inv => ProbesBounded
  <2>1. ASSUME Inv PROVE probes = 0 \/ probes = 1
    BY <2>1, Zenon DEF Inv, Probing
  <2> QED BY <2>1 DEF ProbesBounded
<1> QED BY Invariant, <1>1, PTL

\* Nothing reconnects after Close has returned.
THEOREM CloseAlwaysFinal == Spec => []CloseIsFinal
<1>1. Inv => CloseIsFinal
  BY DEF Inv
<1> QED BY Invariant, <1>1, PTL

-----------------------------------------------------------------------------
(* The client is what the main loop takes it for *)

\* Steps the contract does not see.
Hidden == UNCHANGED <<recording, late, CallNow, SettledNow>>

LEMMA InitRefines == Init => Contract!Init
BY DEF Init, Contract!Init, CallNow, SettledNow, NoCall

\* Steps that leave main, OBS and the answers alone.
LEMMA HiddenStep ==
  ASSUME UNCHANGED <<recording, late, disturbed, want, result>>,
         pc'["main"] = pc["main"]
  PROVE  Hidden
BY DEF Hidden, CallNow, SettledNow, NoCall

LEMMA StepRefines == Inv /\ [Next]_vars => [Contract!Next]_(Contract!vars)
<1> SUFFICES ASSUME Inv, [Next]_vars PROVE Contract!Next \/ Hidden
  BY DEF Contract!vars, Hidden
<1>1. /\ Places /\ want \in {"start", "stop"} /\ recording \in BOOLEAN /\ disturbed \in BOOLEAN
      /\ result \in BOOLEAN
  BY Zenon DEF Inv, Flags, Shapes, Kinds
<1> USE DEF obs, call, Goto, Places, Threads
<1>2. ASSUME ~NoCall
      PROVE  CallNow = want /\ SettledNow = (~disturbed /\ pc["main"] = "answered")
  BY <1>2 DEF CallNow, SettledNow
<1>3. ASSUME NoCall
      PROVE  CallNow = "none" /\ SettledNow = (~disturbed /\ result)
  BY <1>3 DEF CallNow, SettledNow
<1>4. CASE Quit
  <2>1. /\ recording' = FALSE /\ late' = {} /\ disturbed' = (disturbed \/ recording)
        /\ UNCHANGED <<pc, want, result>>
    BY <1>4 DEF Quit
  <2>2. CallNow' = CallNow /\ SettledNow' = (SettledNow /\ ~recording)
    BY <1>1, <2>1 DEF CallNow, SettledNow, NoCall
  <2> QED BY <2>1, <2>2 DEF Contract!Next, Contract!Quit
<1>5. CASE ServeLate
  <2>1. PICK k \in late : recording' = (k = "start") /\ late' \in {late, late \ {k}}
    BY <1>5 DEF ServeLate
  <2>2. disturbed' = (disturbed \/ recording' # recording) /\ UNCHANGED <<pc, want, result>>
    BY <1>5 DEF ServeLate
  <2>3. CallNow' = CallNow /\ SettledNow' = (SettledNow /\ recording' = recording)
    BY <1>1, <2>2 DEF CallNow, SettledNow, NoCall
  <2> QED BY <2>1, <2>3 DEF Contract!Next, Contract!ServeLate
<1>6. CASE \E k \in Kinds : BeginCall(k)
  <2>1. PICK k \in Kinds : BeginCall(k)
    BY <1>6
  <2>2. /\ pc["main"] = "idle" /\ pc'["main"] = "read" /\ want' = k
        /\ UNCHANGED <<recording, late, disturbed>>
    BY <1>1, <2>1 DEF BeginCall
  <2>3. CallNow = "none" /\ CallNow' = k /\ SettledNow' = FALSE
    BY <2>2 DEF CallNow, SettledNow, NoCall
  <2> QED BY <2>2, <2>3 DEF Contract!Next, Contract!Begin, Contract!Requests, Kinds
<1>7. CASE Serve
  <2>1. /\ pc["main"] = "call" /\ pc'["main"] = "answered" /\ recording' = (want = "start")
        /\ disturbed' = FALSE /\ UNCHANGED <<late, want>>
    BY <1>1, <1>7 DEF Serve
  <2>2. CallNow = want /\ CallNow' = want /\ SettledNow = FALSE /\ SettledNow' = TRUE
    BY <2>1 DEF CallNow, SettledNow, NoCall
  <2> QED BY <1>1, <2>1, <2>2 DEF Contract!Next, Contract!Serve
<1>8. CASE Answer
  <2>1. /\ pc["main"] = "answered" /\ pc'["main"] = "idle" /\ result' = TRUE
        /\ UNCHANGED <<recording, late, disturbed, want>>
    BY <1>1, <1>8 DEF Answer, Return
  <2>2. CallNow = want /\ CallNow' = "none" /\ SettledNow' = SettledNow
    BY <1>1, <2>1 DEF CallNow, SettledNow, NoCall
  <2> QED BY <1>1, <2>1, <2>2 DEF Contract!Next, Contract!Return
<1>9. CASE Fail
  <2>1. /\ pc["main"] \in {"call", "answered"} /\ pc'["main"] = "drop"
        /\ late' \in {late, late \cup {want}} /\ (pc["main"] = "answered" => late' = late)
        /\ UNCHANGED <<recording, disturbed, want>>
    BY <1>1, <1>9 DEF Fail
  <2>2. /\ CallNow = want /\ CallNow' = want /\ SettledNow' = FALSE
        /\ SettledNow => pc["main"] = "answered"
    BY <2>1 DEF CallNow, SettledNow, NoCall
  <2> QED BY <1>1, <2>1, <2>2 DEF Contract!Next, Contract!GiveUp
\* An attempt ends without an answer: the call goes on, or returns an error.
<1>10. ASSUME /\ pc["main"] \in {"read", "drop"}
              /\ pc'["main"] \in {"call", "reconnect", "idle"}
              /\ pc'["main"] = "idle" => result' = FALSE
              /\ UNCHANGED <<recording, late, disturbed, want>>
       PROVE  Contract!Next \/ Hidden
  <2>1. CallNow = want /\ SettledNow = FALSE /\ SettledNow' = FALSE
    BY <1>10 DEF CallNow, SettledNow, NoCall
  <2>2. CASE pc'["main"] = "idle"
    <3>1. CallNow' = "none"
      BY <2>2 DEF CallNow, NoCall
    <3> QED BY <1>1, <1>10, <2>1, <3>1 DEF Contract!Next, Contract!Return
  <2>3. CASE pc'["main"] # "idle"
    <3>1. CallNow' = want
      BY <1>10, <2>3 DEF CallNow, NoCall
    <3> QED BY <1>10, <2>1, <3>1 DEF Hidden
  <2> QED BY <2>2, <2>3
<1>11. CASE Read
  <2>1. /\ pc["main"] = "read" /\ pc'["main"] \in {"call", "reconnect", "idle"}
        /\ pc'["main"] = "idle" => result' = FALSE
        /\ UNCHANGED <<recording, late, disturbed, want>>
    BY <1>1, <1>11 DEF Read, Return
  <2> QED BY <1>10, <2>1
<1>12. CASE Drop
  <2>1. /\ pc["main"] = "drop" /\ pc'["main"] \in {"reconnect", "idle"}
        /\ pc'["main"] = "idle" => result' = FALSE
        /\ UNCHANGED <<recording, late, disturbed, want>>
    BY <1>1, <1>12 DEF Drop, AfterDrop, Return
  <2> QED BY <1>10, <2>1
\* Main dials, or closes behind its last call.
<1>13. CASE BeginConnect("main") \/ EndConnect("main") \/ BeginClose \/ Close
  <2>1. /\ UNCHANGED <<recording, late, disturbed, want, result>>
        /\ \/ pc["main"] \in {"reconnect", "failed", "dial", "redial"}
              /\ pc'["main"] \in {"dial", "redial", "read"}
           \/ pc["main"] \in {"idle", "closing"} /\ pc'["main"] \in {"closing", "closed"}
    BY <1>1, <1>13 DEF BeginConnect, EndConnect, AfterConnect, BeginClose, Close
  <2>2. CallNow' = CallNow /\ SettledNow' = SettledNow
    BY <2>1 DEF CallNow, SettledNow, NoCall
  <2> QED BY <2>1, <2>2 DEF Hidden
<1>14. CASE \/ Launch \/ Break \/ Health \/ Tick \/ Straggler \/ Cancel \/ HealthExits
  <2>1. UNCHANGED <<recording, late, disturbed, want, result>> /\ pc'["main"] = pc["main"]
    BY <1>1, <1>14 DEF Launch, Break, Health, ProbeEnds, SetFlag, BeginConnect, EndConnect, Tick,
       Straggler, Cancel, HealthExits
  <2> QED BY <2>1, HiddenStep
<1>15. CASE UNCHANGED vars
  BY <1>15, HiddenStep DEF vars
<1> QED BY <1>4, <1>5, <1>6, <1>7, <1>8, <1>9, <1>11, <1>12, <1>13, <1>14, <1>15
        DEF Next, OBS, Main

\* The client implements the contract the main loop relies on: whatever becomes of
\* its connections, a call that returns success was served, and OBS deviates from
\* it only by a quit or a request that was given up on.
THEOREM ClientKeepsContract == Spec => ImplementsObsContract
<1>1. Inv /\ [Next]_vars => [Contract!Next]_(Contract!vars)
  BY StepRefines
<1> QED BY Invariant, InitRefines, <1>1, PTL DEF Spec, ImplementsObsContract, Contract!Spec
=============================================================================
