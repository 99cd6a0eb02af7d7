---------------------------- MODULE ObsContract ----------------------------
(***************************************************************************)
(* What the main loop may take StartRecording and StopRecording for.  A    *)
(* call ends when OBS has answered or the client has given up; a request   *)
(* it has given up on may still be carried out, even after the answer to a *)
(* later call.  OBS may quit at any time.  Nobody tells the loop of either.*)
(***************************************************************************)
EXTENDS Integers

VARIABLES
  recording,  \* OBS is recording
  late,       \* requests OBS may carry out although nobody waits for them
  call,       \* "start" or "stop" while a call is under way, "none" between two
  settled     \* history: OBS has answered the call under way, or else the last
              \* one, and has stayed in that state since

vars == <<recording, late, call, settled>>

Requests == {"start", "stop"}

Init ==
  /\ recording = FALSE /\ late = {}
  /\ call = "none" /\ settled = TRUE

Begin(k) ==
  /\ call = "none"
  /\ call' = k /\ settled' = FALSE
  /\ UNCHANGED <<recording, late>>

Serve ==
  /\ call # "none" /\ ~settled
  /\ recording' = (call = "start") /\ settled' = TRUE
  /\ UNCHANGED <<late, call>>

\* An error or the timeout, after an answer that was lost or before any.
GiveUp ==
  /\ call # "none"
  /\ settled' = FALSE
  /\ late' \in IF settled THEN {late} ELSE {late, late \cup {call}}
  /\ UNCHANGED <<recording, call>>

Return ==
  /\ call # "none"
  /\ call' = "none"
  /\ UNCHANGED <<recording, late, settled>>

Quit ==
  /\ recording' = FALSE /\ late' = {}
  /\ settled' = (settled /\ ~recording)
  /\ UNCHANGED call

\* Equal late requests are one element, so it may stay after it was served.
ServeLate ==
  /\ \E k \in late :
       /\ recording' = (k = "start")
       /\ late' \in {late, late \ {k}}
  /\ settled' = (settled /\ recording' = recording)
  /\ UNCHANGED call

Next ==
  \/ \E k \in Requests : Begin(k)
  \/ Serve \/ GiveUp \/ Return \/ Quit \/ ServeLate

Spec == Init /\ [][Next]_vars
=============================================================================
