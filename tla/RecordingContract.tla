------------------------- MODULE RecordingContract --------------------------
(***************************************************************************)
(* What a recorder driven by the match state machine promises, without     *)
(* the machine: a poll that meets the trigger always leaves the recording  *)
(* running, and a recording is given up only once the trigger has been     *)
(* quiet for MinHold, or because the operator paused collection.           *)
(***************************************************************************)
EXTENDS Integers

CONSTANTS
  MinHold,   \* the shortest quiet time after which a recording may stop
  Horizon,   \* times from here on are not told apart
  Steps      \* the possible times between two polls

VARIABLES
  recording, \* the recording is running
  quiet      \* time since the last poll that met the trigger

vars == <<recording, quiet>>

Saturated(t) == IF t < Horizon THEN t ELSE Horizon

Init == recording = FALSE /\ quiet = Horizon

TriggeredPoll == recording' = TRUE /\ quiet' = 0

QuietPoll(d) ==
  /\ quiet' = Saturated(quiet + d)
  /\ recording' # recording => recording /\ quiet' >= MinHold
  /\ recording' \in BOOLEAN

ForcedStop == recording' = FALSE /\ UNCHANGED quiet

Next ==
  \/ TriggeredPoll
  \/ \E d \in Steps : QuietPoll(d)
  \/ ForcedStop

Spec == Init /\ [][Next]_vars
=============================================================================
