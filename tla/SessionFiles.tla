---------------------------- MODULE SessionFiles ----------------------------
(***************************************************************************)
(* What others see of the session logger: the files it creates one after   *)
(* the other, the one it has open, and the active session id of its Stats. *)
(* The uploader relies on this and on nothing else; SessionLogger          *)
(* implements it.                                                          *)
(***************************************************************************)
EXTENDS Integers

CONSTANTS Files, Nil

VARIABLES
  writer,   \* the file the logger has open
  active,   \* the session id it reports
  lines     \* complete lines of each file on disk, Nil before its creation

vars == <<writer, active, lines>>

Init == writer = Nil /\ active = Nil /\ lines = [f \in Files |-> Nil]

\* A session is never reopened and never overlaps the one before.
Create(f) ==
  /\ writer = Nil /\ active = Nil
  /\ lines[f] = Nil
  /\ \A g \in Files : g < f => lines[g] # Nil
  /\ writer' = f
  /\ lines' = [lines EXCEPT ![f] = 0]
  /\ UNCHANGED active

\* The id becomes visible after the file has.
Publish ==
  /\ writer # Nil /\ active = Nil
  /\ active' = writer
  /\ UNCHANGED <<writer, lines>>

\* Lines appear in the published file only.
Flush(n) ==
  /\ writer # Nil /\ active = writer
  /\ n \in Nat /\ n > lines[writer]
  /\ lines' = [lines EXCEPT ![writer] = n]
  /\ UNCHANGED <<writer, active>>

Close ==
  /\ writer # Nil /\ active = writer
  /\ writer' = Nil
  /\ UNCHANGED <<active, lines>>

\* The id disappears after the file is complete.
Clear ==
  /\ writer = Nil /\ active # Nil
  /\ active' = Nil
  /\ UNCHANGED <<writer, lines>>

\* The process ends, gracefully or not.
Stop ==
  /\ writer' = Nil /\ active' = Nil
  /\ UNCHANGED lines

Next ==
  \/ \E f \in Files : Create(f)
  \/ Publish
  \/ Flush(lines'[writer])
  \/ Close \/ Clear \/ Stop

Spec == Init /\ [][Next]_vars
=============================================================================
