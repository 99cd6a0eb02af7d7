-------------------------- MODULE RequestContract ---------------------------
(***************************************************************************)
(* What the upload protocol takes one postJSON or getJSON for: a call the  *)
(* server carries out at most once, and has carried out when it reports    *)
(* success.  A call that fails leaves open whether it was.                 *)
(***************************************************************************)
EXTENDS Integers

VARIABLES
  busy,      \* a call is under way
  executed,  \* how often the server has carried it out
  result     \* of the call before: "none", "ok" or "failed"

vars == <<busy, executed, result>>

Init == busy = FALSE /\ executed = 0 /\ result = "none"

Call ==
  /\ ~busy
  /\ busy' = TRUE /\ executed' = 0 /\ result' = "none"

Execute ==
  /\ busy /\ executed = 0
  /\ executed' = 1
  /\ UNCHANGED <<busy, result>>

Return ==
  /\ busy
  /\ busy' = FALSE
  /\ result' \in {"ok", "failed"}
  /\ result' = "ok" => executed = 1
  /\ UNCHANGED executed

Next == Call \/ Execute \/ Return

Spec == Init /\ [][Next]_vars
=============================================================================
