------------------------------ MODULE Delivery ------------------------------
(***************************************************************************)
(* What store-and-forward promises, without goroutines, markers, retries   *)
(* or crashes: a server's copy of a session only ever grows, by entries    *)
(* that are on disk; and a finished session leaves the queue only once     *)
(* every target then enabled holds all of it, never to come back.          *)
(***************************************************************************)
EXTENDS Integers

CONSTANTS Files, Targets, Nil

VARIABLES
  enabled,  \* targets that count at the moment
  size,     \* entries of each session on disk, Nil before it begins
  held,     \* held[t][f]: entries of f that server t holds
  queue,    \* sessions waiting for a server to take them
  writer,   \* the session being recorded
  exposed   \* sessions read for upload while they were recorded

vars == <<enabled, size, held, queue, writer, exposed>>

Init ==
  /\ enabled = {} /\ queue = {} /\ writer = Nil /\ exposed = {}
  /\ size = [f \in Files |-> Nil]
  /\ held = [t \in Targets |-> [f \in Files |-> 0]]

Reconfigure == enabled' \in SUBSET Targets /\ UNCHANGED <<size, held, queue, writer, exposed>>

Begin(f) ==
  /\ writer = Nil /\ size[f] = Nil
  /\ size' = [size EXCEPT ![f] = 0]
  /\ queue' = queue \cup {f}
  /\ writer' = f
  /\ UNCHANGED <<enabled, held, exposed>>

Grow(f) ==
  /\ f = writer
  /\ size' = [size EXCEPT ![f] = size'[f]]
  /\ size'[f] \in Nat /\ size'[f] >= size[f]
  /\ UNCHANGED <<enabled, held, queue, writer, exposed>>

Finish ==
  /\ writer' = Nil
  /\ UNCHANGED <<enabled, size, held, queue, exposed>>

Expose ==
  /\ writer # Nil
  /\ exposed' = exposed \cup {writer}
  /\ UNCHANGED <<enabled, size, held, queue, writer>>

Deliver(f, t) ==
  /\ f \in queue
  /\ held' = [held EXCEPT ![t][f] = held'[t][f]]
  /\ held'[t][f] > held[t][f] /\ held'[t][f] <= size[f]
  /\ UNCHANGED <<enabled, size, queue, writer, exposed>>

Retire(f) ==
  /\ f \in queue
  /\ f \notin exposed => f # writer /\ \A t \in enabled : held[t][f] = size[f]
  /\ queue' = queue \ {f}
  /\ UNCHANGED <<enabled, size, held, writer, exposed>>

Next ==
  \/ Reconfigure \/ Finish \/ Expose
  \/ \E f \in Files : Begin(f) \/ Grow(f) \/ Retire(f)
  \/ \E f \in Files, t \in Targets : Deliver(f, t)

Spec == Init /\ [][Next]_vars
=============================================================================
