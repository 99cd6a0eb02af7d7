---------------------------- MODULE MCLifecycle ----------------------------
(* Two requests to the dashboard and one subsystem beside it. *)
EXTENDS Lifecycle

TwoRequests == {"r1", "r2"}
OneSubsystem == {"loop"}
=============================================================================
