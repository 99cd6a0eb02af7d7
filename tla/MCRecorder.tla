----------------------------- MODULE MCRecorder -----------------------------
(* A small instance of Recorder: every combination of the five flags the   *)
(* machine reads, delays of a few time units, polls one or two units apart. *)
EXTENDS Recorder

AllWords == 0..31
Jumps == {3}
=============================================================================
