--------------------------- MODULE MCSessionLogger ---------------------------
(* Two sessions of up to three lines and their trailer, one topic, readings  *)
(* with a NaN among them, a channel that one command fills.                  *)
EXTENDS SessionLogger

TwoFiles == {1, 2}
=============================================================================
