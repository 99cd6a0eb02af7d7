---------------------------- MODULE MCNtPipeline ----------------------------
(* Every channel holds one or two values, so that each of them fills up. *)
EXTENDS NtPipeline
=============================================================================
