---------------------------- MODULE MCObsClient -----------------------------
(* Three connections: each thread may hold an old one while a third is made. *)
EXTENDS ObsClient
=============================================================================
