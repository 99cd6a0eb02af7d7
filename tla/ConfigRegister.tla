--------------------------- MODULE ConfigRegister ---------------------------
(***************************************************************************)
(* What users of the configuration are promised, without files, mutexes or *)
(* partial writes: one configuration in memory and one saved.  The saved   *)
(* one is replaced as a whole by the one in memory; a post that reports    *)
(* success has saved what is in memory; a reload and a restart bring back  *)
(* what is saved.  Posts that overlap void the first two promises until a  *)
(* post has the file to itself again, and never the last one.              *)
(***************************************************************************)
CONSTANT Configs

VARIABLES
  state,    \* "idle", "busy" while posts are answered, or "down"
  memory,   \* the configuration the program uses
  saved,    \* the one it would start with
  failed,   \* the last post reported an error
  exposed   \* posts have overlapped

vars == <<state, memory, saved, failed, exposed>>

Init ==
  /\ state = "idle" /\ memory \in Configs /\ saved = memory
  /\ failed = FALSE /\ exposed = FALSE

\* A post that finds another one under way exposes the file.
Begin ==
  /\ state # "down" /\ state' = "busy"
  /\ exposed' \in BOOLEAN
  /\ state = "busy" => exposed'
  /\ state = "idle" /\ exposed' => exposed
  /\ UNCHANGED <<memory, saved, failed>>

Change ==
  /\ state = "busy"
  /\ memory' \in Configs
  /\ UNCHANGED <<failed, exposed, state, saved>>

Replace ==
  /\ state = "busy"
  /\ saved' \in Configs
  /\ ~exposed => saved' = memory
  /\ UNCHANGED <<state, memory, failed, exposed>>

Answer ==
  /\ state = "busy" /\ state' \in {"idle", "busy"}
  /\ failed' \in BOOLEAN
  /\ ~exposed => state' = "idle" /\ (failed' \/ saved = memory)
  /\ UNCHANGED <<memory, saved, exposed>>

Load ==
  /\ state # "down"
  /\ memory' = saved
  /\ exposed' = (exposed \/ state = "busy")
  /\ failed' = (failed /\ state = "busy")
  /\ UNCHANGED <<state, saved>>

\* The process ends, or the machine loses power.
Stop ==
  /\ state # "down" /\ state' = "down"
  /\ memory' \in Configs /\ saved' \in Configs
  /\ ~exposed => saved' = saved
  /\ UNCHANGED <<failed, exposed>>

Start ==
  /\ state = "down" /\ state' = "idle"
  /\ memory' = saved
  /\ failed' = FALSE
  /\ exposed' \in BOOLEAN /\ (exposed' => exposed)
  /\ UNCHANGED saved

Next == Change \/ Replace \/ Answer \/ Begin \/ Load \/ Stop \/ Start

Spec == Init /\ [][Next]_vars
=============================================================================
