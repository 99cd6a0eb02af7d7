--------------------------- MODULE MCConfigStore ----------------------------
(* Two posts at once, each with an open file of its own, beside the          *)
(* configuration and the temporary file.                                     *)
EXTENDS ConfigStore, TLC

Symmetry == Permutations(Posts)
=============================================================================
