----------------------------- MODULE MCMainLoop -----------------------------
(* A small instance of MainLoop: practice and FMS words, delays of one unit, *)
(* OBS on "any" and collection on "fms", as main.go suggests.                *)
EXTENDS MainLoop

\* Disabled and enabled, without and with the FMS.
ThreeWords == {0, 1, 17}
UnitStep == {1}
=============================================================================
