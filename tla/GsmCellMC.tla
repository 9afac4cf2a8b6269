----------------------------- MODULE GsmCellMC -----------------------------
(* GsmCell as TLC checks it: the constants are numbers, set in the cfg. *)
EXTENDS GsmCell
=============================================================================
