---------------------------- MODULE UserFibersMC ----------------------------
(* Two processors, and the three fibers main.c then asks for at least.     *)
EXTENDS UserFibers

CONSTANTS m, w, c1, c2
MCWorkers == {w}
MCCells   == {c1, c2}
=============================================================================
