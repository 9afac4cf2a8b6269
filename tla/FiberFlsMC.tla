----------------------------- MODULE FiberFlsMC -----------------------------
(* A small instance of FiberFls for TLC.                                    *)
EXTENDS FiberFls, TLC

SideBySide == 1..4          \* the four arrays in a row, in any order
\* the last slot, and the word past either end of an array
LastAndOut == {-1, FlsSize-1, FlsSize}

Symmetric == Permutations(Threads) \cup Permutations(Fibers)
=============================================================================
