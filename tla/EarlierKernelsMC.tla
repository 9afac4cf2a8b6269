-------------------------- MODULE EarlierKernelsMC --------------------------
(* A small instance of EarlierKernels for TLC.                             *)
EXTENDS EarlierKernels, TLC

CONSTANTS p1, p2, t1, t2, t3

\* Two threads of a process, which make fibers, read /proc and end, and one of
\* another process that opens and closes the device.
HomeOf == (t1 :> p1) @@ (t2 :> p1) @@ (t3 :> p2)

Symmetric == Permutations({t1, t2}) \cup Permutations(Fibers)
=============================================================================
