---------------------------- MODULE FiberDeviceMC ----------------------------
EXTENDS FiberDevice, TLC

CONSTANTS p1, p2, r1, r2
OneBucket == (p1 :> 1) @@ (p2 :> 1)

Symmetry == Permutations({p1, p2}) \cup Permutations({r1, r2})
=============================================================================
