--------------------------- MODULE FiberSwitchMC ---------------------------
(* Small instances of FiberSwitch for TLC.                                 *)
EXTENDS FiberSwitch, TLC

\* Two chains, so that fibers share a bucket and fibers do not.
Parity   == [i \in 0..MaxId |-> i % 2]
OneChain == [i \in 0..MaxId |-> 0]

Symmetric == Permutations(Threads) \cup Permutations(Fibers)
=============================================================================
