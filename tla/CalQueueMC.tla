----------------------------- MODULE CalQueueMC -----------------------------
(* Instances of CalQueue for TLC: how far ahead events are scheduled. *)
EXTENDS CalQueue

NearAndFar == {1, 7}
=============================================================================
