------------------------------ MODULE FlsStore ------------------------------
(***************************************************************************)
(* What fiber-local storage promises: each fiber has its own slots, a slot *)
(* is usable from its allocation to its release, a value set is the value  *)
(* got until it is set again, and nothing another fiber does, on whatever  *)
(* thread, changes it.                                                     *)
(*                                                                         *)
(* The handlers test no index and use -1 as one, so the promise has an     *)
(* edge.  A call for an index just outside of 0..FlsSize-1, or for a slot  *)
(* when none is free, may change one word of any fiber, at the end of an   *)
(* array where that index leads: never a second one, nor one in between.   *)
(***************************************************************************)
EXTENDS Integers

CONSTANTS Fibers, NONE,  \* the fibers of the process, and none of them
          FlsSize,       \* slots per fiber
          Values,        \* the values stored, integers
          Indices        \* the indices passed

Index == 0..FlsSize-1

VARIABLES granted,  \* granted[f]: the slots allocated to fiber f
          value,    \* value[f][i]
          answer    \* the last call: its fiber, the index and what it returned
vars == <<granted, value, answer>>

Init ==
  /\ granted = [f \in Fibers |-> {}]
  /\ value   = [f \in Fibers |-> [i \in Index |-> 0]]
  /\ answer  = <<NONE, "none", 0, 0>>

\* The word that index i, outside of Index, is in a neighbouring array.
Edge(i) == IF i < 0 THEN FlsSize-1 ELSE 0

\* v goes to index i, outside of Index: to a bit or a value of some fiber, or
\* to memory that is no fiber's.
Spill(i, v) ==
  \/ UNCHANGED <<granted, value>>
  \/ \E g \in Fibers :
       /\ granted' = [granted EXCEPT ![g] = IF v = 0 THEN @ \ {Edge(i)} ELSE @ \cup {Edge(i)}]
       /\ UNCHANGED value
  \/ \E g \in Fibers :
       /\ value' = [value EXCEPT ![g][Edge(i)] = v]
       /\ UNCHANGED granted

\* Some free slot; what it held is not cleared.
Alloc(f) == \E i \in Index \ granted[f] :
  /\ granted' = [granted EXCEPT ![f] = @ \cup {i}]
  /\ answer'  = <<f, "alloc", 0, i>>
  /\ UNCHANGED value

NoSlot(f) ==
  /\ granted[f] = Index
  /\ answer' = <<f, "alloc", 0, -1>>
  /\ Spill(-1, 1)

Free(f, i) ==
  /\ granted' = [granted EXCEPT ![f] = @ \ {i}]
  /\ answer'  = <<f, "free", i, IF i \in granted[f] THEN 1 ELSE 0>>
  /\ UNCHANGED value

Get(f, i) ==
  /\ answer' = <<f, "get", i, IF i \in granted[f] THEN value[f][i] ELSE -1>>
  /\ UNCHANGED <<granted, value>>

Set(f, i, v) ==
  /\ value'  = IF i \in granted[f] THEN [value EXCEPT ![f][i] = v] ELSE value
  /\ answer' = <<f, "set", i, 0>>
  /\ UNCHANGED granted

\* The same calls for an index that is none of a slot.
FreeStray(f, i) ==
  \/ answer' = <<f, "free", i, 1>> /\ Spill(i, 0)
  \/ answer' = <<f, "free", i, 0>> /\ UNCHANGED <<granted, value>>

GetStray(f, i) ==
  /\ answer' \in {f} \X {"get"} \X {i} \X Int
  /\ UNCHANGED <<granted, value>>

SetStray(f, i, v) == answer' = <<f, "set", i, 0>> /\ Spill(i, v)

Next == \E f \in Fibers :
  \/ Alloc(f) \/ NoSlot(f)
  \/ \E i \in Index : Free(f, i) \/ Get(f, i) \/ \E v \in Values : Set(f, i, v)
  \/ \E i \in Indices \ Index :
       FreeStray(f, i) \/ GetStray(f, i) \/ \E v \in Values : SetStray(f, i, v)

Spec == Init /\ [][Next]_vars
=============================================================================
