------------------------------ MODULE FiberFls ------------------------------
(***************************************************************************)
(* Fiber-local storage in the kernel module: flsAlloc, flsFree,            *)
(* flsGetValue and flsSetValue on the fiber the calling thread runs, while *)
(* fibers move between threads.                                            *)
(*                                                                         *)
(* The two arrays of a fiber, fls and bitmap_fls, are slab objects of the  *)
(* same size (kzalloc of 128 words), so memory is a row of slots of        *)
(* FlsSize words, and an index past either end of an array reads and       *)
(* writes the word it really reaches, the nearest one of the neighbour.    *)
(* Only the thread running a fiber reaches its arrays, and no fiber runs   *)
(* twice (FiberSwitch, Exclusive), so one call is one step here; its lock  *)
(* and grace period are steps of FiberSwitch.                              *)
(***************************************************************************)
EXTENDS Integers

CONSTANTS
  Threads, Fibers, NONE,
  FlsSize,    \* FLS_SIZE (128 in the code)
  Values,     \* the values a process stores
  Slots,      \* the slots of the slab the arrays may be given; the others
              \* next to them hold unrelated objects
  Indices     \* the indices a process passes, or one past either end

ASSUME FlsAssumption ==
  /\ NONE \notin Fibers /\ NONE \notin Slots
  /\ FlsSize \in Nat \ {0} /\ Slots \subseteq Int
  /\ Values \subseteq Int
  /\ Indices \subseteq -1..FlsSize

Index    == 0..FlsSize-1
AllSlots == UNION {{s - 1, s, s + 1} : s \in Slots}

VARIABLES
  running,          \* running[t]: the fiber thread t runs
  fls, bitmap_fls,  \* the slot of each array, NONE before the fiber exists
  memory,           \* memory[s][i]: word i of slot s
  answer            \* the last call made and what it returned
vars == <<running, fls, bitmap_fls, memory, answer>>

Exists(f) == fls[f] # NONE
Taken     == {fls[f] : f \in Fibers} \cup {bitmap_fls[f] : f \in Fibers}

\* Mutant of Zeroed: the arrays are allocated one word too long.
ZeroedLonger == [i \in 0..FlsSize |-> 0]

Zeroed    == [i \in Index |-> 0]

Init ==
  /\ running    = [t \in Threads |-> NONE]
  /\ fls        = [f \in Fibers |-> NONE]
  /\ bitmap_fls = [f \in Fibers |-> NONE]
  /\ memory     = [s \in AllSlots |-> Zeroed]
  /\ answer     = <<NONE, "none", 0, 0>>
-----------------------------------------------------------------------------
\* Word i of the array in slot s, for the index one past either end too.
SlotOf(s, i) == IF i < 0 THEN s - 1 ELSE IF i < FlsSize THEN s ELSE s + 1
WordOf(i)    == IF i < 0 THEN FlsSize - 1 ELSE IF i < FlsSize THEN i ELSE 0

Word(s, i)     == memory[SlotOf(s, i)][WordOf(i)]
Write(s, i, v) == memory' = [memory EXCEPT ![SlotOf(s, i)][WordOf(i)] = v]

\* if (index < FLS_SIZE || index >= 0): no index fails it.
InRange(i) == i < FlsSize \/ i >= 0

\* Mutant of InUse: the bitmap is not consulted.
InUseAlways(f, i) == f \in Fibers /\ InRange(i)

InUse(f, i) == InRange(i) /\ Word(bitmap_fls[f], i) # 0
-----------------------------------------------------------------------------
\* do_fib_create allocates both arrays, zeroed, wherever the slab has room.
Create(f) ==
  /\ ~Exists(f)
  /\ \E s, b \in Slots \ Taken :
       /\ s # b
       /\ fls' = [fls EXCEPT ![f] = s]
       /\ bitmap_fls' = [bitmap_fls EXCEPT ![f] = b]
       /\ memory' = [memory EXCEPT ![s] = Zeroed, ![b] = Zeroed]
  /\ UNCHANGED <<running, answer>>

\* fib_convert and fib_switch_to, as FiberScheduler has them.
Run(t, f) ==
  /\ Exists(f) /\ \A u \in Threads : running[u] # f
  /\ running' = [running EXCEPT ![t] = f]
  /\ UNCHANGED <<fls, bitmap_fls, memory, answer>>

\* The indices whose bit flsAlloc's scan finds clear; it stops at the first.
Clear(f) == {i \in Index : Word(bitmap_fls[f], i) = 0}

flsAlloc(f) == \E i \in Clear(f) :
  /\ \A j \in Clear(f) : i <= j
  /\ Write(bitmap_fls[f], i, 1)
  /\ answer' = <<f, "alloc", 0, i>>
  /\ UNCHANGED <<running, fls, bitmap_fls>>

NotFound == -1

\* With no clear bit index stays -1, which is < FLS_SIZE: bitmap_fls[-1] = 1.
flsAllocFull(f) ==
  /\ Clear(f) = {}
  /\ Write(bitmap_fls[f], -1, 1)
  /\ answer' = <<f, "alloc", 0, NotFound>>
  /\ UNCHANGED <<running, fls, bitmap_fls>>

flsFree(f, i) ==
  /\ IF InUse(f, i) THEN Write(bitmap_fls[f], i, 0) /\ answer' = <<f, "free", i, 1>>
                    ELSE UNCHANGED memory /\ answer' = <<f, "free", i, 0>>
  /\ UNCHANGED <<running, fls, bitmap_fls>>

flsGetValue(f, i) ==
  /\ answer' = <<f, "get", i, IF InUse(f, i) THEN Word(fls[f], i) ELSE -1>>
  /\ UNCHANGED <<running, fls, bitmap_fls, memory>>

flsSetValue(f, i, v) ==
  /\ IF InUse(f, i) THEN Write(fls[f], i, v) ELSE UNCHANGED memory
  /\ answer' = <<f, "set", i, 0>>
  /\ UNCHANGED <<running, fls, bitmap_fls>>

FlsCall(f) ==
  \/ flsAlloc(f) \/ flsAllocFull(f)
  \/ \E i \in Indices : \/ flsFree(f, i) \/ flsGetValue(f, i)
                        \/ \E v \in Values : flsSetValue(f, i, v)

Next ==
  \/ \E f \in Fibers : Create(f)
  \/ \E t \in Threads, f \in Fibers : Run(t, f)
  \/ \E t \in Threads : running[t] # NONE /\ FlsCall(running[t])

Spec == Init /\ [][Next]_vars
-----------------------------------------------------------------------------
(* Properties.                                                             *)

\* Every variable has its type (the arrays that do_fib_create allocates).
TypeOK ==
  /\ running \in [Threads -> Fibers \cup {NONE}]
  /\ fls \in [Fibers -> Slots \cup {NONE}]
  /\ bitmap_fls \in [Fibers -> Slots \cup {NONE}]
  /\ memory \in [AllSlots -> [Index -> Int]]
  /\ answer \in (Fibers \cup {NONE}) \X {"none", "alloc", "free", "get", "set"} \X Int \X Int

Granted(f)  == IF Exists(f) THEN Index \ Clear(f) ELSE {}
ValueOf(f)  == IF Exists(f) THEN memory[fls[f]] ELSE Zeroed

\* The arrays, the first-fit scan and the mixed use of -1 as "no slot", "no
\* value" and index implement the store of FlsStore: every slot belongs to
\* the fiber that allocated it, wherever that fiber runs next; and a call on
\* an index that is none reaches one word of a neighbour, not two.
Store == INSTANCE FlsStore WITH
  granted <- [f \in Fibers |-> Granted(f)],
  value   <- [f \in Fibers |-> ValueOf(f)]
ImplementsStore == Store!Spec
=============================================================================
