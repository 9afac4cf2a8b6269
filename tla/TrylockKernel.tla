---------------------------- MODULE TrylockKernel ----------------------------
(***************************************************************************)
(* The second hash-table kernel module (src/SviluppoHashTable2/Fiber.c):   *)
(* no lock on the tables, and a spin lock per fiber that is held all the   *)
(* time a thread runs the fiber.  A switch tests the running flag of its   *)
(* target, tries its lock, and gives up its own fiber's lock half-way, so  *)
(* that the marks it clears afterwards may be somebody else's by then.     *)
(*                                                                         *)
(* One process, whose program converts each thread once, never runs two    *)
(* creations at a time (an id is a load and a store of last_fib_id with no *)
(* lock), and asks for ids it was given only: an id in no bucket makes the *)
(* handler follow a null pointer.  A step is one store to memory that the  *)
(* others read, or a stretch that touches what the thread has locked.      *)
(***************************************************************************)
EXTENDS Integers

CONSTANTS Threads,
          Users,         \* the threads that call into the device
          Fibers,        \* fiber objects kmalloc can return; bounds the creations
          NONE           \* the null pointer, thread 0

VARIABLES
  runner, running, regs, entry_point,      \* fields of a fiber
  fls,                   \* fls[f]: the flow that allocated or last set its slot
  lock_fiber,            \* lock_fiber[f]: the thread that holds it
  cpu, pc,
  old, new               \* locals of fib_switch_to, and of fib_convert
markVars == <<runner, running>>
vars == <<markVars, regs, entry_point, fls, lock_fiber, cpu, pc, old, new>>

ConvertPcs == {"convertMark", "convertLock"}
SwitchPcs  == {"test", "try", "swap", "clearRunning", "clearRunner", "mark"}
Pcs        == {"user", "oops"} \cup ConvertPcs \cup SwitchPcs

Init ==
  /\ runner = [f \in Fibers |-> NONE]
  /\ running = [f \in Fibers |-> FALSE]
  /\ regs = [f \in Fibers |-> NONE]
  /\ entry_point = [f \in Fibers |-> NONE]
  /\ fls = [f \in Fibers |-> NONE]
  /\ lock_fiber = [f \in Fibers |-> NONE]
  /\ cpu = [t \in Threads |-> t]
  /\ pc = [t \in Threads |-> "user"]
  /\ old = [t \in Threads |-> NONE]
  /\ new = [t \in Threads |-> NONE]
-----------------------------------------------------------------------------
Goto(t, l)   == pc' = [pc EXCEPT ![t] = l]
Heap         == {f \in Fibers : entry_point[f] # NONE}
Converted(t) == \E f \in Heap : entry_point[f] = t

\* The fibers whose ids the program has been told.
Known == {f \in Heap : \A t \in Threads : ~(pc[t] \in ConvertPcs /\ new[t] = f)}

\* What a walk for the fiber marked with t ends at.
MarkedWith(t) == IF \E f \in Heap : runner[f] = t
                 THEN CHOOSE f \in Heap : runner[f] = t ELSE NONE

do_fib_create(f, flow, context) ==
  /\ f \in Fibers \ Heap
  /\ entry_point' = [entry_point EXCEPT ![f] = flow]
  /\ regs' = [regs EXCEPT ![f] = context]

\* ConvertThreadToFiber: the fiber is in the table before it is marked.
fib_convert(t, f) ==
  /\ pc[t] = "user" /\ ~Converted(t)
  /\ do_fib_create(f, t, t)
  /\ new' = [new EXCEPT ![t] = f]
  /\ Goto(t, "convertMark")
  /\ UNCHANGED <<markVars, fls, lock_fiber, cpu, old>>

MarkConverted(t) ==
  /\ pc[t] = "convertMark"
  /\ running' = [running EXCEPT ![new[t]] = TRUE]
  /\ runner' = [runner EXCEPT ![new[t]] = t]
  /\ Goto(t, "convertLock")
  /\ UNCHANGED <<regs, entry_point, fls, lock_fiber, cpu, old, new>>

\* spin_trylock of a fiber nobody else has been told of succeeds.
LockConverted(t) ==
  /\ pc[t] = "convertLock" /\ lock_fiber[new[t]] = NONE
  /\ lock_fiber' = [lock_fiber EXCEPT ![new[t]] = t]
  /\ new' = [new EXCEPT ![t] = NONE]
  /\ Goto(t, "user")
  /\ UNCHANGED <<markVars, regs, entry_point, fls, cpu, old>>

\* CreateFiber; the name it adds for /proc is not shown: the probes of this
\* version are not registered.
fib_create(t, f) ==
  /\ pc[t] = "user"
  /\ do_fib_create(f, f, f)
  /\ UNCHANGED <<markVars, fls, lock_fiber, cpu, pc, old, new>>
-----------------------------------------------------------------------------
(* SwitchToFiber.                                                          *)

\* The caller's fiber and the target are looked up.
fib_switch_to(t, g) ==
  /\ pc[t] = "user" /\ g \in Known
  /\ old' = [old EXCEPT ![t] = MarkedWith(t)]
  /\ new' = [new EXCEPT ![t] = g]
  /\ Goto(t, "test")
  /\ UNCHANGED <<markVars, regs, entry_point, fls, lock_fiber, cpu>>

Return(t) ==
  /\ old' = [old EXCEPT ![t] = NONE]
  /\ new' = [new EXCEPT ![t] = NONE]
  /\ Goto(t, "user")

\* -1: the target is marked as running, or its lock is held.
Refuse(t) ==
  /\ \/ pc[t] = "test" /\ running[new[t]]
     \/ pc[t] = "try" /\ lock_fiber[new[t]] # NONE
  /\ Return(t)
  /\ UNCHANGED <<markVars, regs, entry_point, fls, lock_fiber, cpu>>

Test(t) ==
  /\ pc[t] = "test" /\ ~running[new[t]]
  /\ Goto(t, "try")
  /\ UNCHANGED <<markVars, regs, entry_point, fls, lock_fiber, cpu, old, new>>

\* The caller's fiber is a null pointer if nothing is marked with the caller.
Try(t) ==
  /\ pc[t] = "try" /\ lock_fiber[new[t]] = NONE
  /\ lock_fiber' = [lock_fiber EXCEPT ![new[t]] = t]
  /\ Goto(t, IF old[t] = NONE THEN "oops" ELSE "swap")
  /\ UNCHANGED <<markVars, regs, entry_point, fls, cpu, old, new>>

\* Mutant of Swap: the lock of the fiber left is kept.
SwapLocked(t) ==
  /\ pc[t] = "swap"
  /\ regs' = [regs EXCEPT ![old[t]] = cpu[t]]
  /\ lock_fiber' = lock_fiber
  /\ cpu' = [cpu EXCEPT ![t] = regs[new[t]]]
  /\ Goto(t, "clearRunning")
  /\ UNCHANGED <<markVars, entry_point, fls, old, new>>

\* Registers saved, the caller's fiber unlocked, the target's registers loaded.
Swap(t) ==
  /\ pc[t] = "swap"
  /\ regs' = [regs EXCEPT ![old[t]] = cpu[t]]
  /\ lock_fiber' = [lock_fiber EXCEPT ![old[t]] = NONE]
  /\ cpu' = [cpu EXCEPT ![t] = regs[new[t]]]
  /\ Goto(t, "clearRunning")
  /\ UNCHANGED <<markVars, entry_point, fls, old, new>>

\* Mutant of ClearRunning: the flag of the fiber left is kept.
ClearRunningForgotten(t) ==
  /\ pc[t] = "clearRunning"
  /\ running' = running
  /\ Goto(t, "clearRunner")
  /\ UNCHANGED <<runner, regs, entry_point, fls, lock_fiber, cpu, old, new>>

ClearRunning(t) ==
  /\ pc[t] = "clearRunning"
  /\ running' = [running EXCEPT ![old[t]] = FALSE]
  /\ Goto(t, "clearRunner")
  /\ UNCHANGED <<runner, regs, entry_point, fls, lock_fiber, cpu, old, new>>

\* Mutant of ClearRunner: the mark of the fiber left is kept.
ClearRunnerForgotten(t) ==
  /\ pc[t] = "clearRunner"
  /\ runner' = runner
  /\ Goto(t, "mark")
  /\ UNCHANGED <<running, regs, entry_point, fls, lock_fiber, cpu, old, new>>

\* By now another thread may run the fiber left, and this erases its mark.
ClearRunner(t) ==
  /\ pc[t] = "clearRunner"
  /\ runner' = [runner EXCEPT ![old[t]] = NONE]
  /\ Goto(t, "mark")
  /\ UNCHANGED <<running, regs, entry_point, fls, lock_fiber, cpu, old, new>>

Mark(t) ==
  /\ pc[t] = "mark"
  /\ running' = [running EXCEPT ![new[t]] = TRUE]
  /\ runner' = [runner EXCEPT ![new[t]] = t]
  /\ Return(t)
  /\ UNCHANGED <<regs, entry_point, fls, lock_fiber, cpu>>
-----------------------------------------------------------------------------
(* The FLS calls work, with no lock, on the fiber marked with the caller;  *)
(* if there is none they do nothing.                                       *)
Owns(t, f) == pc[t] = "user" /\ f \in Heap /\ f = MarkedWith(t)

flsAlloc(t, f) ==
  /\ Owns(t, f) /\ fls[f] = NONE
  /\ fls' = [fls EXCEPT ![f] = cpu[t]]
  /\ UNCHANGED <<markVars, regs, entry_point, lock_fiber, cpu, pc, old, new>>

flsFree(t, f) ==
  /\ Owns(t, f) /\ fls[f] # NONE
  /\ fls' = [fls EXCEPT ![f] = NONE]
  /\ UNCHANGED <<markVars, regs, entry_point, lock_fiber, cpu, pc, old, new>>

flsSetValue(t, f) ==
  /\ Owns(t, f) /\ fls[f] # NONE
  /\ fls' = [fls EXCEPT ![f] = cpu[t]]
  /\ UNCHANGED <<markVars, regs, entry_point, lock_fiber, cpu, pc, old, new>>
-----------------------------------------------------------------------------
Next == \E t \in Users :
  \/ MarkConverted(t) \/ LockConverted(t)
  \/ Refuse(t) \/ Test(t) \/ Try(t) \/ Swap(t)
  \/ ClearRunning(t) \/ ClearRunner(t) \/ Mark(t)
  \/ \E f \in Fibers :
       \/ fib_convert(t, f) \/ fib_create(t, f) \/ fib_switch_to(t, f)
       \/ flsAlloc(t, f) \/ flsFree(t, f) \/ flsSetValue(t, f)
-----------------------------------------------------------------------------
\* Every variable has its type (the fields of struct Fiber).
TypeOK ==
  /\ runner \in [Fibers -> Threads \cup {NONE}]
  /\ running \in [Fibers -> BOOLEAN]
  /\ regs \in [Fibers -> Threads \cup Fibers \cup {NONE}]
  /\ entry_point \in [Fibers -> Threads \cup Fibers \cup {NONE}]
  /\ fls \in [Fibers -> Threads \cup Fibers \cup {NONE}]
  /\ lock_fiber \in [Fibers -> Threads \cup {NONE}]
  /\ cpu \in [Threads -> Threads \cup Fibers]
  /\ pc \in [Threads -> Pcs]
  /\ old \in [Threads -> Fibers \cup {NONE}]
  /\ new \in [Threads -> Fibers \cup {NONE}]

\* A thread in user mode holds the lock of exactly the fiber whose flow it
\* executes (none before it is converted): no call of fib_switch_to returns
\* with a lock too many or too few.
HoldsItsFiber ==
  \A t \in Threads : pc[t] = "user" =>
    {f \in Fibers : lock_fiber[f] = t} = {f \in Heap : entry_point[f] = cpu[t]}

\* A fiber whose lock is free can be switched to, now or once the thread that
\* left it has cleared its flag: none stays marked as running with nobody
\* running it, however the late stores of fib_switch_to fall.
NoneLost ==
  \A f \in Known : lock_fiber[f] = NONE /\ running[f] =>
    \E t \in Threads : pc[t] = "clearRunning" /\ old[t] = f

\* A mark may be missing (ClearRunner) but never lies: a fiber marked with a
\* thread is the one it runs, or the one it is just leaving.
MarksTrue ==
  \A f \in Heap, t \in Threads : runner[f] = t =>
    \/ cpu[t] = entry_point[f]
    \/ pc[t] \in {"clearRunning", "clearRunner"} /\ f = old[t]

\* The fiber thread t runs, for the abstract scheduler: the one it holds the
\* lock of, leaving out a target it has not swapped with yet.
Runs(t) == LET held == {f \in Known : lock_fiber[f] = t} \
                       (IF pc[t] \in {"swap", "oops"} THEN {new[t]} ELSE {})
           IN IF held = {} THEN NONE ELSE CHOOSE f \in held : TRUE
=============================================================================
