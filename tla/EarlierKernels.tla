--------------------------- MODULE EarlierKernels ---------------------------
(***************************************************************************)
(* The two earlier kernel modules that differ from the final one in their  *)
(* locking, and what they have in common: the machine runs one of them,    *)
(* and both must keep the promises of FiberScheduler and of fiber-local    *)
(* storage.  In the version with try-locks the threads are of one process. *)
(***************************************************************************)
EXTENDS Integers, Sequences

CONSTANTS Processes, Threads, Process, Users, Readers, Mortals, Fibers, NONE

\* A thread is no fiber, the null pointer is nothing else.
ASSUME Names ==
  /\ Users \subseteq Threads /\ Process \in [Threads -> Processes]
  /\ Threads \cap Fibers = {} /\ NONE \notin Processes \cup Threads \cup Fibers

VARIABLES version,
  Lista_Processi, lock_lista_processi, file, lista_fiber, len_fiber_stuff, iter,
  lock_fiber, old, new,
  runner, running, regs, entry_point, fls, cpu, pc
listVars    == <<Lista_Processi, lock_lista_processi, file, lista_fiber,
                 len_fiber_stuff, iter>>
trylockVars == <<lock_fiber, old, new>>
vars == <<version, listVars, trylockVars, runner, running, regs, entry_point,
          fls, cpu, pc>>

L == INSTANCE ListKernel
T == INSTANCE TrylockKernel

Init == version \in {"list", "trylock"} /\ L!Init /\ T!Init

Next ==
  /\ UNCHANGED version
  /\ \/ version = "list" /\ L!Next /\ UNCHANGED trylockVars
     \/ version = "trylock" /\ T!Next /\ UNCHANGED listVars

Spec == Init /\ [][Next]_vars
-----------------------------------------------------------------------------
\* Every variable of the version that runs has its type.
TypeOK == /\ version = "list" => L!TypeOK
          /\ version = "trylock" => T!TypeOK

\* A fiber finds in its storage what its own flow put there and nothing else,
\* whatever threads it has run on (flsSetValue and flsGetValue go by the mark
\* of the calling thread; the test bed calls the contrary impossible).
OwnStorage == \A f \in Fibers : fls[f] \in {NONE, entry_point[f]}

\* ListKernel: the walk from a stale head still reaches the caller's entry.
EntryReached == version = "list" => L!EntryReached

\* TrylockKernel: a thread in user mode holds its own fiber's lock alone.
HoldsItsFiber == version = "trylock" => T!HoldsItsFiber

\* TrylockKernel: no fiber stays marked as running when nobody runs it.
NoneLost == version = "trylock" => T!NoneLost

\* TrylockKernel: the marks the FLS calls go by may be missing, but never lie.
MarksTrue == version = "trylock" => T!MarksTrue

\* Both versions implement the abstract scheduler: under the one lock a switch
\* is one step; with try-locks it takes effect when the registers are swapped.
Exist == IF version = "list" THEN L!Heap ELSE T!Known
Runs(t) == IF version = "list" THEN L!Runs(t) ELSE T!Runs(t)
Context(flow) == [flow |-> flow, pos |-> 0]
Scheduler == INSTANCE FiberScheduler WITH
  PosMax  <- 0,
  fibers  <- Exist,
  running <- [t \in Threads |-> Runs(t)],
  saved   <- [f \in Exist \ {Runs(t) : t \in Threads} |-> Context(regs[f])],
  cpu     <- [t \in Threads |-> Context(cpu[t])]
ImplementsScheduler == Scheduler!Spec
=============================================================================
