----------------------------- MODULE ListKernel -----------------------------
(***************************************************************************)
(* The first kernel module (src/Sviluppo/Fiber.c): one list of processes,  *)
(* a list of fibers in each, and one spin lock, lock_lista_processi, under *)
(* which every handler does its work.  Two things escape the lock.  Each   *)
(* handler reads the head of the list before it waits for the lock, and    *)
(* starts from that pointer however old it is when the lock is granted;    *)
(* and the probe on do_exit takes no lock at all.                          *)
(*                                                                         *)
(* Between waiting and returning a handler is one step.  What a call does  *)
(* is chosen when it gets the lock: nothing depends on it before.  A flow  *)
(* is named by where it started, as in FiberScheduler, and marks the one   *)
(* slot its fiber-local storage has here with that name.                   *)
(* Left out: statistics, the log, the text myread makes of an entry.       *)
(***************************************************************************)
EXTENDS Integers, Sequences, SequencesExt

CONSTANTS
  Processes,     \* each opens the device at most once, and does not fork
  Threads,
  Process,       \* Process[t]: the process of thread t
  Users,         \* the threads that make fibers of themselves
  Readers,       \* the threads that read /proc/<pid>/fibers
  Mortals,       \* the threads that may end
  Fibers,        \* fiber objects kmalloc can return; bounds the creations
  NONE           \* the null pointer

VARIABLES
  Lista_Processi,      \* the processes with an entry, newest first
  lock_lista_processi, \* the thread that holds it
  file,                \* file[p]: the device as process p sees it
  lista_fiber,         \* lista_fiber[p]: the fibers of p, newest first
  len_fiber_stuff,     \* len_fiber_stuff[p]: the fibers of p with a name in /proc
  runner, running, regs, entry_point,            \* fields of a fiber
  fls,                 \* fls[f]: the flow that allocated or last set its slot
  cpu, pc,
  iter                 \* iter[t]: the process whose entry a handler looks at
procVars  == <<Lista_Processi, file, lista_fiber, len_fiber_stuff>>
fiberVars == <<runner, running, regs, entry_point, fls>>
vars == <<procVars, lock_lista_processi, fiberVars, cpu, pc, iter>>

Pcs == {"user", "ioctl", "read", "names", "exit", "dead", "lost"}

Init ==
  /\ Lista_Processi = <<>> /\ lock_lista_processi = NONE
  /\ file = [p \in Processes |-> "unopened"]
  /\ lista_fiber = [p \in Processes |-> <<>>]
  /\ len_fiber_stuff = [p \in Processes |-> 0]
  /\ runner = [f \in Fibers |-> NONE]
  /\ running = [f \in Fibers |-> FALSE]
  /\ regs = [f \in Fibers |-> NONE]
  /\ entry_point = [f \in Fibers |-> NONE]
  /\ fls = [f \in Fibers |-> NONE]
  /\ cpu = [t \in Threads |-> t]
  /\ pc = [t \in Threads |-> "user"]
  /\ iter = [t \in Threads |-> NONE]
-----------------------------------------------------------------------------
Goto(t, l)  == pc' = [pc EXCEPT ![t] = l]
Heap        == {f \in Fibers : entry_point[f] # NONE}
Team(p)     == {t \in Threads : Process[t] = p}
InUse(p)    == \E t \in Team(p) : pc[t] = "ioctl"
Listed(p)   == Contains(Lista_Processi, p)
HeadEntry   == IF Lista_Processi = <<>> THEN NONE ELSE Head(Lista_Processi)

\* An entry is freed as soon as it is unlinked.
Freed(p)    == p # NONE /\ ~Listed(p)

\* The entries a walk from that of p, if it is there, still comes to.
Rest(p)     == SelectInSeq(Lista_Processi, LAMBDA q : q = p)
Following(p) == IF Rest(p) = Len(Lista_Processi) THEN NONE
                ELSE Lista_Processi[Rest(p) + 1]
Finds(t, p) == Listed(iter[t]) /\ Listed(p) /\ Rest(iter[t]) <= Rest(p)

\* The fibers an id of process p can name: ids count its creations, each one
\* more than the id at the head of the list.
Mine(p)    == {f \in Fibers : Contains(lista_fiber[p], f)}

\* The fiber a handler takes for the one t runs: the first marked with t.
Current(t) == SelectInSeq(lista_fiber[Process[t]], LAMBDA f : runner[f] = t)
IsFiber(t) == Current(t) # 0
Old(t)     == lista_fiber[Process[t]][Current(t)]
-----------------------------------------------------------------------------
(* open and release.                                                       *)

\* The entry is linked at the head, under the lock.
fib_open(p) ==
  /\ file[p] = "unopened" /\ \E t \in Team(p) : pc[t] = "user"
  /\ lock_lista_processi = NONE
  /\ file' = [file EXCEPT ![p] = "open"]
  /\ Lista_Processi' = <<p>> \o Lista_Processi
  /\ UNCHANGED <<lista_fiber, len_fiber_stuff, lock_lista_processi, fiberVars,
                 cpu, pc, iter>>

\* The last reference to the file is dropped by a thread of p that closes it
\* or by the death of all; a call in progress holds a reference of its own.
LastReference(p) ==
  /\ file[p] = "open" /\ ~InUse(p)
  /\ \/ \E t \in Team(p) : pc[t] = "user"
     \/ \A t \in Team(p) : pc[t] = "dead"

\* Mutant of Target: the entry at the head is released whoever closes.
TargetHead(p) == IF p \in Processes THEN Head(Lista_Processi) ELSE p

\* The entry released: the one of the closing process.
Target(p) == p

fib_release(p) ==
  /\ LastReference(p) /\ lock_lista_processi = NONE
  /\ file' = [file EXCEPT ![p] = "closed"]
  /\ Lista_Processi' = RemoveAt(Lista_Processi, Rest(Target(p)))
  /\ UNCHANGED <<lista_fiber, len_fiber_stuff, lock_lista_processi, fiberVars,
                 cpu, pc, iter>>
-----------------------------------------------------------------------------
(* The ioctl handlers.                                                     *)

\* Every handler: the head of the list is read, then the lock waited for.
Call(t) ==
  /\ pc[t] = "user" /\ t \in Users /\ file[Process[t]] = "open"
  /\ iter' = [iter EXCEPT ![t] = HeadEntry]
  /\ Goto(t, "ioctl")
  /\ UNCHANGED <<procVars, lock_lista_processi, fiberVars, cpu>>

\* The lock is free and the walk finds the caller's entry ...
Granted(t) ==
  /\ pc[t] = "ioctl" /\ lock_lista_processi = NONE
  /\ Finds(t, Process[t])
\* ... and the handler returns.
Return(t) ==
  /\ Goto(t, "user")
  /\ iter' = [iter EXCEPT ![t] = NONE]

\* The walk starts in freed memory; the lock is not released any more.
Stray(t) ==
  /\ pc[t] \in {"ioctl", "read"} /\ lock_lista_processi = NONE
  /\ Freed(iter[t])
  /\ lock_lista_processi' = t
  /\ Goto(t, "lost")
  /\ UNCHANGED <<procVars, fiberVars, cpu, iter>>

\* A conversion of a fiber, a switch that is refused, and the FLS calls that
\* only answer: the lock is taken and released.
Answered(t) ==
  /\ Granted(t) /\ Return(t)
  /\ UNCHANGED <<procVars, lock_lista_processi, fiberVars, cpu>>

\* kmalloc, the initialisation and the link at the head of the list.  The
\* registers of a converted thread are its own with another stack: they are
\* not used before they have been saved over.
do_fib_create(t, f, flow, context) ==
  /\ f \in Fibers \ Heap
  /\ lista_fiber' = [lista_fiber EXCEPT ![Process[t]] = <<f>> \o @]
  /\ entry_point' = [entry_point EXCEPT ![f] = flow]
  /\ regs' = [regs EXCEPT ![f] = context]

fib_convert(t, f) ==
  /\ Granted(t) /\ ~IsFiber(t)
  /\ do_fib_create(t, f, t, NONE)
  /\ running' = [running EXCEPT ![f] = TRUE]
  /\ runner' = [runner EXCEPT ![f] = t]
  /\ Return(t)
  /\ UNCHANGED <<Lista_Processi, file, len_fiber_stuff, lock_lista_processi,
                 fls, cpu>>

\* A name for the new id is added behind the others.
fib_create(t, f) ==
  /\ Granted(t)
  /\ do_fib_create(t, f, f, f)
  /\ len_fiber_stuff' = [len_fiber_stuff EXCEPT ![Process[t]] = @ + 1]
  /\ Return(t)
  /\ UNCHANGED <<Lista_Processi, file, lock_lista_processi, runner, running,
                 fls, cpu>>

\* Thread t leaves fiber f for fiber g.
Exchange(t, f, g) ==
  /\ regs' = [regs EXCEPT ![f] = cpu[t]]
  /\ cpu' = [cpu EXCEPT ![t] = regs[g]]
  /\ running' = [running EXCEPT ![f] = FALSE, ![g] = TRUE]
  /\ runner' = [runner EXCEPT ![f] = NONE, ![g] = t]

\* Mutant of fib_switch_to: a running fiber is not refused.
fib_switch_to_any(t, g) ==
  /\ Granted(t) /\ IsFiber(t)
  /\ g \in Mine(Process[t]) \ {Old(t)}
  /\ Exchange(t, Old(t), g)
  /\ Return(t)
  /\ UNCHANGED <<procVars, lock_lista_processi, entry_point, fls>>

\* A switch that succeeds: the id is that of a fiber nobody runs.
fib_switch_to(t, g) ==
  /\ Granted(t) /\ IsFiber(t)
  /\ g \in Mine(Process[t]) /\ ~running[g]
  /\ Exchange(t, Old(t), g)
  /\ Return(t)
  /\ UNCHANGED <<procVars, lock_lista_processi, entry_point, fls>>

\* Mutant of Owns: the newest fiber of the process is taken for the caller's.
OwnsNewest(t, f) ==
  /\ Granted(t) /\ IsFiber(t) /\ f = Head(lista_fiber[Process[t]])

\* The FLS calls: f is the fiber marked with the caller, and is running.
Owns(t, f) == Granted(t) /\ IsFiber(t) /\ f = Old(t) /\ running[f]

\* flsAlloc with no clear bit leaves index uninitialised: it may answer with
\* a slot in use, which changes nothing here.  (Garbage outside the bitmap is
\* not modelled.)
flsAlloc(t, f) ==
  /\ Owns(t, f) /\ fls[f] = NONE
  /\ fls' = [fls EXCEPT ![f] = cpu[t]]
  /\ Return(t)
  /\ UNCHANGED <<procVars, lock_lista_processi, runner, running, regs,
                 entry_point, cpu>>

flsFree(t, f) ==
  /\ Owns(t, f) /\ fls[f] # NONE
  /\ fls' = [fls EXCEPT ![f] = NONE]
  /\ Return(t)
  /\ UNCHANGED <<procVars, lock_lista_processi, runner, running, regs,
                 entry_point, cpu>>

flsSetValue(t, f) ==
  /\ Owns(t, f) /\ fls[f] # NONE
  /\ fls' = [fls EXCEPT ![f] = cpu[t]]
  /\ Return(t)
  /\ UNCHANGED <<procVars, lock_lista_processi, runner, running, regs,
                 entry_point, cpu>>

\* flsGetValue of an index out of range returns without releasing the lock.
flsGetOutOfRange(t, f) ==
  /\ Owns(t, f)
  /\ lock_lista_processi' = t
  /\ Return(t)
  /\ UNCHANGED <<procVars, fiberVars, cpu>>
-----------------------------------------------------------------------------
(* /proc: myread, and the probes on readdir and lookup in a fibers folder. *)

StartRead(t) ==
  /\ pc[t] = "user" /\ t \in Readers
  /\ iter' = [iter EXCEPT ![t] = HeadEntry]
  /\ Goto(t, "read")
  /\ UNCHANGED <<procVars, lock_lista_processi, fiberVars, cpu>>

\* Under the lock: myread, a process that is not found, one without names.
myread(t) ==
  /\ pc[t] = "read" /\ lock_lista_processi = NONE /\ ~Freed(iter[t])
  /\ Return(t)
  /\ UNCHANGED <<procVars, lock_lista_processi, fiberVars, cpu>>

\* The probe hands the table of names to the function it precedes ...
TakeNames(t, p) ==
  /\ pc[t] = "read" /\ lock_lista_processi = NONE
  /\ Finds(t, p) /\ len_fiber_stuff[p] # 0
  /\ iter' = [iter EXCEPT ![t] = p]
  /\ Goto(t, "names")
  /\ UNCHANGED <<procVars, lock_lista_processi, fiberVars, cpu>>

\* ... which reads it after the lock is released.
UseNames(t) ==
  /\ pc[t] = "names"
  /\ IF Freed(iter[t])
       THEN Goto(t, "lost") /\ UNCHANGED iter
       ELSE Return(t)
  /\ UNCHANGED <<procVars, lock_lista_processi, fiberVars, cpu>>
-----------------------------------------------------------------------------
(* The probe on do_exit, which takes no lock.                              *)

StartExit(t) ==
  /\ pc[t] = "user" /\ t \in Mortals
  /\ iter' = [iter EXCEPT ![t] = HeadEntry]
  /\ Goto(t, "exit")
  /\ UNCHANGED <<procVars, lock_lista_processi, fiberVars, cpu>>

\* An entry of another process is passed over; that of a process released
\* since the pointer to it was read is freed memory.
WalkExit(t) ==
  /\ pc[t] = "exit" /\ iter[t] # NONE
  /\ IF Freed(iter[t])
       THEN Goto(t, "lost") /\ UNCHANGED iter
       ELSE /\ iter[t] # Process[t]
            /\ iter' = [iter EXCEPT ![t] = Following(iter[t])]
            /\ UNCHANGED pc
  /\ UNCHANGED <<procVars, lock_lista_processi, fiberVars, cpu>>

Die(t) ==
  /\ Goto(t, "dead")
  /\ iter' = [iter EXCEPT ![t] = NONE]
  /\ UNCHANGED <<procVars, lock_lista_processi, entry_point, fls, cpu>>

\* A thread that is no fiber, or whose process has no entry, just goes.
ExitPlain(t) ==
  /\ pc[t] = "exit"
  /\ iter[t] = NONE \/ (iter[t] = Process[t] /\ Listed(iter[t]) /\ ~IsFiber(t))
  /\ Die(t)
  /\ UNCHANGED <<runner, running, regs>>

\* Mutant of Pre_Handler_Exit: the fiber is marked as not running.
Pre_Handler_Exit_Idle(t) ==
  /\ pc[t] = "exit" /\ iter[t] = Process[t] /\ Listed(iter[t]) /\ IsFiber(t)
  /\ regs' = [regs EXCEPT ![Old(t)] = cpu[t]]
  /\ running' = [running EXCEPT ![Old(t)] = FALSE]
  /\ runner' = [runner EXCEPT ![Old(t)] = NONE]
  /\ Die(t)

\* The fiber dies with its thread: running = -1, which a bool holds as true,
\* keeps every switch away from it.
Pre_Handler_Exit(t) ==
  /\ pc[t] = "exit" /\ iter[t] = Process[t] /\ Listed(iter[t]) /\ IsFiber(t)
  /\ regs' = [regs EXCEPT ![Old(t)] = cpu[t]]
  /\ running' = [running EXCEPT ![Old(t)] = TRUE]
  /\ runner' = [runner EXCEPT ![Old(t)] = NONE]
  /\ Die(t)
-----------------------------------------------------------------------------
Handler(t) ==
  \/ Stray(t) \/ Answered(t)
  \/ \E f \in Fibers :
       \/ fib_convert(t, f) \/ fib_create(t, f) \/ fib_switch_to(t, f)
       \/ flsAlloc(t, f) \/ flsFree(t, f) \/ flsSetValue(t, f)
       \/ flsGetOutOfRange(t, f)

Proc(t) == StartRead(t) \/ myread(t) \/ UseNames(t) \/ \E p \in Processes : TakeNames(t, p)
Exit(t) == StartExit(t) \/ WalkExit(t) \/ ExitPlain(t) \/ Pre_Handler_Exit(t)

Next ==
  \/ \E p \in Processes : fib_open(p) \/ fib_release(p)
  \/ \E t \in Threads : Call(t) \/ Handler(t) \/ Proc(t) \/ Exit(t)
-----------------------------------------------------------------------------
\* Every variable has its type (the structures of Strutture.h).
TypeOK ==
  /\ Lista_Processi \in Seq(Processes)
  /\ lock_lista_processi \in Threads \cup {NONE}
  /\ file \in [Processes -> {"unopened", "open", "closed"}]
  /\ lista_fiber \in [Processes -> Seq(Fibers)]
  /\ len_fiber_stuff \in [Processes -> Nat]
  /\ runner \in [Fibers -> Threads \cup {NONE}]
  /\ running \in [Fibers -> BOOLEAN]
  /\ regs \in [Fibers -> Threads \cup Fibers \cup {NONE}]
  /\ entry_point \in [Fibers -> Threads \cup Fibers \cup {NONE}]
  /\ fls \in [Fibers -> Threads \cup Fibers \cup {NONE}]
  /\ cpu \in [Threads -> Threads \cup Fibers]
  /\ pc \in [Threads -> Pcs]
  /\ iter \in [Threads -> Processes \cup {NONE}]

\* However old the head of the list an ioctl handler starts from, it comes to
\* the entry of its own process, unless the entry it starts from has been
\* freed, and that was never its own.
EntryReached ==
  \A t \in Threads : pc[t] = "ioctl" =>
    \/ Finds(t, Process[t])
    \/ Freed(iter[t]) /\ iter[t] # Process[t]

\* The fiber thread t runs, for the abstract scheduler: the one marked with
\* it, or the one that died with it.
Runs(t) == LET mine == {f \in Heap : \/ runner[f] = t
                                     \/ pc[t] = "dead" /\ running[f] /\ regs[f] = cpu[t]
                                        /\ runner[f] = NONE}
           IN IF mine = {} THEN NONE ELSE CHOOSE f \in mine : TRUE
=============================================================================
