----------------------------- MODULE UserFibers -----------------------------
(***************************************************************************)
(* The user-level threads of the test bed (ult.c, ult.h, jmp.S) under its  *)
(* program (main.c, thread.c): threads that convert themselves and then    *)
(* switch to fibers picked at random, in a loop when they have nothing to  *)
(* do and from a SIGALRM handler when they have.  The handler leaves by a  *)
(* jump, so SIGALRM stays blocked in the thread until a flow that an alarm *)
(* interrupted is resumed there and returns from its handler.              *)
(*                                                                         *)
(* A continuation is a flow, how far its own function has got, and the     *)
(* frames on its stack above it: handlers and switches not yet returned.   *)
(* Left out: FLS (a global array and an atomic counter here), the clock,   *)
(* what a cell computes (CalQueue, GsmCell), and a saved rax of 0, which   *)
(* would make set_jmp take a resumption for its first return.              *)
(*                                                                         *)
(* The first alarm is assumed to come after every thread has converted:    *)
(* it is armed, for one second, when the last fiber has been created.      *)
(***************************************************************************)
EXTENDS Integers, Sequences, FiniteSets, SequencesExt

CONSTANTS
  Main,            \* the thread that creates the fibers, and fiber 0
  Workers,         \* the threads of create_threads, and their own fibers
  Cells,           \* the fibers CreateFiber makes
  NONE,            \* no fiber
  AlarmInSwitch    \* TRUE: an alarm may come where ult_switch_to cannot bear it

Threads == {Main} \cup Workers
Ults    == Threads \cup Cells
fibers  == {Main} \cup Cells       \* the array the random picks are made from

Phases == {"init", "wait", "pick", "create", "armed", "work", "idle", "spin", "done"}
Fresh(u, phase) == [flow |-> u, at |-> phase, frames |-> <<>>]

Conts == [flow : Ults, at : Phases,
          frames : Seq([at : {"set", "leave", "jump", "handler"},
                        from : Ults \cup {NONE}, to : Ults \cup {NONE}])]

\* Every ult_t is another object, and NULL is neither a fiber nor a context.
ASSUME Names ==
  /\ Main \notin Workers \cup Cells /\ Workers \cap Cells = {}
  /\ IsFiniteSet(Workers) /\ IsFiniteSet(Cells)
  /\ NONE \notin Ults \cup (Ults \X {"ult"}) \cup Conts

VARIABLES
  current,         \* current[t]: the fiber thread t believes it runs
  running,         \* running[u]: the lock of fiber u
  context,         \* context[u]: the continuation saved for fiber u
  cpu,             \* cpu[t]: the continuation thread t executes
  blocked,         \* blocked[t]: SIGALRM is blocked in thread t
  init_complete, completed_fibers
vars == <<current, running, context, cpu, blocked, init_complete, completed_fibers>>

Init ==
  /\ current = [t \in Threads |-> NONE]
  /\ running = [u \in Ults |-> FALSE]
  /\ context = [u \in Ults |-> NONE]
  /\ cpu = [t \in Threads |-> Fresh(t, "init")]
  /\ blocked = [t \in Threads |-> FALSE]
  /\ init_complete = FALSE
  /\ completed_fibers = Cardinality(fibers)
-----------------------------------------------------------------------------
At(t, phase)  == cpu[t].at = phase /\ cpu[t].frames = <<>>
Become(t, phase) == cpu' = [cpu EXCEPT ![t].at = phase]
InFrame(t, at) == cpu[t].frames # <<>> /\ Last(cpu[t].frames).at = at
Top(t)        == Last(cpu[t].frames)
Push(t, fs)   == cpu' = [cpu EXCEPT ![t].frames = @ \o fs]
Replace(t, at) == cpu' = [cpu EXCEPT ![t].frames[Len(cpu[t].frames)].at = at]
Popped(c)     == [c EXCEPT !.frames = Front(@)]
Created       == {c \in Cells : context[c] # NONE}

\* ConvertThreadToFiber: the context saved is never jumped to.
ult_convert(t) ==
  /\ At(t, "init")
  /\ current' = [current EXCEPT ![t] = t]
  /\ running' = [running EXCEPT ![t] = TRUE]
  /\ context' = [context EXCEPT ![t] = cpu[t]]
  /\ Become(t, IF t = Main THEN "create" ELSE "wait")
  /\ UNCHANGED <<blocked, init_complete, completed_fibers>>

\* CreateFiber: the way into the new stack and back, by a signal and two
\* switches, is one step, for no other thread uses a fiber and no alarm comes
\* before init_complete.
ult_creat(c) ==
  /\ At(Main, "create") /\ c \notin Created
  /\ context' = [context EXCEPT ![c] = Fresh(c, "work")]
  /\ UNCHANGED <<current, running, cpu, blocked, init_complete, completed_fibers>>

\* signal and alarm, then init_complete, then main_loop.  An alarm may move
\* the flow of main to another thread between the two.
Arm ==
  /\ At(Main, "create") /\ Created = Cells
  /\ Become(Main, "armed")
  /\ UNCHANGED <<current, running, context, blocked, init_complete, completed_fibers>>

Release(t) ==
  /\ At(t, "armed")
  /\ init_complete' = TRUE
  /\ Become(t, "work")
  /\ UNCHANGED <<current, running, context, blocked, completed_fibers>>

Await(t) ==
  /\ At(t, "wait") /\ init_complete
  /\ Become(t, "pick")
  /\ UNCHANGED <<current, running, context, blocked, init_complete, completed_fibers>>
-----------------------------------------------------------------------------
(* ult_switch_to.  When the try-lock fails it returns, and nothing has     *)
(* changed; the actions below are the tries that succeed.                  *)
\* Mutant of Switch: from is read after current has been written.
SwitchLate(t, u) == [at |-> "set", from |-> u, to |-> u]

Switch(t, u) == [at |-> "set", from |-> current[t], to |-> u]

\* Mutant of Trylock: a running fiber is taken too.
TrylockAlways(u) == u \in Created \cup {Main} /\ running' = [running EXCEPT ![u] = TRUE]

Trylock(u) == ~running[u] /\ running' = [running EXCEPT ![u] = TRUE]

\* A worker, or a fiber that is done, picks the next fiber.
Pick(t, u) ==
  /\ At(t, "pick") \/ At(t, "idle")
  /\ Trylock(u)
  /\ Push(t, <<Switch(t, u)>>)
  /\ UNCHANGED <<current, context, blocked, init_complete, completed_fibers>>

\* SIGALRM interrupts thread t, and schedule picks the next fiber.  What the
\* flow was doing is lost where current is ahead of it, and where it is a
\* worker's and holds a lock, for nobody gets back to a worker.
Unsafe(t) ==
  \/ InFrame(t, "leave")
  \/ InFrame(t, "jump")
  \/ InFrame(t, "set") /\ cpu[t].flow \in Workers
  \/ InFrame(t, "handler")
Interruptible(t) ==
  /\ ~blocked[t]
  /\ AlarmInSwitch \/ ~Unsafe(t)
Armed == Created = Cells /\ (\A t \in Threads : current[t] # NONE) /\ ~At(Main, "create")

Alarm(t, u) ==
  /\ Armed /\ Interruptible(t)
  /\ Trylock(u)
  /\ Push(t, <<[at |-> "handler", from |-> NONE, to |-> NONE], Switch(t, u)>>)
  /\ blocked' = [blocked EXCEPT ![t] = TRUE]
  /\ UNCHANGED <<current, context, init_complete, completed_fibers>>

SetCurrent(t) ==
  /\ InFrame(t, "set")
  /\ current' = [current EXCEPT ![t] = Top(t).to]
  /\ Replace(t, "leave")
  /\ UNCHANGED <<running, context, blocked, init_complete, completed_fibers>>

\* Mutant of Leave: the context is not saved again.
LeaveUnsaved(t) ==
  /\ InFrame(t, "leave")
  /\ context' = [context EXCEPT ![Top(t).from] =
                   IF @ = NONE THEN Popped(cpu[t]) ELSE @]
  /\ running' = [running EXCEPT ![Top(t).from] = FALSE]
  /\ Replace(t, "jump")
  /\ UNCHANGED <<current, blocked, init_complete, completed_fibers>>

\* set_jmp saves the flow as it will return from this switch, and the fiber
\* is unlocked: from here on another thread may resume it.
Leave(t) ==
  /\ InFrame(t, "leave")
  /\ context' = [context EXCEPT ![Top(t).from] = Popped(cpu[t])]
  /\ running' = [running EXCEPT ![Top(t).from] = FALSE]
  /\ Replace(t, "jump")
  /\ UNCHANGED <<current, blocked, init_complete, completed_fibers>>

Jump(t) ==
  /\ InFrame(t, "jump")
  /\ cpu' = [cpu EXCEPT ![t] = context[Top(t).to]]
  /\ UNCHANGED <<current, running, context, blocked, init_complete, completed_fibers>>

\* The flow returns from the handler that interrupted it, on whatever thread
\* it is now: SIGALRM is unblocked there.
HandlerReturn(t) ==
  /\ InFrame(t, "handler")
  /\ cpu' = [cpu EXCEPT ![t] = Popped(@)]
  /\ blocked' = [blocked EXCEPT ![t] = FALSE]
  /\ UNCHANGED <<current, running, context, init_complete, completed_fibers>>
-----------------------------------------------------------------------------
(* main_loop: a cell does its work, counts itself out and goes idle; the   *)
(* fiber of the main thread waits for the others and announces the end.    *)
\* Mutant of EndOfWork: a cell stays in its loop once the calls are complete.
EndOfWorkAgain(t) ==
  /\ At(t, "work")
  /\ completed_fibers' = completed_fibers - 1
  /\ Become(t, IF cpu[t].flow = Main THEN "spin" ELSE "work")
  /\ UNCHANGED <<current, running, context, blocked, init_complete>>

EndOfWork(t) ==
  /\ At(t, "work")
  /\ completed_fibers' = completed_fibers - 1
  /\ Become(t, IF cpu[t].flow = Main THEN "spin" ELSE "idle")
  /\ UNCHANGED <<current, running, context, blocked, init_complete>>

Announce(t) ==
  /\ At(t, "spin") /\ completed_fibers = 0
  /\ Become(t, "done")
  /\ UNCHANGED <<current, running, context, blocked, init_complete, completed_fibers>>

Setup   == Arm \/ \E c \in Cells : ult_creat(c)
Run(t)  == ult_convert(t) \/ Await(t) \/ SetCurrent(t) \/ Leave(t) \/ Jump(t) \/ HandlerReturn(t)
Work(t) == Release(t) \/ EndOfWork(t) \/ Announce(t)

Next ==
  \/ Setup
  \/ \E t \in Threads :
       \/ Run(t) \/ Work(t)
       \/ \E u \in fibers : Pick(t, u) \/ Alarm(t, u)

Spec == Init /\ [][Next]_vars

\* A processor runs its thread.  A flow that is run again and again gets on
\* with its work, for it goes on where an alarm stopped it; and among the
\* picks that are made for ever, each fiber is picked again and again.  No
\* alarm need come.
FairSpec ==
  /\ Spec
  /\ WF_vars(Setup)
  /\ \A t \in Threads : WF_vars(Run(t)) /\ SF_vars(Work(t))
  /\ \A u \in fibers : SF_vars(\E t \in Threads : Pick(t, u))
-----------------------------------------------------------------------------
\* Every variable has its type, and no more fibers are completed than exist
\* (ult_t, exec_context_t and the globals of main.c).
TypeOK ==
  /\ current \in [Threads -> Ults \cup {NONE}]
  /\ running \in [Ults -> BOOLEAN]
  /\ context \in [Ults -> Conts \cup {NONE}]
  /\ cpu \in [Threads -> Conts]
  /\ blocked \in [Threads -> BOOLEAN]
  /\ init_complete \in BOOLEAN
  /\ completed_fibers \in 0..Cardinality(fibers)

\* main.c:118 of thread_initialization: "This function lives in an
\* "abandoned" fiber: no-one will ever get back here!"  No thread that has
\* left the flow of a worker, and no other, comes to execute it.
NobodyGetsBack ==
  [][\A t \in Threads : cpu'[t].flow \in Workers => cpu[t].flow = cpu'[t].flow]_vars

\* Where the continuation of flow u that will be executed is.
Runs(t) == IF InFrame(t, "leave") THEN Top(t).from ELSE current[t]
Executes(t) == IF InFrame(t, "jump") THEN context[Top(t).to] ELSE cpu[t]
Exist   == Created \cup {t \in Threads : current[t] # NONE}
Idle    == Exist \ {Runs(t) : t \in Threads}

\* The count main_loop's end waits for is the number of fibers whose work is
\* ahead of them: no flow is resumed from a context it has already left.
CountTrue ==
  LET IsDone(c) == c.at \in {"idle", "spin", "done"}
  IN  completed_fibers = Cardinality(fibers)
        - Cardinality({t \in Threads : IsDone(Executes(t))})
        - Cardinality({u \in Idle : IsDone(context[u])})

\* The program ends with its message (README: "At the end of the execution,
\* you will receive a message"): every cell's work gets done though each
\* thread picks its fibers blindly.
AllDone == <>(\E t \in Threads : cpu[t].at = "done")

\* The user-level threads implement the abstract scheduler: a switch takes
\* effect when the fiber that is left is saved and unlocked.
Fiber(u)   == <<u, "ult">>
Context(c) == [flow |-> IF c.flow \in Threads THEN c.flow ELSE Fiber(c.flow), pos |-> 0]
Scheduler == INSTANCE FiberScheduler WITH
  Fibers  <- Ults \X {"ult"},
  PosMax  <- 0,
  fibers  <- {Fiber(u) : u \in Exist},
  running <- [t \in Threads |-> IF Runs(t) = NONE THEN NONE ELSE Fiber(Runs(t))],
  saved   <- [f \in {Fiber(u) : u \in Idle} |-> Context(context[f[1]])],
  cpu     <- [t \in Threads |-> Context(Executes(t))]
ImplementsScheduler == Scheduler!Spec
=============================================================================
