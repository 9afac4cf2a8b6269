--------------------------- MODULE FiberScheduler ---------------------------
(***************************************************************************)
(* What the fiber interface promises to a process, with no locks, tables   *)
(* or kernel entry points in sight: a thread becomes a fiber, fibers are   *)
(* created suspended, and a switch exchanges, in one step, the context of  *)
(* the fiber a thread runs with the saved context of a fiber nobody runs.  *)
(*                                                                         *)
(* A context is the pair of a flow of control and how far that flow has    *)
(* got.  A flow is named by where it started: the thread that was running  *)
(* when it was converted, or the fiber whose start function it entered.    *)
(***************************************************************************)
EXTENDS Naturals

CONSTANTS Threads,   \* the threads of one process
          Fibers,    \* the fiber objects it may own
          NONE,      \* no fiber, no thread
          PosMax     \* progress of a flow is counted modulo PosMax + 1

Flows    == Threads \cup Fibers
Contexts == [flow : Flows, pos : 0..PosMax]

VARIABLES fibers,    \* the fibers that exist
          running,   \* running[t]: the fiber thread t runs, NONE before conversion
          saved,     \* saved[f]: the context kept for a fiber f that nobody runs
          cpu        \* cpu[t]: the context thread t executes
vars == <<fibers, running, saved, cpu>>

Init ==
  /\ fibers  = {}
  /\ running = [t \in Threads |-> NONE]
  /\ saved   = [f \in {} |-> {}]
  /\ cpu     = [t \in Threads |-> [flow |-> t, pos |-> 0]]

Step(p)    == IF p = PosMax THEN 0 ELSE p + 1
Resumed(c) == [c EXCEPT !.pos = Step(@)]

\* What is kept for the fibers of S once context c is kept for f.
With(S, f, c) == [g \in S |-> IF g = f THEN c ELSE saved[g]]

\* The flow on thread t makes progress.
Advance(t) ==
  /\ cpu' = [cpu EXCEPT ![t] = Resumed(@)]
  /\ UNCHANGED <<fibers, running, saved>>

\* ConvertThreadToFiber: f stands for the flow t was already running.
Adopt(t, f) ==
  /\ running[t] = NONE /\ f \notin fibers
  /\ fibers'  = fibers \cup {f}
  /\ running' = [running EXCEPT ![t] = f]
  /\ UNCHANGED <<saved, cpu>>

\* CreateFiber: f is suspended at the entry of its start function.
NewFiber(f) ==
  /\ f \notin fibers
  /\ fibers' = fibers \cup {f}
  /\ saved'  = With(DOMAIN saved \cup {f}, f, [flow |-> f, pos |-> 0])
  /\ UNCHANGED <<running, cpu>>

\* SwitchToFiber, when it succeeds: f is a fiber that no thread runs.
SwitchTo(t, f) ==
  /\ running[t] # NONE /\ f \in DOMAIN saved
  /\ saved'   = With((DOMAIN saved \ {f}) \cup {running[t]}, running[t], cpu[t])
  /\ cpu'     = [cpu EXCEPT ![t] = saved[f]]
  /\ running' = [running EXCEPT ![t] = f]
  /\ UNCHANGED fibers

Next ==
  \/ \E t \in Threads : Advance(t)
  \/ \E t \in Threads, f \in Fibers : Adopt(t, f) \/ SwitchTo(t, f)
  \/ \E f \in Fibers : NewFiber(f)

Spec == Init /\ [][Next]_vars
-----------------------------------------------------------------------------
\* Every variable has its type (what convert, create and switch hand around).
TypeOK ==
  /\ fibers \subseteq Fibers
  /\ running \in [Threads -> fibers \cup {NONE}]
  /\ saved \in [{f \in fibers : \A t \in Threads : running[t] # f} -> Contexts]
  /\ cpu \in [Threads -> Contexts]

\* The contexts that will be executed, by where they are kept.
FlowAt(h) == IF h \in Threads THEN cpu[h].flow ELSE saved[h].flow
Homes     == Threads \cup DOMAIN saved

\* No flow of control is ever lost or executed twice: each is on one thread
\* or kept for one fiber, and the flow a thread started with has a home.
OneHomePerFlow ==
  /\ \A h, k \in Homes : FlowAt(h) = FlowAt(k) => h = k
  /\ Threads \subseteq {FlowAt(h) : h \in Homes}
=============================================================================
