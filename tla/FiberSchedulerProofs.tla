------------------------ MODULE FiberSchedulerProofs ------------------------
(***************************************************************************)
(* What every implementation of the fiber interface inherits: however      *)
(* threads are converted and fibers created and switched to, no flow of    *)
(* control is lost, and none has two places from which it could go on.     *)
(***************************************************************************)
EXTENDS FiberScheduler, TLAPS

\* What the names must satisfy: a thread is no fiber, and NONE is no fiber.
Names == NONE \notin Fibers /\ Threads \cap Fibers = {} /\ PosMax \in Nat

\* No fiber is run by two threads.
RunOnce == \A t, u \in Threads : running[t] = running[u] /\ running[t] # NONE => t = u

\* A flow started in a thread, or in a fiber that exists.
Started == \A h \in Homes : FlowAt(h) \in Threads \cup fibers

IInv == TypeOK /\ RunOnce /\ Started /\ OneHomePerFlow

\* Initially each thread is the home of its own flow.
LEMMA InitInv == ASSUME Names, Init PROVE IInv
<1>1. DOMAIN saved = {} /\ fibers = {} /\ Homes = Threads
  BY DEF Init, Homes
<1>2. \A t \in Threads : FlowAt(t) = t /\ running[t] = NONE
  BY DEF Init, FlowAt
<1>3. cpu \in [Threads -> Contexts]
  BY DEF Names, Init, Contexts, Flows
<1>4. saved \in [{f \in fibers : \A t \in Threads : running[t] # f} -> Contexts]
  BY <1>1 DEF Init
<1>5. TypeOK
  BY <1>1, <1>3, <1>4 DEF Init, TypeOK
<1> QED
  BY <1>1, <1>2, <1>5 DEF IInv, RunOnce, Started, OneHomePerFlow

\* A flow that makes progress stays where it is.
LEMMA AdvanceInv == ASSUME Names, IInv, NEW t \in Threads, Advance(t) PROVE IInv'
<1>1. cpu[t] \in Contexts /\ cpu[t].pos \in 0..PosMax /\ cpu[t].flow \in Flows
  BY DEF IInv, TypeOK, Contexts
<1>2. cpu' = [cpu EXCEPT ![t] = Resumed(cpu[t])]
  BY DEF Advance
<1>3. Resumed(cpu[t]) \in Contexts /\ Resumed(cpu[t]).flow = cpu[t].flow
  <2>1. Step(cpu[t].pos) \in 0..PosMax
    BY <1>1 DEF Names, Step
  <2>2. Resumed(cpu[t]) = [flow |-> cpu[t].flow, pos |-> Step(cpu[t].pos)]
    BY <1>1 DEF Contexts, Resumed
  <2> QED  BY <1>1, <2>1, <2>2 DEF Contexts
<1>4. cpu' \in [Threads -> Contexts] /\ \A u \in Threads : cpu'[u].flow = cpu[u].flow
  BY <1>2, <1>3 DEF IInv, TypeOK
<1>5. Homes' = Homes /\ \A h \in Homes : FlowAt(h)' = FlowAt(h)
  BY <1>4 DEF Advance, Homes, FlowAt
<1>6. TypeOK' /\ RunOnce'
  BY <1>4 DEF IInv, TypeOK, RunOnce, Advance
<1> QED
  BY <1>5, <1>6 DEF IInv, Started, OneHomePerFlow, Advance

\* A conversion moves no context.
LEMMA AdoptInv ==
  ASSUME Names, IInv, NEW t \in Threads, NEW f \in Fibers, Adopt(t, f) PROVE IInv'
<1> USE DEF Names, IInv, TypeOK, Adopt
<1>1. {g \in fibers' : \A u \in Threads : running'[u] # g}
        = {g \in fibers : \A u \in Threads : running[u] # g}
  OBVIOUS
<1>2. TypeOK'
  BY <1>1
<1>3. RunOnce'
  BY DEF RunOnce
<1>4. Homes' = Homes /\ \A h \in Homes : FlowAt(h)' = FlowAt(h)
  BY DEF Homes, FlowAt
<1> QED
  BY <1>2, <1>3, <1>4 DEF Started, OneHomePerFlow

\* A new fiber is the home of a flow that no home had.
LEMMA NewFiberInv == ASSUME Names, IInv, NEW f \in Fibers, NewFiber(f) PROVE IInv'
<1> DEFINE fresh == [flow |-> f, pos |-> 0]
<1>1. /\ f \notin fibers /\ fibers' = fibers \cup {f}
      /\ running' = running /\ cpu' = cpu
      /\ saved' = [g \in DOMAIN saved \cup {f} |-> IF g = f THEN fresh ELSE saved[g]]
  BY DEF NewFiber, With
<1>2. /\ DOMAIN saved = {g \in fibers : \A u \in Threads : running[u] # g}
      /\ \A u \in Threads : running[u] \in fibers \cup {NONE}
      /\ \A g \in DOMAIN saved : saved[g] \in Contexts
  BY DEF IInv, TypeOK
<1>3. f # NONE /\ \A u \in Threads : running[u] # f
  BY <1>1, <1>2 DEF Names
<1>4. DOMAIN saved \cup {f} = {g \in fibers' : \A u \in Threads : running'[u] # g}
  BY <1>1, <1>2, <1>3
<1>5. fresh \in Contexts
  BY DEF Names, Contexts, Flows
<1>6. saved' \in [{g \in fibers' : \A u \in Threads : running'[u] # g} -> Contexts]
  <2>1. saved' \in [DOMAIN saved \cup {f} -> Contexts]
    BY <1>1, <1>2, <1>5
  <2> QED  BY <1>4, <2>1
<1>7. TypeOK' /\ RunOnce'
  BY <1>1, <1>6 DEF IInv, TypeOK, RunOnce
<1>8. Homes' = Homes \cup {f} /\ f \notin Homes
  BY <1>1, <1>2 DEF Homes, Names
<1>9. FlowAt(f)' = f
  BY <1>1, <1>8 DEF FlowAt, Names
<1>10. \A h \in Homes : FlowAt(h)' = FlowAt(h)
  BY <1>1, <1>8 DEF FlowAt, Homes
<1>11. \A h \in Homes : FlowAt(h) # f
  BY <1>1 DEF IInv, Started, Names
<1>12. OneHomePerFlow'
  <2>1. \A h, k \in Homes' : FlowAt(h)' = FlowAt(k)' => h = k
    BY <1>8, <1>9, <1>10, <1>11 DEF IInv, OneHomePerFlow
  <2>2. ASSUME NEW u \in Threads PROVE \E h \in Homes' : FlowAt(h)' = u
    <3>1. PICK h \in Homes : FlowAt(h) = u
      BY DEF IInv, OneHomePerFlow
    <3> QED  BY <1>8, <1>10, <3>1
  <2> QED  BY <2>1, <2>2 DEF OneHomePerFlow
<1>13. Started'
  BY <1>1, <1>8, <1>9, <1>10 DEF IInv, Started
<1> QED
  BY <1>7, <1>12, <1>13 DEF IInv

\* A switch exchanges the contexts of two homes.
LEMMA SwitchInv ==
  ASSUME Names, IInv, NEW t \in Threads, NEW f \in Fibers, SwitchTo(t, f) PROVE IInv'
<1> PICK o : o = running[t]
  OBVIOUS
<1> DEFINE T == (DOMAIN saved \ {f}) \cup {o}
<1>1. /\ o # NONE /\ f \in DOMAIN saved
      /\ saved' = [g \in T |-> IF g = o THEN cpu[t] ELSE saved[g]]
      /\ cpu' = [cpu EXCEPT ![t] = saved[f]]
      /\ running' = [running EXCEPT ![t] = f]
      /\ fibers' = fibers
  BY DEF SwitchTo, With
<1>2. /\ DOMAIN saved = {g \in fibers : \A u \in Threads : running[u] # g}
      /\ running \in [Threads -> fibers \cup {NONE}]
      /\ \A g \in DOMAIN saved : saved[g] \in Contexts
      /\ cpu \in [Threads -> Contexts] /\ fibers \subseteq Fibers
  BY DEF IInv, TypeOK
<1>3. o \in fibers /\ o # f /\ o \notin DOMAIN saved /\ \A u \in Threads \ {t} : running[u] # o
  BY <1>1, <1>2 DEF IInv, RunOnce
<1>4. T = {g \in fibers' : \A u \in Threads : running'[u] # g}
  BY <1>1, <1>2, <1>3
<1>5. saved' \in [{g \in fibers' : \A u \in Threads : running'[u] # g} -> Contexts]
  BY <1>1, <1>2, <1>4
<1>6. TypeOK'
  BY <1>1, <1>2, <1>5 DEF TypeOK
<1>7. RunOnce'
  BY <1>1, <1>2 DEF IInv, RunOnce
<1>8. Homes' = (Homes \ {f}) \cup {o} /\ f \in Homes /\ t \in Homes /\ o \notin Homes
      /\ f \notin Threads /\ o \notin Threads
  BY <1>1, <1>2, <1>3 DEF Homes, Names
<1>9. FlowAt(t)' = FlowAt(f) /\ FlowAt(o)' = FlowAt(t)
  BY <1>1, <1>2, <1>8 DEF FlowAt
<1>10. \A h \in Homes \ {f, t} : FlowAt(h)' = FlowAt(h)
  BY <1>1, <1>2, <1>8 DEF FlowAt, Homes
<1>11. \A h, k \in Homes' : FlowAt(h)' = FlowAt(k)' => h = k
  BY <1>8, <1>9, <1>10 DEF IInv, OneHomePerFlow
<1>12. ASSUME NEW u \in Threads PROVE \E h \in Homes' : FlowAt(h)' = u
  <2>1. PICK h \in Homes : FlowAt(h) = u
    BY DEF IInv, OneHomePerFlow
  <2>2. CASE h = f
    BY <1>8, <1>9, <2>1, <2>2
  <2>3. CASE h = t
    BY <1>8, <1>9, <2>1, <2>3
  <2>4. CASE h \notin {f, t}
    BY <1>8, <1>10, <2>1, <2>4
  <2> QED  BY <2>2, <2>3, <2>4
<1>13. Started'
  BY <1>1, <1>8, <1>9, <1>10 DEF IInv, Started
<1> QED
  BY <1>6, <1>7, <1>11, <1>12, <1>13 DEF IInv, OneHomePerFlow

\* No step loses a flow or gives it a second home.
LEMMA NextInv == ASSUME Names, IInv, [Next]_vars PROVE IInv'
<1>1. CASE UNCHANGED vars
  BY <1>1 DEF vars, IInv, TypeOK, RunOnce, Started, OneHomePerFlow, Homes, FlowAt
<1> QED
  BY <1>1, AdvanceInv, AdoptInv, NewFiberInv, SwitchInv DEF Next

\* The abstract scheduler never loses a flow or lets it be executed twice, for
\* any threads and fibers: what its implementations are checked against is
\* itself sound.
THEOREM OneHome == ASSUME Names PROVE Spec => []OneHomePerFlow
<1>1. Init => IInv
  BY InitInv
<1>2. IInv /\ [Next]_vars => IInv'
  BY NextInv
<1>3. IInv => OneHomePerFlow
  BY DEF IInv
<1> QED
  BY <1>1, <1>2, <1>3, PTL DEF Spec
=============================================================================
