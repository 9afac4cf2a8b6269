------------------------ MODULE EarlierKernelsProofs ------------------------
(***************************************************************************)
(* What holds of the two earlier kernel modules for any processes, threads *)
(* and fibers: each fiber finds its own storage, and each version          *)
(* implements the abstract scheduler.                                      *)
(***************************************************************************)
EXTENDS EarlierKernels, FiniteSetTheorems, SequenceTheorems,
        WellFoundedInduction, TLAPS

(* The version with try-locks.                                             *)

\* Fiber f stands for the flow of control that thread t executes.
Embodies(f, t) == f \in T!Heap /\ entry_point[f] = cpu[t]

\* The locks of a thread: that of the fiber whose flow it executes, but for a
\* conversion, and that of the target once a switch has got it.
LocksOf(t) ==
  \A f \in Fibers : lock_fiber[f] = t <=>
    \/ Embodies(f, t) /\ pc[t] \notin T!ConvertPcs
    \/ pc[t] \in {"swap", "oops"} /\ f = new[t]

\* What a handler knows of the fibers it has looked up.
Locals(t) ==
  /\ pc[t] \in T!ConvertPcs =>
       /\ new[t] \in T!Heap /\ entry_point[new[t]] = t /\ cpu[t] = t
       /\ lock_fiber[new[t]] = NONE
  /\ pc[t] = "convertMark" => runner[new[t]] = NONE /\ ~running[new[t]]
  /\ pc[t] \in T!SwitchPcs \cup {"oops"} => new[t] \in T!Known
  /\ pc[t] \in {"test", "try", "swap"} => old[t] = NONE \/ Embodies(old[t], t)
  /\ pc[t] \in {"swap", "clearRunning", "clearRunner"} => old[t] \in T!Heap
  /\ pc[t] \in {"swap", "oops"} => ~Embodies(new[t], t)
  /\ pc[t] \in {"clearRunning", "clearRunner", "mark"} => Embodies(new[t], t)

\* Memory that kmalloc has not returned yet is as it was.
Unborn ==
  \A f \in Fibers \ T!Heap :
    runner[f] = NONE /\ ~running[f] /\ fls[f] = NONE /\ lock_fiber[f] = NONE

\* A fiber stands for one flow, a flow has one fiber, and what is kept for a
\* fiber is always its own flow.
Entries ==
  /\ \A f \in T!Heap : entry_point[f] \in Threads \cup {f} /\ regs[f] = entry_point[f]
  /\ \A f, g \in T!Heap : entry_point[f] = entry_point[g] => f = g

\* A thread executes the flow it was born with until it is converted, and the
\* flow of a fiber ever after.
Origin == \A t \in Threads : IF T!Converted(t) THEN \E f \in T!Heap : Embodies(f, t)
                                              ELSE cpu[t] = t

TryInv ==
  /\ T!TypeOK /\ Unborn /\ Entries /\ Origin
  /\ \A t \in Threads : LocksOf(t)
  /\ \A t \in Threads : Locals(t)
  /\ T!MarksTrue /\ T!NoneLost /\ OwnStorage
-----------------------------------------------------------------------------
\* Nothing is allocated, converted or locked at first.
LEMMA TryInit == ASSUME T!Init PROVE TryInv
<1> USE Names DEF T!Init, T!Heap
<1>1. T!TypeOK
  BY DEF T!TypeOK, T!Pcs
<1>2. Unborn /\ Entries /\ Origin /\ OwnStorage
  BY DEF Unborn, Entries, Origin, Embodies, T!Converted, OwnStorage
<1>3. \A t \in Threads : LocksOf(t) /\ Locals(t)
  BY DEF LocksOf, Locals, Embodies, T!ConvertPcs, T!SwitchPcs
<1>4. T!MarksTrue /\ T!NoneLost
  BY DEF T!MarksTrue, T!NoneLost, T!Known
<1> QED
  BY <1>1, <1>2, <1>3, <1>4 DEF TryInv

\* No two threads execute one flow, so none has two locks of a fiber.
LEMMA Unshared ==
  ASSUME TryInv, NEW f \in T!Heap, NEW t \in Threads, NEW u \in Threads,
         Embodies(f, t), Embodies(f, u)
  PROVE  t = u
<1>1. CASE pc[t] \in T!ConvertPcs
  <2>1. cpu[t] = t /\ entry_point[f] = t /\ entry_point[new[t]] = t /\ new[t] \in T!Heap
    BY <1>1 DEF TryInv, Locals, Embodies
  <2>2. f = new[t] /\ lock_fiber[f] = NONE
    BY <1>1, <2>1 DEF TryInv, Entries, Locals
  <2>3. pc[u] \in T!ConvertPcs
    BY <2>2, Names DEF TryInv, LocksOf, T!Heap
  <2> QED  BY <2>1, <2>3 DEF TryInv, Locals, Embodies
<1>2. CASE pc[u] \in T!ConvertPcs
  <2>1. cpu[u] = u /\ entry_point[f] = u /\ entry_point[new[u]] = u /\ new[u] \in T!Heap
    BY <1>2 DEF TryInv, Locals, Embodies
  <2>2. f = new[u] /\ lock_fiber[f] = NONE
    BY <1>2, <2>1 DEF TryInv, Entries, Locals
  <2>3. pc[t] \in T!ConvertPcs
    BY <2>2, Names DEF TryInv, LocksOf, T!Heap
  <2> QED  BY <2>1, <2>3 DEF TryInv, Locals, Embodies
<1>3. CASE pc[t] \notin T!ConvertPcs /\ pc[u] \notin T!ConvertPcs
  BY <1>3 DEF TryInv, LocksOf, T!Heap
<1> QED  BY <1>1, <1>2, <1>3

\* What a handler knows stays true unless its own thread or its target changes.
LEMMA LocalsStable ==
  ASSUME NEW u \in Threads, Locals(u),
         pc'[u] = pc[u] /\ new'[u] = new[u] /\ old'[u] = old[u] /\ cpu'[u] = cpu[u],
         T!Heap \subseteq T!Heap', T!Known \subseteq T!Known',
         \A f \in T!Heap : entry_point'[f] = entry_point[f],
         pc[u] \in T!ConvertPcs =>
           lock_fiber'[new[u]] \in {lock_fiber[new[u]], NONE},
         pc[u] = "convertMark" =>
           /\ runner'[new[u]] \in {runner[new[u]], NONE}
           /\ running'[new[u]] => running[new[u]]
  PROVE  Locals(u)'
<1>1. T!Known \subseteq T!Heap
  BY DEF T!Known
<1>2. \A f \in T!Heap : Embodies(f, u)' <=> Embodies(f, u)
  BY DEF Embodies
<1>3. pc[u] \in T!ConvertPcs => Locals(u)'
  BY DEF Locals, T!ConvertPcs, T!SwitchPcs
<1>4. pc[u] \notin T!ConvertPcs => Locals(u)'
  BY <1>1, <1>2 DEF Locals, T!ConvertPcs, T!SwitchPcs, Embodies
<1> QED  BY <1>3, <1>4

\* The registers are exchanged: a switch leaves one fiber and enters another.
LEMMA SwapInv == ASSUME TryInv, NEW t \in Users, T!Swap(t) PROVE TryInv'
<1> PICK o : o = old[t]  OBVIOUS
<1> PICK n : n = new[t]  OBVIOUS
<1> USE Names DEF TryInv
<1>1. /\ pc[t] = "swap" /\ pc' = [pc EXCEPT ![t] = "clearRunning"]
      /\ regs' = [regs EXCEPT ![o] = cpu[t]]
      /\ lock_fiber' = [lock_fiber EXCEPT ![o] = NONE]
      /\ cpu' = [cpu EXCEPT ![t] = regs[n]]
      /\ UNCHANGED <<runner, running, entry_point, fls, old, new>>
  BY DEF T!Swap, T!Goto, T!markVars
<1>2. /\ o \in T!Heap /\ entry_point[o] = cpu[t] /\ n \in T!Heap /\ ~Embodies(n, t)
      /\ t \in Threads /\ regs[n] = entry_point[n] /\ entry_point[n] # NONE
      /\ o \in Fibers /\ n \in Fibers
  BY <1>1 DEF Locals, Embodies, T!SwitchPcs, T!Heap, T!Known, Entries
<1>3. T!Heap' = T!Heap /\ T!Known' = T!Known
  <2>1. \A u \in Threads : pc'[u] \in T!ConvertPcs <=> pc[u] \in T!ConvertPcs
    BY <1>1 DEF T!TypeOK, T!ConvertPcs
  <2> QED  BY <1>1, <2>1 DEF T!Heap, T!Known
<1>4. T!TypeOK'
  BY <1>1, <1>2 DEF T!TypeOK, T!Pcs, T!SwitchPcs
<1>5. Unborn' /\ Entries' /\ Origin' /\ OwnStorage'
  BY <1>1, <1>2, <1>3 DEF Unborn, Entries, Origin, Embodies, T!Converted, OwnStorage, T!TypeOK
<1>6. ASSUME NEW u \in Threads PROVE \A f \in Fibers : u # t => (Embodies(f, u)' <=> Embodies(f, u))
  BY <1>1, <1>3 DEF Embodies, T!TypeOK
<1>7. \A f \in Fibers : Embodies(f, t)' <=> f = n
  BY <1>1, <1>2, <1>3 DEF Embodies, T!TypeOK, Entries
<1>8. ASSUME NEW u \in Threads PROVE LocksOf(u)'
  BY <1>1, <1>2, <1>6, <1>7, Unshared DEF LocksOf, Embodies, T!TypeOK, T!ConvertPcs, Entries
<1>9. ASSUME NEW u \in Threads PROVE Locals(u)'
  <2>1. CASE u = t
    BY <1>1, <1>2, <1>3, <1>7, <2>1 DEF Locals, T!TypeOK, T!ConvertPcs, T!SwitchPcs
  <2>2. CASE u # t
    BY <1>1, <1>3, <2>2, LocalsStable DEF T!TypeOK
  <2> QED  BY <2>1, <2>2
<1>10. T!MarksTrue'
  BY <1>1, <1>2, <1>3 DEF T!MarksTrue, T!TypeOK, Entries
<1>11. T!NoneLost'
  BY <1>1, <1>2, <1>3 DEF T!NoneLost, T!TypeOK
<1> QED
  BY <1>4, <1>5, <1>8, <1>9, <1>10, <1>11

\* A refusal, a test that succeeds: only the handler goes on.
LEMMA TestInv == ASSUME TryInv, NEW t \in Users, T!Refuse(t) \/ T!Test(t) PROVE TryInv'
<1> USE Names DEF TryInv
<1>1. /\ pc[t] \in {"test", "try"} /\ pc'[t] \in {"user", "try"} /\ t \in Threads
      /\ pc' \in [Threads -> T!Pcs] /\ new' \in [Threads -> Fibers \cup {NONE}]
      /\ old' \in [Threads -> Fibers \cup {NONE}]
      /\ \A u \in Threads \ {t} : pc'[u] = pc[u] /\ new'[u] = new[u] /\ old'[u] = old[u]
      /\ pc'[t] = "try" => new'[t] = new[t] /\ old'[t] = old[t]
      /\ UNCHANGED <<runner, running, regs, entry_point, fls, lock_fiber, cpu>>
  BY DEF T!Refuse, T!Test, T!Return, T!Goto, T!markVars, T!TypeOK, T!Pcs, T!SwitchPcs
<1>2. T!Heap' = T!Heap /\ T!Known' = T!Known
  <2>1. \A u \in Threads : \A f \in Fibers :
          pc'[u] \in T!ConvertPcs /\ new'[u] = f <=> pc[u] \in T!ConvertPcs /\ new[u] = f
    BY <1>1 DEF T!TypeOK, T!ConvertPcs
  <2> QED  BY <1>1, <2>1 DEF T!Heap, T!Known
<1>3. T!TypeOK' /\ Unborn' /\ Entries' /\ Origin' /\ OwnStorage'
  BY <1>1, <1>2 DEF T!TypeOK, Unborn, Entries, Origin, Embodies, T!Converted, OwnStorage
<1>4. ASSUME NEW u \in Threads PROVE \A f \in Fibers : Embodies(f, u)' <=> Embodies(f, u)
  BY <1>1, <1>2 DEF Embodies
<1>5. ASSUME NEW u \in Threads PROVE LocksOf(u)'
  BY <1>1, <1>4 DEF LocksOf, T!ConvertPcs
<1>6. ASSUME NEW u \in Threads PROVE Locals(u)'
  <2>1. CASE u = t
    <3>1. old[t] = NONE \/ Embodies(old[t], t)
      BY <1>1 DEF Locals
    <3>2. new[t] \in T!Known
      BY <1>1 DEF Locals, T!SwitchPcs
    <3> QED  BY <1>1, <1>2, <2>1, <3>1, <3>2 DEF Locals, Embodies, T!ConvertPcs, T!SwitchPcs
  <2>2. CASE u # t
    BY <1>1, <1>2, <2>2, LocalsStable
  <2> QED  BY <2>1, <2>2
<1>7. T!MarksTrue'
  BY <1>1, <1>2 DEF T!MarksTrue
<1>8. T!NoneLost'
  BY <1>1, <1>2 DEF T!NoneLost
<1> QED
  BY <1>3, <1>5, <1>6, <1>7, <1>8

\* The lookup finds the fiber marked with the caller, which is its own.
LEMMA LookupInv ==
  ASSUME TryInv, NEW t \in Users, NEW g \in Fibers, T!fib_switch_to(t, g) PROVE TryInv'
<1> PICK o : o = T!MarkedWith(t)  OBVIOUS
<1> USE Names DEF TryInv
<1>1. /\ pc[t] = "user" /\ pc' = [pc EXCEPT ![t] = "test"] /\ t \in Threads
      /\ g \in T!Known /\ old' = [old EXCEPT ![t] = o] /\ new' = [new EXCEPT ![t] = g]
      /\ UNCHANGED <<runner, running, regs, entry_point, fls, lock_fiber, cpu>>
  BY DEF T!fib_switch_to, T!Goto, T!markVars
<1>2. o = NONE \/ (o \in T!Heap /\ runner[o] = t)
  BY DEF T!MarkedWith
<1>3. o = NONE \/ Embodies(o, t)
  BY <1>1, <1>2 DEF T!MarksTrue, Embodies
<1>4. T!Heap' = T!Heap /\ T!Known' = T!Known
  <2>1. \A u \in Threads : \A f \in Fibers :
          pc'[u] \in T!ConvertPcs /\ new'[u] = f <=> pc[u] \in T!ConvertPcs /\ new[u] = f
    BY <1>1 DEF T!TypeOK, T!ConvertPcs
  <2> QED  BY <1>1, <2>1 DEF T!Heap, T!Known
<1>5. T!TypeOK' /\ Unborn' /\ Entries' /\ Origin' /\ OwnStorage'
  BY <1>1, <1>2, <1>4
     DEF T!TypeOK, Unborn, Entries, Origin, Embodies, T!Converted, OwnStorage, T!Pcs, T!SwitchPcs, T!Heap
<1>6. ASSUME NEW u \in Threads PROVE \A f \in Fibers : Embodies(f, u)' <=> Embodies(f, u)
  BY <1>1, <1>4 DEF Embodies
<1>7. ASSUME NEW u \in Threads PROVE LocksOf(u)'
  BY <1>1, <1>6 DEF LocksOf, T!ConvertPcs, T!TypeOK
<1>8. ASSUME NEW u \in Threads PROVE Locals(u)'
  <2>1. CASE u = t
    BY <1>1, <1>3, <1>4, <2>1 DEF Locals, Embodies, T!ConvertPcs, T!SwitchPcs, T!TypeOK
  <2>2. CASE u # t
    BY <1>1, <1>4, <2>2, LocalsStable DEF T!TypeOK
  <2> QED  BY <2>1, <2>2
<1>9. T!MarksTrue'
  BY <1>1, <1>4 DEF T!MarksTrue, T!TypeOK
<1>10. T!NoneLost'
  BY <1>1, <1>4 DEF T!NoneLost, T!TypeOK
<1> QED
  BY <1>5, <1>7, <1>8, <1>9, <1>10

\* The lock of the target: free, so the target is not the caller's own fiber.
LEMMA TryLockInv == ASSUME TryInv, NEW t \in Users, T!Try(t) PROVE TryInv'
<1> PICK n : n = new[t]  OBVIOUS
<1> USE Names DEF TryInv
<1>1. /\ pc[t] = "try" /\ t \in Threads /\ lock_fiber[n] = NONE
      /\ pc' = [pc EXCEPT ![t] = IF old[t] = NONE THEN "oops" ELSE "swap"]
      /\ lock_fiber' = [lock_fiber EXCEPT ![n] = t]
      /\ UNCHANGED <<runner, running, regs, entry_point, fls, cpu, old, new>>
  BY DEF T!Try, T!Goto, T!markVars
<1>2. n \in T!Known /\ n \in T!Heap /\ n \in Fibers /\ (old[t] = NONE \/ Embodies(old[t], t))
  BY <1>1 DEF Locals, T!SwitchPcs, T!Known, T!Heap
<1>3. ~Embodies(n, t)
  BY <1>1, <1>2 DEF LocksOf, T!ConvertPcs
<1>4. T!Heap' = T!Heap /\ T!Known' = T!Known
  <2>1. \A u \in Threads : pc'[u] \in T!ConvertPcs <=> pc[u] \in T!ConvertPcs
    BY <1>1 DEF T!TypeOK, T!ConvertPcs
  <2> QED  BY <1>1, <2>1 DEF T!Heap, T!Known
<1>5. T!TypeOK' /\ Unborn' /\ Entries' /\ Origin' /\ OwnStorage'
  BY <1>1, <1>2, <1>4
     DEF T!TypeOK, Unborn, Entries, Origin, Embodies, T!Converted, OwnStorage, T!Pcs, T!SwitchPcs
<1>6. ASSUME NEW u \in Threads PROVE \A f \in Fibers : Embodies(f, u)' <=> Embodies(f, u)
  BY <1>1, <1>4 DEF Embodies
<1>7. ASSUME NEW u \in Threads PROVE LocksOf(u)'
  BY <1>1, <1>2, <1>6 DEF LocksOf, T!ConvertPcs, T!TypeOK
<1>8. ASSUME NEW u \in Threads PROVE Locals(u)'
  <2>1. CASE u = t
    <3>1. pc'[t] \in {"swap", "oops"} /\ (pc'[t] = "swap" => old[t] # NONE)
      BY <1>1 DEF T!TypeOK
    <3> QED
      BY <1>1, <1>2, <1>3, <1>4, <2>1, <3>1 DEF Locals, Embodies, T!ConvertPcs, T!SwitchPcs
  <2>2. CASE u # t
    <3>1. pc[u] \in T!ConvertPcs => lock_fiber'[new[u]] = lock_fiber[new[u]]
      BY <1>1, <1>2 DEF T!Known, T!TypeOK
    <3> QED  BY <1>1, <1>4, <2>2, <3>1, LocalsStable DEF T!TypeOK
  <2> QED  BY <2>1, <2>2
<1>9. T!MarksTrue'
  BY <1>1, <1>4 DEF T!MarksTrue, T!TypeOK
<1>10. T!NoneLost'
  BY <1>1, <1>2, <1>4 DEF T!NoneLost, T!TypeOK
<1> QED
  BY <1>5, <1>7, <1>8, <1>9, <1>10

\* The flag of the fiber left is cleared: by then it may be another thread's,
\* whose lock, not the flag, keeps the others away.
LEMMA ClearRunningInv == ASSUME TryInv, NEW t \in Users, T!ClearRunning(t) PROVE TryInv'
<1> PICK o : o = old[t]  OBVIOUS
<1> USE Names DEF TryInv
<1>1. /\ pc[t] = "clearRunning" /\ t \in Threads /\ pc' = [pc EXCEPT ![t] = "clearRunner"]
      /\ running' = [running EXCEPT ![o] = FALSE]
      /\ UNCHANGED <<runner, regs, entry_point, fls, lock_fiber, cpu, old, new>>
  BY DEF T!ClearRunning, T!Goto, T!markVars
<1>2. o \in T!Heap /\ o \in Fibers
  BY <1>1 DEF Locals, T!Heap
<1>3. T!Heap' = T!Heap /\ T!Known' = T!Known
  <2>1. \A u \in Threads : pc'[u] \in T!ConvertPcs <=> pc[u] \in T!ConvertPcs
    BY <1>1 DEF T!TypeOK, T!ConvertPcs
  <2> QED  BY <1>1, <2>1 DEF T!Heap, T!Known
<1>4. T!TypeOK' /\ Unborn' /\ Entries' /\ Origin' /\ OwnStorage'
  BY <1>1, <1>2, <1>3
     DEF T!TypeOK, Unborn, Entries, Origin, Embodies, T!Converted, OwnStorage, T!Pcs, T!SwitchPcs
<1>5. ASSUME NEW u \in Threads PROVE \A f \in Fibers : Embodies(f, u)' <=> Embodies(f, u)
  BY <1>1, <1>3 DEF Embodies
<1>6. ASSUME NEW u \in Threads PROVE LocksOf(u)'
  BY <1>1, <1>5 DEF LocksOf, T!ConvertPcs, T!TypeOK
<1>7. ASSUME NEW u \in Threads PROVE Locals(u)'
  <2>1. CASE u = t
    BY <1>1, <1>2, <1>3, <2>1 DEF Locals, Embodies, T!ConvertPcs, T!SwitchPcs, T!TypeOK
  <2>2. CASE u # t
    <3>1. pc[u] = "convertMark" => (running'[new[u]] => running[new[u]])
      BY <1>1, <1>2 DEF Locals, T!ConvertPcs, T!Heap, T!TypeOK
    <3> QED  BY <1>1, <1>3, <2>2, <3>1, LocalsStable DEF T!TypeOK
  <2> QED  BY <2>1, <2>2
<1>8. T!MarksTrue'
  BY <1>1, <1>3 DEF T!MarksTrue, T!TypeOK
<1>9. T!NoneLost'
  BY <1>1, <1>2, <1>3 DEF T!NoneLost, T!TypeOK
<1> QED
  BY <1>4, <1>6, <1>7, <1>8, <1>9

\* The mark of the fiber left is erased, whoever set it.
LEMMA ClearRunnerInv == ASSUME TryInv, NEW t \in Users, T!ClearRunner(t) PROVE TryInv'
<1> PICK o : o = old[t]  OBVIOUS
<1> USE Names DEF TryInv
<1>1. /\ pc[t] = "clearRunner" /\ t \in Threads /\ pc' = [pc EXCEPT ![t] = "mark"]
      /\ runner' = [runner EXCEPT ![o] = NONE]
      /\ UNCHANGED <<running, regs, entry_point, fls, lock_fiber, cpu, old, new>>
  BY DEF T!ClearRunner, T!Goto, T!markVars
<1>2. o \in T!Heap /\ o \in Fibers
  BY <1>1 DEF Locals, T!Heap
<1>3. T!Heap' = T!Heap /\ T!Known' = T!Known
  <2>1. \A u \in Threads : pc'[u] \in T!ConvertPcs <=> pc[u] \in T!ConvertPcs
    BY <1>1 DEF T!TypeOK, T!ConvertPcs
  <2> QED  BY <1>1, <2>1 DEF T!Heap, T!Known
<1>4. T!TypeOK' /\ Unborn' /\ Entries' /\ Origin' /\ OwnStorage'
  BY <1>1, <1>2, <1>3
     DEF T!TypeOK, Unborn, Entries, Origin, Embodies, T!Converted, OwnStorage, T!Pcs, T!SwitchPcs
<1>5. ASSUME NEW u \in Threads PROVE \A f \in Fibers : Embodies(f, u)' <=> Embodies(f, u)
  BY <1>1, <1>3 DEF Embodies
<1>6. ASSUME NEW u \in Threads PROVE LocksOf(u)'
  BY <1>1, <1>5 DEF LocksOf, T!ConvertPcs, T!TypeOK
<1>7. ASSUME NEW u \in Threads PROVE Locals(u)'
  <2>1. CASE u = t
    BY <1>1, <1>2, <1>3, <2>1 DEF Locals, Embodies, T!ConvertPcs, T!SwitchPcs, T!TypeOK
  <2>2. CASE u # t
    <3>1. pc[u] = "convertMark" => runner'[new[u]] \in {runner[new[u]], NONE}
      BY <1>1, <1>2 DEF Locals, T!ConvertPcs, T!Heap, T!TypeOK
    <3> QED  BY <1>1, <1>3, <2>2, <3>1, LocalsStable DEF T!TypeOK
  <2> QED  BY <2>1, <2>2
<1>8. T!MarksTrue'
  BY <1>1, <1>2, <1>3 DEF T!MarksTrue, T!TypeOK
<1>9. T!NoneLost'
  BY <1>1, <1>3 DEF T!NoneLost, T!TypeOK
<1> QED
  BY <1>4, <1>6, <1>7, <1>8, <1>9

\* The fiber entered is marked, and the switch returns.
LEMMA MarkInv == ASSUME TryInv, NEW t \in Users, T!Mark(t) PROVE TryInv'
<1> PICK n : n = new[t]  OBVIOUS
<1> USE Names DEF TryInv
<1>1. /\ pc[t] = "mark" /\ t \in Threads /\ pc' = [pc EXCEPT ![t] = "user"]
      /\ running' = [running EXCEPT ![n] = TRUE] /\ runner' = [runner EXCEPT ![n] = t]
      /\ old' = [old EXCEPT ![t] = NONE] /\ new' = [new EXCEPT ![t] = NONE]
      /\ UNCHANGED <<regs, entry_point, fls, lock_fiber, cpu>>
  BY DEF T!Mark, T!Return, T!Goto, T!markVars
<1>2. n \in T!Known /\ n \in T!Heap /\ n \in Fibers /\ Embodies(n, t)
  BY <1>1 DEF Locals, T!Known, T!Heap, T!SwitchPcs
<1>3. T!Heap' = T!Heap /\ T!Known' = T!Known
  <2>1. \A u \in Threads : \A f \in Fibers :
          pc'[u] \in T!ConvertPcs /\ new'[u] = f <=> pc[u] \in T!ConvertPcs /\ new[u] = f
    BY <1>1 DEF T!TypeOK, T!ConvertPcs
  <2> QED  BY <1>1, <2>1 DEF T!Heap, T!Known
<1>4. T!TypeOK' /\ Unborn' /\ Entries' /\ Origin' /\ OwnStorage'
  BY <1>1, <1>2, <1>3
     DEF T!TypeOK, Unborn, Entries, Origin, Embodies, T!Converted, OwnStorage, T!Pcs, T!SwitchPcs
<1>5. ASSUME NEW u \in Threads PROVE \A f \in Fibers : Embodies(f, u)' <=> Embodies(f, u)
  BY <1>1, <1>3 DEF Embodies
<1>6. ASSUME NEW u \in Threads PROVE LocksOf(u)'
  BY <1>1, <1>5 DEF LocksOf, T!ConvertPcs, T!TypeOK
<1>7. ASSUME NEW u \in Threads PROVE Locals(u)'
  <2>1. CASE u = t
    BY <1>1, <2>1 DEF Locals, T!ConvertPcs, T!SwitchPcs, T!TypeOK
  <2>2. CASE u # t
    <3>1. pc[u] \in T!ConvertPcs => new[u] \in T!Heap /\ new[u] # n
      BY <1>2 DEF T!Known, Locals
    <3>2. pc[u] \in T!ConvertPcs =>
            runner'[new[u]] = runner[new[u]] /\ running'[new[u]] = running[new[u]]
      BY <1>1, <3>1 DEF T!Heap, T!TypeOK
    <3> QED  BY <1>1, <1>3, <2>2, <3>2, LocalsStable DEF T!TypeOK, T!ConvertPcs
  <2> QED  BY <2>1, <2>2
<1>8. T!MarksTrue'
  BY <1>1, <1>2, <1>3 DEF T!MarksTrue, T!TypeOK, Embodies
<1>9. T!NoneLost'
  BY <1>1, <1>2, <1>3 DEF T!NoneLost, T!TypeOK, LocksOf, T!ConvertPcs
<1> QED
  BY <1>4, <1>6, <1>7, <1>8, <1>9

\* ConvertThreadToFiber: the fiber is in the table, unmarked and unlocked.
LEMMA ConvertInv ==
  ASSUME TryInv, NEW t \in Users, NEW f \in Fibers, T!fib_convert(t, f) PROVE TryInv'
<1> USE Names DEF TryInv
<1>1. /\ pc[t] = "user" /\ t \in Threads /\ pc' = [pc EXCEPT ![t] = "convertMark"]
      /\ f \notin T!Heap /\ ~T!Converted(t) /\ new' = [new EXCEPT ![t] = f]
      /\ entry_point' = [entry_point EXCEPT ![f] = t] /\ regs' = [regs EXCEPT ![f] = t]
      /\ UNCHANGED <<runner, running, fls, lock_fiber, cpu, old>>
  BY DEF T!fib_convert, T!do_fib_create, T!Goto, T!markVars
<1>2. /\ runner[f] = NONE /\ ~running[f] /\ fls[f] = NONE /\ lock_fiber[f] = NONE
      /\ \A g \in T!Heap : entry_point[g] # t
      /\ t # NONE
  BY <1>1 DEF Unborn, T!Converted
<1>3. cpu[t] = t /\ \A u \in Threads \ {t} : cpu[u] # t
  BY <1>2 DEF Origin, Embodies, T!Converted
<1>4. T!Heap' = T!Heap \cup {f} /\ \A g \in T!Heap : entry_point'[g] = entry_point[g]
  BY <1>1, <1>2 DEF T!Heap, T!TypeOK
<1>5. T!Known' = T!Known
  <2>1. \A g \in T!Known : g # f /\ g \in T!Heap
    BY <1>1 DEF T!Known
  <2>2. \A u \in Threads : pc[u] \in T!ConvertPcs => u # t /\ new'[u] = new[u]
    BY <1>1 DEF T!TypeOK, T!ConvertPcs
  <2>3. \A u \in Threads : pc'[u] \in T!ConvertPcs => u = t \/ pc[u] \in T!ConvertPcs
    BY <1>1 DEF T!TypeOK
  <2>4. pc'[t] \in T!ConvertPcs /\ new'[t] = f
    BY <1>1 DEF T!TypeOK, T!ConvertPcs
  <2>5. \A u \in Threads : pc[u] \in T!ConvertPcs => pc'[u] \in T!ConvertPcs
    BY <1>1, <2>4 DEF T!TypeOK
  <2> QED  BY <1>4, <2>1, <2>2, <2>3, <2>4, <2>5 DEF T!Known
<1>6. T!TypeOK'
  BY <1>1 DEF T!TypeOK, T!Pcs, T!ConvertPcs
<1>7. Unborn' /\ Origin' /\ OwnStorage'
  BY <1>1, <1>2, <1>4 DEF T!TypeOK, Unborn, Origin, Embodies, T!Converted, OwnStorage
<1>8. Entries'
  BY <1>1, <1>2, <1>4 DEF T!TypeOK, Entries
<1>9. ASSUME NEW u \in Threads
      PROVE  \A g \in Fibers : Embodies(g, u)' <=> Embodies(g, u) \/ (g = f /\ u = t)
  BY <1>1, <1>3, <1>4 DEF Embodies, T!TypeOK
<1>10. ASSUME NEW u \in Threads PROVE LocksOf(u)'
  <2>1. CASE u = t
    BY <1>1, <1>2, <1>3, <1>9, <2>1 DEF LocksOf, Embodies, T!ConvertPcs, T!TypeOK
  <2>2. CASE u # t
    BY <1>1, <1>9, <2>2 DEF LocksOf, T!TypeOK
  <2> QED  BY <2>1, <2>2
<1>11. ASSUME NEW u \in Threads PROVE Locals(u)'
  <2>1. CASE u = t
    BY <1>1, <1>2, <1>3, <1>4, <2>1 DEF Locals, T!ConvertPcs, T!SwitchPcs, T!TypeOK
  <2>2. CASE u # t
    BY <1>1, <1>4, <1>5, <2>2, LocalsStable DEF T!TypeOK
  <2> QED  BY <2>1, <2>2
<1>12. T!MarksTrue'
  BY <1>1, <1>2, <1>4 DEF T!MarksTrue, T!TypeOK
<1>13. T!NoneLost'
  BY <1>1, <1>5 DEF T!NoneLost, T!TypeOK
<1> QED
  BY <1>6, <1>7, <1>8, <1>10, <1>11, <1>12, <1>13

\* The converted fiber is marked before it is locked.
LEMMA MarkConvertedInv == ASSUME TryInv, NEW t \in Users, T!MarkConverted(t) PROVE TryInv'
<1> PICK n : n = new[t]  OBVIOUS
<1> USE Names DEF TryInv
<1>1. /\ pc[t] = "convertMark" /\ t \in Threads /\ pc' = [pc EXCEPT ![t] = "convertLock"]
      /\ running' = [running EXCEPT ![n] = TRUE] /\ runner' = [runner EXCEPT ![n] = t]
      /\ UNCHANGED <<regs, entry_point, fls, lock_fiber, cpu, old, new>>
  BY DEF T!MarkConverted, T!Goto, T!markVars
<1>2. /\ n \in T!Heap /\ n \in Fibers /\ entry_point[n] = t /\ cpu[t] = t
      /\ lock_fiber[n] = NONE
  BY <1>1 DEF Locals, T!Heap, T!ConvertPcs
<1>3. T!Heap' = T!Heap /\ T!Known' = T!Known /\ n \notin T!Known
  <2>1. \A u \in Threads : pc'[u] \in T!ConvertPcs <=> pc[u] \in T!ConvertPcs
    BY <1>1 DEF T!TypeOK, T!ConvertPcs
  <2> QED  BY <1>1, <2>1 DEF T!Heap, T!Known, T!ConvertPcs
<1>4. T!TypeOK' /\ Unborn' /\ Entries' /\ Origin' /\ OwnStorage'
  BY <1>1, <1>2, <1>3
     DEF T!TypeOK, Unborn, Entries, Origin, Embodies, T!Converted, OwnStorage, T!Pcs, T!ConvertPcs
<1>5. ASSUME NEW u \in Threads PROVE \A f \in Fibers : Embodies(f, u)' <=> Embodies(f, u)
  BY <1>1, <1>3 DEF Embodies
<1>6. ASSUME NEW u \in Threads PROVE LocksOf(u)'
  BY <1>1, <1>5 DEF LocksOf, T!ConvertPcs, T!TypeOK
<1>7. ASSUME NEW u \in Threads PROVE Locals(u)'
  <2>1. CASE u = t
    BY <1>1, <1>2, <1>3, <2>1 DEF Locals, T!ConvertPcs, T!SwitchPcs, T!TypeOK
  <2>2. CASE u # t
    <3>1. pc[u] \in T!ConvertPcs => new[u] \in T!Heap /\ new[u] # n
      BY <1>2, <2>2 DEF Locals
    <3>2. pc[u] \in T!ConvertPcs =>
            runner'[new[u]] = runner[new[u]] /\ running'[new[u]] = running[new[u]]
      BY <1>1, <3>1 DEF T!Heap, T!TypeOK
    <3> QED  BY <1>1, <1>3, <2>2, <3>2, LocalsStable DEF T!TypeOK, T!ConvertPcs
  <2> QED  BY <2>1, <2>2
<1>8. T!MarksTrue'
  BY <1>1, <1>2, <1>3 DEF T!MarksTrue, T!TypeOK
<1>9. T!NoneLost'
  BY <1>1, <1>3 DEF T!NoneLost, T!TypeOK, T!Known
<1> QED
  BY <1>4, <1>6, <1>7, <1>8, <1>9

\* The converted fiber is locked, and its id handed out.
LEMMA LockConvertedInv == ASSUME TryInv, NEW t \in Users, T!LockConverted(t) PROVE TryInv'
<1> PICK n : n = new[t]  OBVIOUS
<1> USE Names DEF TryInv
<1>1. /\ pc[t] = "convertLock" /\ t \in Threads /\ pc' = [pc EXCEPT ![t] = "user"]
      /\ lock_fiber' = [lock_fiber EXCEPT ![n] = t] /\ new' = [new EXCEPT ![t] = NONE]
      /\ UNCHANGED <<runner, running, regs, entry_point, fls, cpu, old>>
  BY DEF T!LockConverted, T!Goto, T!markVars
<1>2. /\ n \in T!Heap /\ n \in Fibers /\ entry_point[n] = t /\ cpu[t] = t
      /\ lock_fiber[n] = NONE /\ Embodies(n, t)
  BY <1>1 DEF Locals, T!Heap, T!ConvertPcs, Embodies
<1>3. \A u \in Threads \ {t} : pc[u] \in T!ConvertPcs => new[u] # n
  BY <1>2 DEF Locals
<1>4. T!Heap' = T!Heap /\ T!Known' = T!Known \cup {n}
  <2>1. \A u \in Threads : \A f \in Fibers :
          pc'[u] \in T!ConvertPcs /\ new'[u] = f
            <=> u # t /\ pc[u] \in T!ConvertPcs /\ new[u] = f
    BY <1>1 DEF T!TypeOK, T!ConvertPcs
  <2>2. pc[t] \in T!ConvertPcs
    BY <1>1 DEF T!ConvertPcs
  <2> QED  BY <1>1, <1>2, <1>3, <2>1, <2>2 DEF T!Heap, T!Known
<1>5. T!TypeOK' /\ Unborn' /\ Entries' /\ Origin' /\ OwnStorage'
  BY <1>1, <1>2, <1>4 DEF T!TypeOK, Unborn, Entries, Origin, Embodies, T!Converted, OwnStorage, T!Pcs
<1>6. ASSUME NEW u \in Threads PROVE \A f \in Fibers : Embodies(f, u)' <=> Embodies(f, u)
  BY <1>1, <1>4 DEF Embodies
<1>7. ASSUME NEW u \in Threads PROVE LocksOf(u)'
  <2>1. CASE u = t
    <3>1. \A f \in Fibers : Embodies(f, t) => f = n
      BY <1>2 DEF Embodies, Entries
    <3> QED  BY <1>1, <1>2, <1>6, <2>1, <3>1 DEF LocksOf, T!ConvertPcs, T!TypeOK
  <2>2. CASE u # t
    BY <1>1, <1>2, <1>6, <2>2 DEF LocksOf, T!TypeOK
  <2> QED  BY <2>1, <2>2
<1>8. ASSUME NEW u \in Threads PROVE Locals(u)'
  <2>1. CASE u = t
    BY <1>1, <2>1 DEF Locals, T!ConvertPcs, T!SwitchPcs, T!TypeOK
  <2>2. CASE u # t
    BY <1>1, <1>3, <1>4, <2>2, LocalsStable DEF T!TypeOK
  <2> QED  BY <2>1, <2>2
<1>9. T!MarksTrue'
  BY <1>1, <1>2, <1>4 DEF T!MarksTrue, T!TypeOK
<1>10. T!NoneLost'
  BY <1>1, <1>2, <1>4 DEF T!NoneLost, T!TypeOK
<1> QED
  BY <1>5, <1>7, <1>8, <1>9, <1>10

\* CreateFiber: the new fiber stands for a flow no thread executes.
LEMMA CreateInv ==
  ASSUME TryInv, NEW t \in Users, NEW f \in Fibers, T!fib_create(t, f) PROVE TryInv'
<1> USE Names DEF TryInv
<1>1. /\ f \notin T!Heap
      /\ entry_point' = [entry_point EXCEPT ![f] = f] /\ regs' = [regs EXCEPT ![f] = f]
      /\ UNCHANGED <<runner, running, fls, lock_fiber, cpu, pc, old, new>>
  BY DEF T!fib_create, T!do_fib_create, T!markVars
<1>2. runner[f] = NONE /\ ~running[f] /\ fls[f] = NONE /\ lock_fiber[f] = NONE
  BY <1>1 DEF Unborn
<1>3. \A u \in Threads : cpu[u] # f
  BY <1>1 DEF Origin, Entries, Embodies
<1>4. T!Heap' = T!Heap \cup {f} /\ \A g \in T!Heap : entry_point'[g] = entry_point[g]
  BY <1>1 DEF T!Heap, T!TypeOK
<1>5. T!Known' = T!Known \cup {f}
  <2>1. \A u \in Threads : ~(pc[u] \in T!ConvertPcs /\ new[u] = f)
    BY <1>1 DEF Locals
  <2> QED  BY <1>1, <1>4, <2>1 DEF T!Known
<1>6. T!TypeOK'
  BY <1>1 DEF T!TypeOK
<1>7. Unborn' /\ Origin' /\ OwnStorage'
  BY <1>1, <1>2, <1>4 DEF T!TypeOK, Unborn, Origin, Embodies, T!Converted, OwnStorage
<1>8. Entries'
  BY <1>1, <1>2, <1>4 DEF T!TypeOK, Entries
<1>9. ASSUME NEW u \in Threads
      PROVE  \A g \in Fibers : Embodies(g, u)' <=> Embodies(g, u)
  BY <1>1, <1>3, <1>4 DEF Embodies, T!TypeOK
<1>10. ASSUME NEW u \in Threads PROVE LocksOf(u)'
  BY <1>1, <1>9 DEF LocksOf
<1>11. ASSUME NEW u \in Threads PROVE Locals(u)'
  BY <1>1, <1>4, <1>5, LocalsStable
<1>12. T!MarksTrue'
  BY <1>1, <1>2, <1>4 DEF T!MarksTrue, T!TypeOK
<1>13. T!NoneLost'
  BY <1>1, <1>2, <1>5 DEF T!NoneLost, T!TypeOK
<1> QED
  BY <1>6, <1>7, <1>8, <1>10, <1>11, <1>12, <1>13

\* The FLS calls reach the storage of the caller's own fiber.
LEMMA TryFlsInv ==
  ASSUME TryInv, NEW t \in Users, NEW f \in Fibers,
         T!flsAlloc(t, f) \/ T!flsFree(t, f) \/ T!flsSetValue(t, f)
  PROVE  TryInv'
<1> USE Names DEF TryInv
<1>1. /\ pc[t] = "user" /\ t \in Threads /\ f \in T!Heap /\ f = T!MarkedWith(t)
      /\ fls' = [fls EXCEPT ![f] = fls'[f]] /\ fls'[f] \in {NONE, cpu[t]}
      /\ UNCHANGED <<runner, running, regs, entry_point, lock_fiber, cpu, pc, old, new>>
  BY DEF T!flsAlloc, T!flsFree, T!flsSetValue, T!Owns, T!markVars, T!TypeOK
<1>2. entry_point[f] = cpu[t]
  <2>1. runner[f] = t
    BY <1>1 DEF T!MarkedWith, T!Heap
  <2> QED  BY <1>1, <2>1 DEF T!MarksTrue
<1>3. T!Heap' = T!Heap /\ T!Known' = T!Known
  BY <1>1 DEF T!Heap, T!Known
<1>4. T!TypeOK' /\ Unborn' /\ Entries' /\ Origin' /\ OwnStorage'
  BY <1>1, <1>2, <1>3 DEF T!TypeOK, Unborn, Entries, Origin, Embodies, T!Converted, OwnStorage
<1>5. ASSUME NEW u \in Threads PROVE LocksOf(u)' /\ Locals(u)'
  BY <1>1, <1>3, LocalsStable DEF LocksOf, Embodies
<1>6. T!MarksTrue' /\ T!NoneLost'
  BY <1>1, <1>3 DEF T!MarksTrue, T!NoneLost
<1> QED
  BY <1>4, <1>5, <1>6

\* Every step of the handlers keeps the invariant.
LEMMA TryNext == ASSUME TryInv, T!Next PROVE TryInv'
BY SwapInv, TestInv, LookupInv, TryLockInv, ClearRunningInv, ClearRunnerInv, MarkInv,
   ConvertInv, MarkConvertedInv, LockConvertedInv, CreateInv, TryFlsInv DEF T!Next
-----------------------------------------------------------------------------
(* The version with one lock on the list of processes.                     *)

\* A process is in the list while its file is open, once.
Opened ==
  /\ \A p \in Processes : file[p] = "open" <=> L!Listed(p)
  /\ \A i, j \in 1..Len(Lista_Processi) : Lista_Processi[i] = Lista_Processi[j] => i = j

\* A call keeps the file of its process open, and the entry it starts from,
\* while that is in the list, comes before its own.
Started(t) ==
  pc[t] = "ioctl" =>
    /\ file[Process[t]] = "open"
    /\ iter[t] \in Processes /\ file[iter[t]] # "unopened"
    /\ \A i, j \in 1..Len(Lista_Processi) :
         Lista_Processi[i] = iter[t] /\ Lista_Processi[j] = Process[t] => i <= j

\* Memory that kmalloc has not returned yet is as it was.
Unused == \A f \in Fibers \ L!Heap : runner[f] = NONE /\ ~running[f] /\ fls[f] = NONE

\* A fiber stands for one flow, a flow has one fiber, and a fiber that is not
\* marked keeps its own flow.
Stands ==
  /\ \A f \in L!Heap : entry_point[f] \in Threads \cup {f}
  /\ \A f, g \in L!Heap : entry_point[f] = entry_point[g] => f = g
  /\ \A f \in L!Heap : runner[f] = NONE => regs[f] = entry_point[f]

\* The list of fibers of process p holds f.
On(p, f) == \E i \in 1..Len(lista_fiber[p]) : lista_fiber[p][i] = f

\* The mark of a thread is on the fiber whose flow it executes, and on the
\* list its handlers walk.
Marked ==
  \A f \in Fibers, t \in Threads : runner[f] = t =>
    /\ f \in L!Heap /\ running[f] /\ entry_point[f] = cpu[t]
    /\ On(Process[t], f)

\* A fiber whose flow is executed is marked with the thread, or died with it.
Executed ==
  \A f \in L!Heap, t \in Threads : entry_point[f] = cpu[t] =>
    running[f] /\ (runner[f] = t \/ (runner[f] = NONE /\ pc[t] = "dead"))

\* No flow is executed twice; a thread executes its own until it is converted.
Flows ==
  /\ \A t, u \in Threads : cpu[t] = cpu[u] => t = u
  /\ \A t \in Threads : IF \E f \in L!Heap : entry_point[f] = t
                          THEN \E f \in L!Heap : entry_point[f] = cpu[t]
                          ELSE cpu[t] = t

\* The lists of fibers hold fibers.
Lists == \A p \in Processes, f \in Fibers : On(p, f) => f \in L!Heap

ListInv ==
  /\ L!TypeOK /\ Opened /\ (\A t \in Threads : Started(t))
  /\ Unused /\ Stands /\ Marked /\ Executed /\ Flows /\ Lists /\ OwnStorage

\* A set of positions has a first one.
LEMMA Least ==
  ASSUME NEW n \in Nat, NEW I, I \subseteq 1..n, I # {}
  PROVE  \E m \in I : \A k \in I : m =< k
<1> DEFINE T_ == {1..m : m \in I}
           R_ == StrictSubsetOrdering(1..n)
<1>1. IsWellFoundedOn(R_, FiniteSubsetsOf(1..n))
  BY FS_StrictSubsetOrderingWellFounded
<1>2. T_ \subseteq FiniteSubsetsOf(1..n) /\ T_ # {}
  <2>1. ASSUME NEW m \in I PROVE 1..m \in FiniteSubsetsOf(1..n)
    <3>1. m \in Int /\ m <= n
      OBVIOUS
    <3> QED  BY <3>1, FS_Interval DEF FiniteSubsetsOf
  <2> QED  BY <2>1
<1>3. PICK x \in T_ : \A y \in T_ : ~(<<y, x>> \in R_)
  <2> HIDE DEF T_, R_
  <2> QED  BY <1>1, <1>2, WFMin
<1>4. PICK m \in I : x = 1..m
  OBVIOUS
<1>5. ASSUME NEW k \in I, k < m PROVE FALSE
  <2>1. 1..k \in T_ /\ 1..k \in SUBSET (1..n) /\ 1..m \in SUBSET (1..n)
    OBVIOUS
  <2>2. 1..k \subseteq 1..m /\ 1..k # 1..m
    <3>1. m \in 1..m /\ m \notin 1..k
      BY <1>5
    <3> QED  BY <1>5, <3>1
  <2> QED  BY <1>3, <1>4, <2>1, <2>2 DEF StrictSubsetOrdering
<1> QED  BY <1>5

\* What the walk over a process's list of fibers finds.
LEMMA CurrentIs ==
  ASSUME NEW t \in Threads, lista_fiber[Process[t]] \in Seq(Fibers)
  PROVE  /\ ~L!IsFiber(t) => \A f : On(Process[t], f) => runner[f] # t
         /\ L!IsFiber(t) => runner[L!Old(t)] = t /\ L!Old(t) \in Fibers
<1> DEFINE s == lista_fiber[Process[t]]
           I == {i \in 1..Len(s) : runner[s[i]] = t}
<1>1. L!Current(t) = IF I # {} THEN L!Min(I) ELSE 0
  BY DEF L!Current, L!SelectInSeq
<1>2. I # {} => L!Min(I) \in I
  <2> SUFFICES ASSUME I # {} PROVE L!Min(I) \in I
    OBVIOUS
  <2>1. \E m \in I : \A k \in I : m =< k
    <3>1. Len(s) \in Nat /\ I \subseteq 1..Len(s)
      OBVIOUS
    <3> HIDE DEF I
    <3> QED  BY <3>1, Least
  <2> QED  BY <2>1 DEF L!Min
<1>3. CASE I = {}
  BY <1>1, <1>3 DEF L!IsFiber, On
<1>4. CASE I # {}
  <2>1. L!Current(t) \in I
    BY <1>1, <1>2, <1>4
  <2> QED  BY <2>1 DEF L!IsFiber, L!Old
<1> QED  BY <1>3, <1>4

\* What the walk over the list of processes finds.
LEMMA RestIs ==
  ASSUME Lista_Processi \in Seq(Processes), NEW p
  PROVE  IF L!Listed(p)
           THEN /\ L!Rest(p) \in 1..Len(Lista_Processi) /\ Lista_Processi[L!Rest(p)] = p
                /\ \A i \in 1..Len(Lista_Processi) : Lista_Processi[i] = p => L!Rest(p) <= i
           ELSE L!Rest(p) = 0
<1> DEFINE I == {i \in 1..Len(Lista_Processi) : Lista_Processi[i] = p}
<1>1. L!Rest(p) = IF I # {} THEN L!Min(I) ELSE 0
  BY DEF L!Rest, L!SelectInSeq
<1>2. I # {} => L!Min(I) \in I /\ \A k \in I : L!Min(I) <= k
  <2> SUFFICES ASSUME I # {} PROVE L!Min(I) \in I /\ \A k \in I : L!Min(I) <= k
    OBVIOUS
  <2>1. \E m \in I : \A k \in I : m =< k
    <3>1. Len(Lista_Processi) \in Nat /\ I \subseteq 1..Len(Lista_Processi)
      OBVIOUS
    <3> HIDE DEF I
    <3> QED  BY <3>1, Least
  <2> QED  BY <2>1 DEF L!Min
<1>3. L!Listed(p) <=> I # {}
  BY DEF L!Listed, L!Contains
<1>4. CASE I = {}
  BY <1>1, <1>3, <1>4
<1>5. CASE I # {}
  <2>1. L!Rest(p) \in I /\ \A k \in I : L!Rest(p) <= k
    BY <1>1, <1>2, <1>5
  <2> QED  BY <1>3, <1>5, <2>1
<1> QED  BY <1>4, <1>5

\* A sequence without its r-th element, position by position.
LEMMA Joined ==
  ASSUME NEW s, NEW a, NEW b, NEW c, NEW n \in Nat, NEW r \in 1..n,
         \A i \in 1..(r - 1) : a[i] = s[i], \A i \in 1..(n - r) : b[i] = s[r + i],
         \A i \in 1..(n - 1) : c[i] = IF i <= r - 1 THEN a[i] ELSE b[i - (r - 1)]
  PROVE  \A i \in 1..(n - 1) : c[i] = IF i < r THEN s[i] ELSE s[i + 1]
<1> SUFFICES ASSUME NEW i \in 1..(n - 1) PROVE c[i] = IF i < r THEN s[i] ELSE s[i + 1]
  OBVIOUS
<1>1. CASE i < r
  BY <1>1
<1>2. CASE ~(i < r)
  <2>1. i - (r - 1) \in 1..(n - r) /\ r + (i - (r - 1)) = i + 1 /\ ~(i <= r - 1)
    BY <1>2
  <2>2. c[i] = b[i - (r - 1)] /\ b[i - (r - 1)] = s[r + (i - (r - 1))]
    BY <2>1
  <2> QED  BY <1>2, <2>1, <2>2
<1> QED  BY <1>1, <1>2

\* What unlinking an element leaves.
LEMMA RemovedAt ==
  ASSUME NEW S, NEW s \in Seq(S), NEW r \in 1..Len(s)
  PROVE  /\ L!RemoveAt(s, r) \in Seq(S) /\ Len(L!RemoveAt(s, r)) = Len(s) - 1
         /\ \A i \in 1..(Len(s) - 1) :
              L!RemoveAt(s, r)[i] = IF i < r THEN s[i] ELSE s[i + 1]
<1>1. L!RemoveAt(s, r) = SubSeq(s, 1, r - 1) \o SubSeq(s, r + 1, Len(s))
  BY DEF L!RemoveAt
<1>2. /\ SubSeq(s, 1, r - 1) \in Seq(S) /\ Len(SubSeq(s, 1, r - 1)) = r - 1
      /\ \A i \in 1..(r - 1) : SubSeq(s, 1, r - 1)[i] = s[i]
  OBVIOUS
<1>3. /\ SubSeq(s, r + 1, Len(s)) \in Seq(S) /\ Len(SubSeq(s, r + 1, Len(s))) = Len(s) - r
      /\ \A i \in 1..(Len(s) - r) : SubSeq(s, r + 1, Len(s))[i] = s[r + i]
  OBVIOUS
<1> PICK a \in Seq(S) : a = SubSeq(s, 1, r - 1)
  BY <1>2
<1> PICK b \in Seq(S) : b = SubSeq(s, r + 1, Len(s))
  BY <1>3
<1>4. /\ L!RemoveAt(s, r) = a \o b
      /\ Len(s) \in Nat /\ Len(a) = r - 1 /\ Len(b) = Len(s) - r
  BY <1>1, <1>2, <1>3
<1>5. /\ a \o b \in Seq(S) /\ Len(a \o b) = Len(a) + Len(b)
      /\ \A i \in 1..(Len(a) + Len(b)) :
           (a \o b)[i] = IF i <= Len(a) THEN a[i] ELSE b[i - Len(a)]
  BY ConcatProperties
<1> PICK c : c = a \o b  OBVIOUS
<1> PICK n \in Nat : n = Len(s)  BY <1>4
<1>6. /\ c \in Seq(S) /\ Len(c) = n - 1
      /\ \A i \in 1..(n - 1) : c[i] = IF i <= r - 1 THEN a[i] ELSE b[i - (r - 1)]
  <2>1. (r - 1) + (n - r) = n - 1
    OBVIOUS
  <2> QED  BY <1>4, <1>5, <2>1
<1>7. /\ r \in 1..n /\ \A i \in 1..(r - 1) : a[i] = s[i]
      /\ \A i \in 1..(n - r) : b[i] = s[r + i]
      /\ \A i \in 1..(n - 1) : c[i] = IF i <= r - 1 THEN a[i] ELSE b[i - (r - 1)]
  BY <1>2, <1>3, <1>6
<1>8. \A i \in 1..(n - 1) : c[i] = IF i < r THEN s[i] ELSE s[i + 1]
  BY ONLY <1>7, Joined, n \in Nat
<1>9. c \in Seq(S) /\ Len(c) = n - 1 /\ c = L!RemoveAt(s, r) /\ n = Len(s)
  BY <1>4, <1>6
<1> QED  BY <1>8, <1>9, Zenon

\* Steps that leave the lists alone, and start no call.
LEMMA ProcFrame ==
  ASSUME Opened, \A t \in Threads : Started(t), UNCHANGED <<Lista_Processi, file>>,
         \A t \in Threads : pc'[t] = "ioctl" => pc[t] = "ioctl" /\ iter'[t] = iter[t]
  PROVE  Opened' /\ \A t \in Threads : Started(t)'
BY DEF Opened, Started, L!Listed, L!Contains

\* Steps that leave the fibers alone, and raise no thread from the dead.
LEMMA FiberFrame ==
  ASSUME Unused /\ Stands /\ Marked /\ Executed /\ Flows /\ Lists /\ OwnStorage,
         UNCHANGED <<runner, running, regs, entry_point, fls, cpu, lista_fiber>>,
         \A t \in Threads : pc[t] = "dead" => pc'[t] = "dead"
  PROVE  (Unused /\ Stands /\ Marked /\ Executed /\ Flows /\ Lists /\ OwnStorage)'
<1>1. L!Heap' = L!Heap
  BY DEF L!Heap
<1> QED  BY <1>1 DEF Unused, Stands, Marked, Executed, Flows, Lists, On, OwnStorage

\* open and release of the device.
LEMMA DeviceInv ==
  ASSUME ListInv, NEW p \in Processes, L!fib_open(p) \/ L!fib_release(p) PROVE ListInv'
<1> USE Names DEF ListInv
<1>1. UNCHANGED <<lista_fiber, len_fiber_stuff, lock_lista_processi, runner, running, regs,
                  entry_point, fls, cpu, pc, iter>>
  BY DEF L!fib_open, L!fib_release, L!fiberVars
<1>2. (Unused /\ Stands /\ Marked /\ Executed /\ Flows /\ Lists /\ OwnStorage)'
  BY <1>1, FiberFrame
<1>3. Lista_Processi \in Seq(Processes) /\ file \in [Processes -> {"unopened", "open", "closed"}]
  BY DEF L!TypeOK
<1>4. CASE L!fib_open(p)
  <2>1. /\ file[p] = "unopened" /\ file' = [file EXCEPT ![p] = "open"]
        /\ Lista_Processi' = <<p>> \o Lista_Processi
    BY <1>4 DEF L!fib_open
  <2>2. /\ Lista_Processi' \in Seq(Processes) /\ Len(Lista_Processi') = Len(Lista_Processi) + 1
        /\ Lista_Processi'[1] = p
        /\ \A i \in 1..Len(Lista_Processi) : Lista_Processi'[i + 1] = Lista_Processi[i]
    BY <1>3, <2>1
  <2>3. \A i \in 1..Len(Lista_Processi') :
          i # 1 => i - 1 \in 1..Len(Lista_Processi) /\ Lista_Processi'[i] = Lista_Processi[i - 1]
    BY <1>3, <2>2
  <2>4. \A i \in 1..Len(Lista_Processi) : Lista_Processi[i] # p
    BY <2>1 DEF Opened, L!Listed, L!Contains
  <2>5. \A q \in Processes : L!Listed(q)' <=> q = p \/ L!Listed(q)
    <3> SUFFICES ASSUME NEW q \in Processes PROVE L!Listed(q)' <=> q = p \/ L!Listed(q)
      OBVIOUS
    <3>1. L!Listed(q)' => q = p \/ L!Listed(q)
      BY <2>2, <2>3 DEF L!Listed, L!Contains
    <3>2. 1 \in 1..Len(Lista_Processi') /\ \A i \in 1..Len(Lista_Processi) : i + 1 \in 1..Len(Lista_Processi')
      BY <1>3, <2>2
    <3>3. q = p \/ L!Listed(q) => L!Listed(q)'
      BY <2>2, <3>2 DEF L!Listed, L!Contains
    <3> QED  BY <3>1, <3>3
  <2>6. Opened'
    <3>1. \A i, j \in 1..Len(Lista_Processi') : Lista_Processi'[i] = Lista_Processi'[j] => i = j
      <4> SUFFICES ASSUME NEW i \in 1..Len(Lista_Processi'), NEW j \in 1..Len(Lista_Processi'),
                          Lista_Processi'[i] = Lista_Processi'[j]
                   PROVE  i = j
        OBVIOUS
      <4>1. CASE i = 1 \/ j = 1
        BY <2>2, <2>3, <2>4, <4>1
      <4>2. CASE i # 1 /\ j # 1
        <5>1. i - 1 = j - 1
          BY <2>3, <4>2 DEF Opened
        <5> QED  BY <2>2, <5>1
      <4> QED  BY <4>1, <4>2
    <3> QED  BY <1>3, <2>1, <2>5, <3>1 DEF Opened
  <2>7. ASSUME NEW t \in Threads PROVE Started(t)'
    <3> SUFFICES ASSUME pc[t] = "ioctl" PROVE Started(t)'
      BY <1>1 DEF Started
    <3>1. file[Process[t]] = "open" /\ iter[t] \in Processes /\ file[iter[t]] # "unopened"
      BY DEF Started
    <3>2. Process[t] # p /\ iter[t] # p
      BY <2>1, <3>1
    <3>3. ASSUME NEW i \in 1..Len(Lista_Processi'), NEW j \in 1..Len(Lista_Processi'),
                 Lista_Processi'[i] = iter[t], Lista_Processi'[j] = Process[t]
          PROVE  i <= j
      <4>1. i # 1 /\ j # 1
        BY <2>2, <3>2, <3>3
      <4>2. i - 1 <= j - 1
        BY <2>3, <3>3, <4>1 DEF Started
      <4> QED  BY <4>2
    <3> QED  BY <1>1, <1>3, <2>1, <3>1, <3>2, <3>3 DEF Started
  <2>8. L!TypeOK'
    BY <1>1, <2>1, <2>2 DEF L!TypeOK
  <2> QED  BY <1>2, <2>6, <2>7, <2>8
<1>5. CASE L!fib_release(p)
  <2> PICK r : r = L!Rest(p)  OBVIOUS
  <2>1. /\ file[p] = "open" /\ file' = [file EXCEPT ![p] = "closed"]
        /\ Lista_Processi' = L!RemoveAt(Lista_Processi, r)
        /\ \A t \in Threads : Process[t] = p => pc[t] # "ioctl"
    BY <1>5 DEF L!fib_release, L!LastReference, L!InUse, L!Team, L!Target
  <2>2. r \in 1..Len(Lista_Processi) /\ Lista_Processi[r] = p
    BY <1>3, <2>1, RestIs DEF Opened
  <2>3. /\ Lista_Processi' \in Seq(Processes) /\ Len(Lista_Processi') = Len(Lista_Processi) - 1
        /\ \A i \in 1..(Len(Lista_Processi) - 1) :
             Lista_Processi'[i] = IF i < r THEN Lista_Processi[i] ELSE Lista_Processi[i + 1]
    <3>1. /\ L!RemoveAt(Lista_Processi, r) \in Seq(Processes)
          /\ Len(L!RemoveAt(Lista_Processi, r)) = Len(Lista_Processi) - 1
          /\ \A i \in 1..(Len(Lista_Processi) - 1) :
               L!RemoveAt(Lista_Processi, r)[i] = IF i < r THEN Lista_Processi[i]
                                                  ELSE Lista_Processi[i + 1]
      BY <1>3, <2>2, RemovedAt
    <3> QED  BY <2>1, <3>1, Zenon
  <2> DEFINE from(i) == IF i < r THEN i ELSE i + 1
  <2>4. \A i \in 1..Len(Lista_Processi') :
          /\ from(i) \in 1..Len(Lista_Processi) /\ from(i) # r
          /\ Lista_Processi'[i] = Lista_Processi[from(i)]
    BY <1>3, <2>2, <2>3
  <2>5. \A i, j \in 1..Len(Lista_Processi') : (from(i) = from(j) => i = j) /\ (from(i) <= from(j) => i <= j)
    BY <1>3, <2>2, <2>3
  <2>6. \A k \in 1..Len(Lista_Processi) : k # r => \E i \in 1..Len(Lista_Processi') : from(i) = k
    <3> SUFFICES ASSUME NEW k \in 1..Len(Lista_Processi), k # r
                 PROVE  \E i \in 1..Len(Lista_Processi') : from(i) = k
      OBVIOUS
    <3>1. CASE k < r
      BY <1>3, <2>2, <2>3, <3>1
    <3>2. CASE k > r
      <4>1. k - 1 \in 1..Len(Lista_Processi') /\ from(k - 1) = k
        BY <1>3, <2>2, <2>3, <3>2
      <4> QED  BY <4>1
    <3> QED  BY <1>3, <2>2, <3>1, <3>2
  <2> HIDE DEF from
  <2>7. \A q \in Processes : L!Listed(q)' <=> q # p /\ L!Listed(q)
    <3> SUFFICES ASSUME NEW q \in Processes PROVE L!Listed(q)' <=> q # p /\ L!Listed(q)
      OBVIOUS
    <3>1. L!Listed(q)' => q # p /\ L!Listed(q)
      BY <2>2, <2>4 DEF Opened, L!Listed, L!Contains
    <3>2. ASSUME q # p, L!Listed(q) PROVE L!Listed(q)'
      <4>1. PICK k \in 1..Len(Lista_Processi) : Lista_Processi[k] = q
        BY <3>2 DEF L!Listed, L!Contains
      <4>2. PICK i \in 1..Len(Lista_Processi') : from(i) = k
        BY <2>2, <2>6, <3>2, <4>1
      <4> QED  BY <2>4, <4>1, <4>2 DEF L!Listed, L!Contains
    <3> QED  BY <3>1, <3>2
  <2>8. Opened'
    <3>1. \A i, j \in 1..Len(Lista_Processi') : Lista_Processi'[i] = Lista_Processi'[j] => i = j
      BY <2>4, <2>5 DEF Opened
    <3>2. \A q \in Processes : file'[q] = "open" <=> L!Listed(q)'
      BY <1>3, <2>1, <2>7 DEF Opened
    <3> QED  BY <3>1, <3>2 DEF Opened
  <2>9. ASSUME NEW t \in Threads PROVE Started(t)'
    <3> SUFFICES ASSUME pc[t] = "ioctl" PROVE Started(t)'
      BY <1>1 DEF Started
    <3>1. file[Process[t]] = "open" /\ iter[t] \in Processes /\ file[iter[t]] # "unopened"
      BY DEF Started
    <3>2. Process[t] # p
      BY <2>1
    <3>3. ASSUME NEW i \in 1..Len(Lista_Processi'), NEW j \in 1..Len(Lista_Processi'),
                 Lista_Processi'[i] = iter[t], Lista_Processi'[j] = Process[t]
          PROVE  i <= j
      BY <2>4, <2>5, <3>3 DEF Started
    <3> QED  BY <1>1, <1>3, <2>1, <3>1, <3>2, <3>3 DEF Started
  <2>10. L!TypeOK'
    BY <1>1, <2>1, <2>3 DEF L!TypeOK
  <2> QED  BY <1>2, <2>8, <2>9, <2>10
<1> QED  BY <1>4, <1>5

\* A call keeps the open file, and starts from the head of the list.
LEMMA CallInv == ASSUME ListInv, NEW t \in Threads, L!Call(t) PROVE ListInv'
<1> USE Names DEF ListInv
<1>1. /\ pc[t] = "user" /\ pc' = [pc EXCEPT ![t] = "ioctl"] /\ file[Process[t]] = "open"
      /\ iter' = [iter EXCEPT ![t] = L!HeadEntry]
      /\ UNCHANGED <<Lista_Processi, file, lista_fiber, len_fiber_stuff, lock_lista_processi,
                     runner, running, regs, entry_point, fls, cpu>>
  BY DEF L!Call, L!Goto, L!procVars, L!fiberVars
<1>2. Lista_Processi \in Seq(Processes)
  BY DEF L!TypeOK
<1>3. PICK k \in 1..Len(Lista_Processi) : Lista_Processi[k] = Process[t]
  BY <1>1 DEF Opened, L!Listed, L!Contains
<1>4. /\ 1 \in 1..Len(Lista_Processi) /\ L!HeadEntry = Lista_Processi[1]
      /\ L!HeadEntry \in Processes
  BY <1>2, <1>3 DEF L!HeadEntry
<1>5. L!TypeOK'
  BY <1>1, <1>4 DEF L!TypeOK, L!Pcs
<1>6. (Unused /\ Stands /\ Marked /\ Executed /\ Flows /\ Lists /\ OwnStorage)'
  BY <1>1, FiberFrame DEF L!TypeOK
<1>7. ASSUME NEW u \in Threads PROVE Started(u)'
  <2>1. CASE u = t
    <3>1. iter'[t] = Lista_Processi[1]
      BY <1>1, <1>4 DEF L!TypeOK
    <3>2. file[Lista_Processi[1]] = "open"
      BY <1>4 DEF Opened, L!Listed, L!Contains
    <3>3. \A i, j \in 1..Len(Lista_Processi) :
            Lista_Processi[i] = Lista_Processi[1] /\ Lista_Processi[j] = Process[t] => i <= j
      BY <1>2, <1>4 DEF Opened
    <3> QED  BY <1>1, <1>4, <2>1, <3>1, <3>2, <3>3 DEF Started
  <2>2. CASE u # t
    BY <1>1, <2>2 DEF Started, L!TypeOK
  <2> QED  BY <2>1, <2>2
<1> QED  BY <1>1, <1>5, <1>6, <1>7 DEF Opened, L!Listed, L!Contains

\* The steps of a walk, of a read and of an exit, calls that only answer, and
\* walks that go astray: no list and no fiber changes.
LEMMA WalkInv ==
  ASSUME ListInv, NEW t \in Threads,
         \/ L!Stray(t) \/ L!Answered(t) \/ L!StartRead(t) \/ L!myread(t) \/ L!UseNames(t)
         \/ L!StartExit(t) \/ L!WalkExit(t) \/ L!ExitPlain(t)
         \/ (\E f \in Fibers : L!flsGetOutOfRange(t, f))
         \/ (\E p \in Processes : L!TakeNames(t, p))
  PROVE  ListInv'
<1> USE Names DEF ListInv
<1>1. UNCHANGED <<Lista_Processi, file, lista_fiber, len_fiber_stuff, runner, running, regs,
                  entry_point, fls, cpu>>
  BY DEF L!Stray, L!Answered, L!StartRead, L!myread, L!UseNames, L!StartExit, L!WalkExit,
     L!ExitPlain, L!flsGetOutOfRange, L!TakeNames, L!Die, L!procVars, L!fiberVars
<1>2. lock_lista_processi' \in Threads \cup {NONE}
  BY DEF L!Stray, L!Answered, L!StartRead, L!myread, L!UseNames, L!StartExit, L!WalkExit,
     L!ExitPlain, L!flsGetOutOfRange, L!TakeNames, L!Die, L!TypeOK
<1>3. pc[t] # "dead" /\ \E l \in L!Pcs \ {"ioctl"} : pc' = [pc EXCEPT ![t] = l]
  <2>1. CASE L!Stray(t) \/ L!Answered(t) \/ \E f \in Fibers : L!flsGetOutOfRange(t, f)
    BY <2>1 DEF L!Stray, L!Answered, L!flsGetOutOfRange, L!Owns, L!Granted, L!Goto, L!Return, L!Pcs
  <2>2. CASE L!StartRead(t) \/ L!myread(t) \/ L!UseNames(t)
    BY <2>2 DEF L!StartRead, L!myread, L!UseNames, L!Goto, L!Return, L!Pcs
  <2>3. CASE \E p \in Processes : L!TakeNames(t, p)
    BY <2>3 DEF L!TakeNames, L!Goto, L!Pcs
  <2>4. CASE L!StartExit(t) \/ L!ExitPlain(t)
    BY <2>4 DEF L!StartExit, L!ExitPlain, L!Die, L!Goto, L!Pcs
  <2>5. CASE L!WalkExit(t)
    <3>1. pc[t] = "exit" /\ (pc' = [pc EXCEPT ![t] = "lost"] \/ pc' = [pc EXCEPT ![t] = "exit"])
      BY <2>5 DEF L!WalkExit, L!Goto, L!TypeOK
    <3> QED  BY <3>1 DEF L!Pcs
  <2> QED  BY <2>1, <2>2, <2>3, <2>4, <2>5
<1>4. L!HeadEntry \in Processes \cup {NONE}
  BY DEF L!HeadEntry, L!TypeOK
<1>5. \A p \in Processes : L!Following(p) \in Processes \cup {NONE}
  <2> SUFFICES ASSUME NEW p \in Processes PROVE L!Following(p) \in Processes \cup {NONE}
    OBVIOUS
  <2>1. Lista_Processi \in Seq(Processes)
    BY DEF L!TypeOK
  <2>2. L!Rest(p) \in 0..Len(Lista_Processi)
    BY <2>1, RestIs
  <2> PICK r \in 0..Len(Lista_Processi) : r = L!Rest(p)
    BY <2>2
  <2> QED  BY <2>1 DEF L!Following
<1>6. \E p \in Processes \cup {NONE} : iter' = [iter EXCEPT ![t] = p]
  <2>1. iter[t] \in Processes \cup {NONE} /\ iter = [iter EXCEPT ![t] = iter[t]]
    BY DEF L!TypeOK
  <2>2. CASE L!Stray(t)
    BY <2>1, <2>2 DEF L!Stray
  <2>3. CASE L!Answered(t) \/ L!myread(t) \/ L!ExitPlain(t) \/ \E f \in Fibers : L!flsGetOutOfRange(t, f)
    BY <2>3 DEF L!Answered, L!myread, L!ExitPlain, L!flsGetOutOfRange, L!Die, L!Return
  <2>4. CASE L!StartRead(t) \/ L!StartExit(t)
    BY <1>4, <2>4 DEF L!StartRead, L!StartExit
  <2>5. CASE \E p \in Processes : L!TakeNames(t, p)
    BY <2>5 DEF L!TakeNames
  <2>6. CASE L!UseNames(t)
    BY <2>1, <2>6 DEF L!UseNames, L!Return
  <2>7. CASE L!WalkExit(t)
    <3>1. iter[t] \in Processes /\ (iter' = iter \/ iter' = [iter EXCEPT ![t] = L!Following(iter[t])])
      BY <2>1, <2>7 DEF L!WalkExit
    <3> QED  BY <1>5, <2>1, <3>1
  <2> QED  BY <2>2, <2>3, <2>4, <2>5, <2>6, <2>7
<1>7. L!TypeOK'
  BY <1>1, <1>2, <1>3, <1>6 DEF L!TypeOK
<1>8. \A u \in Threads : /\ pc[u] = "dead" => pc'[u] = "dead"
                         /\ pc'[u] = "ioctl" => pc[u] = "ioctl" /\ iter'[u] = iter[u]
  BY <1>3, <1>6 DEF L!TypeOK
<1>9. (Unused /\ Stands /\ Marked /\ Executed /\ Flows /\ Lists /\ OwnStorage)'
  BY <1>1, <1>8, FiberFrame
<1>10. Opened' /\ \A u \in Threads : Started(u)'
  BY <1>1, <1>8, ProcFrame
<1> QED  BY <1>7, <1>9, <1>10

\* What every call that is served has: it returns to its caller, the lock is
\* free again, and the lists of processes are as they were.
Served(t) ==
  /\ pc[t] = "ioctl" /\ pc' = [pc EXCEPT ![t] = "user"] /\ iter' = [iter EXCEPT ![t] = NONE]
  /\ UNCHANGED <<Lista_Processi, file, lock_lista_processi>>

LEMMA ServedProc ==
  ASSUME ListInv, NEW t \in Threads, Served(t)
  PROVE  /\ Opened' /\ \A u \in Threads : Started(u)'
         /\ \A u \in Threads : pc[u] = "dead" <=> pc'[u] = "dead"
         /\ pc' \in [Threads -> L!Pcs] /\ iter' \in [Threads -> Processes \cup {NONE}]
<1>1. \A u \in Threads : pc'[u] = "ioctl" => pc[u] = "ioctl" /\ iter'[u] = iter[u]
  BY DEF ListInv, Served, L!TypeOK
<1>2. Opened' /\ \A u \in Threads : Started(u)'
  BY <1>1, ProcFrame DEF ListInv, Served
<1> QED  BY <1>2 DEF ListInv, Served, L!TypeOK, L!Pcs

\* A list of fibers with a new one at its head.
LEMMA Linked ==
  ASSUME lista_fiber \in [Processes -> Seq(Fibers)], NEW p \in Processes, NEW f \in Fibers,
         lista_fiber' = [lista_fiber EXCEPT ![p] = <<f>> \o @]
  PROVE  /\ lista_fiber' \in [Processes -> Seq(Fibers)]
         /\ \A q \in Processes, g \in Fibers : On(q, g)' <=> On(q, g) \/ (q = p /\ g = f)
<1> PICK s \in Seq(Fibers) : s = lista_fiber[p]
  OBVIOUS
<1>1. lista_fiber'[p] = <<f>> \o s /\ \A q \in Processes \ {p} : lista_fiber'[q] = lista_fiber[q]
  OBVIOUS
<1>2. /\ <<f>> \o s \in Seq(Fibers) /\ Len(<<f>> \o s) = Len(s) + 1 /\ (<<f>> \o s)[1] = f
      /\ \A i \in 1..Len(s) : (<<f>> \o s)[i + 1] = s[i]
  OBVIOUS
<1>3. \A i \in 1..(Len(s) + 1) : i # 1 => i - 1 \in 1..Len(s) /\ (<<f>> \o s)[i] = s[i - 1]
  BY <1>2
<1>4. 1 \in 1..Len(lista_fiber'[p]) /\ \A i \in 1..Len(s) : i + 1 \in 1..Len(lista_fiber'[p])
  BY <1>1, <1>2
<1>5. ASSUME NEW q \in Processes, NEW g \in Fibers
      PROVE  On(q, g)' <=> On(q, g) \/ (q = p /\ g = f)
  <2>1. CASE q = p
    <3>1. ASSUME NEW i \in 1..Len(s), s[i] = g PROVE On(p, g)'
      <4>1. lista_fiber'[p][i + 1] = g /\ i + 1 \in 1..Len(lista_fiber'[p])
        BY <1>1, <1>2, <1>4, <3>1
      <4> QED  BY <4>1 DEF On
    <3>2. On(p, f)'
      BY <1>1, <1>2, <1>4 DEF On
    <3>3. On(p, g)' => On(p, g) \/ g = f
      <4> SUFFICES ASSUME NEW k \in 1..Len(lista_fiber'[p]), lista_fiber'[p][k] = g, g # f
                   PROVE  On(p, g)
        BY DEF On
      <4> QED  BY <1>1, <1>2, <1>3 DEF On
    <3> QED  BY <2>1, <3>1, <3>2, <3>3 DEF On
  <2>2. CASE q # p
    BY <1>1, <2>2 DEF On
  <2> QED  BY <2>1, <2>2
<1>6. lista_fiber' \in [Processes -> Seq(Fibers)]
  BY <1>2
<1> QED  BY <1>5, <1>6

\* The fiber a handler takes for its caller's is the one whose flow it executes.
LEMMA OldIs ==
  ASSUME ListInv, NEW t \in Threads, L!IsFiber(t)
  PROVE  /\ L!Old(t) \in L!Heap /\ L!Old(t) \in Fibers /\ runner[L!Old(t)] = t
         /\ running[L!Old(t)] /\ entry_point[L!Old(t)] = cpu[t]
<1>1. lista_fiber[Process[t]] \in Seq(Fibers)
  BY Names DEF ListInv, L!TypeOK
<1>2. runner[L!Old(t)] = t /\ L!Old(t) \in Fibers
  BY <1>1, CurrentIs
<1> QED  BY <1>2 DEF ListInv, Marked

\* A thread that is no fiber has not been converted.
LEMMA NotFiberIs ==
  ASSUME ListInv, NEW t \in Threads, ~L!IsFiber(t), pc[t] # "dead"
  PROVE  /\ \A f \in Fibers : runner[f] # t
         /\ \A f \in L!Heap : entry_point[f] # t
         /\ cpu[t] = t
<1>1. lista_fiber[Process[t]] \in Seq(Fibers)
  BY Names DEF ListInv, L!TypeOK
<1>2. \A f \in Fibers : runner[f] # t
  BY <1>1, CurrentIs DEF ListInv, Marked
<1>3. \A f \in L!Heap : f \in Fibers /\ entry_point[f] # cpu[t]
  BY <1>2 DEF ListInv, Executed, L!Heap
<1> QED  BY <1>2, <1>3 DEF ListInv, Flows

\* ConvertThreadToFiber.
LEMMA ListConvertInv ==
  ASSUME ListInv, NEW t \in Threads, NEW f \in Fibers, L!fib_convert(t, f) PROVE ListInv'
<1> PICK p \in Processes : p = Process[t]
  BY Names
<1> USE Names DEF ListInv
<1>1. /\ f \notin L!Heap /\ ~L!IsFiber(t) /\ pc[t] # "dead" /\ Served(t)
      /\ lista_fiber' = [lista_fiber EXCEPT ![p] = <<f>> \o @]
      /\ entry_point' = [entry_point EXCEPT ![f] = t] /\ regs' = [regs EXCEPT ![f] = NONE]
      /\ running' = [running EXCEPT ![f] = TRUE] /\ runner' = [runner EXCEPT ![f] = t]
      /\ UNCHANGED <<len_fiber_stuff, fls, cpu>>
  BY DEF L!fib_convert, L!do_fib_create, L!Granted, L!Return, L!Goto, Served
<1>2. /\ \A g \in Fibers : runner[g] # t
      /\ \A g \in L!Heap : entry_point[g] # t
      /\ cpu[t] = t /\ \A u \in Threads \ {t} : cpu[u] # t
  BY <1>1, NotFiberIs DEF Flows
<1>3. /\ runner[f] = NONE /\ fls[f] = NONE /\ t # NONE
      /\ L!Heap' = L!Heap \cup {f}
      /\ \A g \in Fibers \ {f} : /\ entry_point'[g] = entry_point[g] /\ regs'[g] = regs[g]
                                 /\ running'[g] = running[g] /\ runner'[g] = runner[g]
      /\ entry_point'[f] = t /\ running'[f] /\ runner'[f] = t /\ L!Heap \subseteq Fibers
  BY <1>1 DEF Unused, L!Heap, L!TypeOK
<1>4. /\ Opened' /\ \A u \in Threads : Started(u)'
      /\ \A u \in Threads : pc[u] = "dead" <=> pc'[u] = "dead"
      /\ pc' \in [Threads -> L!Pcs] /\ iter' \in [Threads -> Processes \cup {NONE}]
  BY <1>1, ServedProc
<1>5. /\ lista_fiber' \in [Processes -> Seq(Fibers)]
      /\ \A q \in Processes, g \in Fibers : On(q, g)' <=> On(q, g) \/ (q = p /\ g = f)
  <2>1. lista_fiber \in [Processes -> Seq(Fibers)]
    BY DEF L!TypeOK
  <2> QED  BY <1>1, <2>1, Linked
<1>6. L!TypeOK'
  BY <1>1, <1>4, <1>5 DEF L!TypeOK, Served
<1>7. Unused' /\ OwnStorage'
  BY <1>1, <1>3 DEF Unused, OwnStorage
<1>8. Stands'
  BY <1>2, <1>3 DEF Stands
<1>9. Marked'
  <2> SUFFICES ASSUME NEW g \in Fibers, NEW u \in Threads, runner'[g] = u
               PROVE  /\ g \in L!Heap' /\ running'[g] /\ entry_point'[g] = cpu'[u]
                      /\ On(Process[u], g)'
    BY DEF Marked
  <2>1. CASE g = f
    BY <1>1, <1>2, <1>3, <1>5, <2>1
  <2>2. CASE g # f
    <3>1. runner[g] = u /\ Process[u] \in Processes
      BY <1>3, <2>2
    <3>2. On(Process[u], g)'
      BY <1>5, <3>1 DEF Marked
    <3> QED  BY <1>1, <1>3, <2>2, <3>1, <3>2 DEF Marked
  <2> QED  BY <2>1, <2>2
<1>10. Executed' /\ Flows'
  BY <1>1, <1>2, <1>3, <1>4 DEF Executed, Flows
<1>11. Lists'
  BY <1>3, <1>5 DEF Lists
<1> QED
  BY <1>4, <1>6, <1>7, <1>8, <1>9, <1>10, <1>11

\* CreateFiber.
LEMMA ListCreateInv ==
  ASSUME ListInv, NEW t \in Threads, NEW f \in Fibers, L!fib_create(t, f) PROVE ListInv'
<1> PICK p \in Processes : p = Process[t]
  BY Names
<1> USE Names DEF ListInv
<1>1. /\ f \notin L!Heap /\ Served(t)
      /\ lista_fiber' = [lista_fiber EXCEPT ![p] = <<f>> \o @]
      /\ entry_point' = [entry_point EXCEPT ![f] = f] /\ regs' = [regs EXCEPT ![f] = f]
      /\ len_fiber_stuff' = [len_fiber_stuff EXCEPT ![p] = @ + 1]
      /\ UNCHANGED <<runner, running, fls, cpu>>
  BY DEF L!fib_create, L!do_fib_create, L!Granted, L!Return, L!Goto, Served
<1>2. \A u \in Threads : cpu[u] # f
  BY <1>1 DEF Flows, Stands
<1>3. /\ runner[f] = NONE /\ fls[f] = NONE
      /\ L!Heap' = L!Heap \cup {f}
      /\ \A g \in Fibers \ {f} : entry_point'[g] = entry_point[g] /\ regs'[g] = regs[g]
      /\ entry_point'[f] = f /\ regs'[f] = f /\ L!Heap \subseteq Fibers
  BY <1>1 DEF Unused, L!Heap, L!TypeOK
<1>4. /\ Opened' /\ \A u \in Threads : Started(u)'
      /\ \A u \in Threads : pc[u] = "dead" <=> pc'[u] = "dead"
      /\ pc' \in [Threads -> L!Pcs] /\ iter' \in [Threads -> Processes \cup {NONE}]
  BY <1>1, ServedProc
<1>5. /\ lista_fiber' \in [Processes -> Seq(Fibers)]
      /\ \A q \in Processes, g \in Fibers : On(q, g)' <=> On(q, g) \/ (q = p /\ g = f)
  <2>1. lista_fiber \in [Processes -> Seq(Fibers)]
    BY DEF L!TypeOK
  <2> QED  BY <1>1, <2>1, Linked
<1>6. L!TypeOK'
  BY <1>1, <1>4, <1>5 DEF L!TypeOK, Served
<1>7. Unused' /\ OwnStorage'
  BY <1>1, <1>3 DEF Unused, OwnStorage
<1>8. Stands'
  BY <1>1, <1>3 DEF Stands
<1>9. Marked'
  <2> SUFFICES ASSUME NEW g \in Fibers, NEW u \in Threads, runner'[g] = u
               PROVE  /\ g \in L!Heap' /\ running'[g] /\ entry_point'[g] = cpu'[u]
                      /\ On(Process[u], g)'
    BY DEF Marked
  <2>1. runner[g] = u /\ Process[u] \in Processes /\ g # f
    BY <1>1, <1>3
  <2>2. On(Process[u], g)'
    BY <1>5, <2>1 DEF Marked
  <2> QED  BY <1>1, <1>3, <2>1, <2>2 DEF Marked
<1>10. Executed' /\ Flows'
  BY <1>1, <1>2, <1>3, <1>4 DEF Executed, Flows
<1>11. Lists'
  BY <1>3, <1>5 DEF Lists
<1> QED
  BY <1>4, <1>6, <1>7, <1>8, <1>9, <1>10, <1>11

\* SwitchToFiber, when it succeeds.
LEMMA ListSwitchInv ==
  ASSUME ListInv, NEW t \in Threads, NEW g \in Fibers, L!fib_switch_to(t, g) PROVE ListInv'
<1> PICK o : o = L!Old(t)  OBVIOUS
<1> USE Names DEF ListInv
<1>1. /\ L!IsFiber(t) /\ Served(t) /\ ~running[g] /\ g \in L!Mine(Process[t])
      /\ regs' = [regs EXCEPT ![o] = cpu[t]] /\ cpu' = [cpu EXCEPT ![t] = regs[g]]
      /\ running' = [running EXCEPT ![o] = FALSE, ![g] = TRUE]
      /\ runner' = [runner EXCEPT ![o] = NONE, ![g] = t]
      /\ UNCHANGED <<lista_fiber, len_fiber_stuff, entry_point, fls>>
  BY DEF L!fib_switch_to, L!Exchange, L!Granted, L!Return, L!Goto, L!procVars, Served
<1>2. o \in L!Heap /\ o \in Fibers /\ runner[o] = t /\ running[o] /\ entry_point[o] = cpu[t]
  BY <1>1, OldIs
<1>3. On(Process[t], g)
  BY <1>1 DEF L!Mine, L!Contains, On
<1>4. g \in L!Heap /\ g # o /\ runner[g] = NONE /\ regs[g] = entry_point[g]
  <2>1. g \in L!Heap
    BY <1>3 DEF Lists
  <2>2. runner[g] = NONE
    BY <1>1 DEF Marked, L!TypeOK
  <2> QED  BY <1>1, <1>2, <2>1, <2>2 DEF Stands
<1>5. /\ L!Heap' = L!Heap
      /\ \A f \in Fibers \ {o, g} : runner'[f] = runner[f] /\ running'[f] = running[f]
      /\ \A f \in Fibers \ {o} : regs'[f] = regs[f]
      /\ runner'[o] = NONE /\ regs'[o] = cpu[t] /\ runner'[g] = t /\ running'[g]
      /\ cpu'[t] = entry_point[g] /\ \A u \in Threads \ {t} : cpu'[u] = cpu[u]
  <2>1. L!Heap' = L!Heap
    BY <1>1 DEF L!Heap
  <2>2. /\ DOMAIN runner = Fibers /\ DOMAIN running = Fibers /\ DOMAIN regs = Fibers
        /\ DOMAIN cpu = Threads
    BY DEF L!TypeOK
  <2>3. /\ \A f \in Fibers \ {o, g} : runner'[f] = runner[f] /\ running'[f] = running[f]
        /\ runner'[o] = NONE /\ runner'[g] = t /\ running'[g]
    BY <1>1, <1>2, <1>4, <2>2
  <2>4. /\ \A f \in Fibers \ {o} : regs'[f] = regs[f]
        /\ regs'[o] = cpu[t] /\ cpu'[t] = entry_point[g]
        /\ \A u \in Threads \ {t} : cpu'[u] = cpu[u]
    BY <1>1, <1>2, <1>4, <2>2
  <2> QED  BY <2>1, <2>3, <2>4
<1>6. /\ Opened' /\ \A u \in Threads : Started(u)'
      /\ \A u \in Threads : pc[u] = "dead" <=> pc'[u] = "dead"
      /\ pc' \in [Threads -> L!Pcs] /\ iter' \in [Threads -> Processes \cup {NONE}]
  BY <1>1, ServedProc
<1>7. L!TypeOK'
  <2>1. entry_point[g] \in Threads \cup Fibers
    BY <1>4 DEF Stands
  <2> QED  BY <1>1, <1>4, <1>6, <2>1 DEF L!TypeOK, Served
<1>8. \A f \in Fibers : runner[f] = t => f = o
  BY <1>2 DEF Marked, Stands
<1>9. \A u \in Threads : cpu[u] # entry_point[g]
  BY <1>1, <1>4 DEF Executed
<1>10. Unused' /\ OwnStorage'
  <2>1. \A f \in Fibers \ L!Heap : f \notin {o, g}
    BY <1>2, <1>4
  <2>2. \A f \in Fibers \ L!Heap : runner'[f] = runner[f] /\ running'[f] = running[f]
    BY <1>5, <2>1
  <2>3. Unused'
    BY <1>1, <1>5, <2>2 DEF Unused
  <2> QED  BY <1>1, <2>3 DEF OwnStorage
<1>15. Stands'
  <2>1. \A f \in L!Heap : f \in Fibers /\ entry_point'[f] = entry_point[f]
    BY <1>1 DEF L!Heap
  <2>2. ASSUME NEW f \in L!Heap, runner'[f] = NONE PROVE regs'[f] = entry_point[f]
    <3>1. CASE f = o
      BY <1>2, <1>5, <3>1
    <3>2. CASE f # o
      <4>1. f # g /\ runner[f] = NONE
        BY <1>5, <2>1, <2>2, <3>2
      <4> QED  BY <1>5, <2>1, <3>2, <4>1 DEF Stands
    <3> QED  BY <3>1, <3>2
  <2> QED  BY <1>5, <2>1, <2>2 DEF Stands
<1>11. Marked'
  <2>1. \A f \in Fibers \ {o, g}, u \in Threads : runner'[f] = u => runner[f] = u /\ u # t
    BY <1>5, <1>8
  <2>2. \A q, f : On(q, f)' <=> On(q, f)
    BY <1>1 DEF On
  <2> SUFFICES ASSUME NEW f \in Fibers, NEW u \in Threads, runner'[f] = u
               PROVE  /\ f \in L!Heap' /\ running'[f] /\ entry_point'[f] = cpu'[u]
                      /\ On(Process[u], f)'
    BY DEF Marked
  <2>3. CASE f = g
    <3>1. u = t /\ t # NONE
      BY <1>5, <2>3
    <3> QED  BY <1>1, <1>3, <1>4, <1>5, <2>2, <2>3, <3>1
  <2>4. CASE f = o
    BY <1>5, <2>4
  <2>5. CASE f \notin {o, g}
    <3>1. runner[f] = u /\ u # t
      BY <2>1, <2>5
    <3>2. f \in L!Heap /\ running[f] /\ entry_point[f] = cpu[u] /\ On(Process[u], f)
      BY <3>1 DEF Marked
    <3>3. f \in L!Heap' /\ running'[f] /\ entry_point'[f] = cpu'[u]
      <4>1. running'[f] = running[f] /\ cpu'[u] = cpu[u] /\ entry_point' = entry_point
        BY <1>1, <1>5, <2>5, <3>1
      <4> QED  BY <1>5, <3>2, <4>1
    <3> QED  BY <2>2, <3>2, <3>3
  <2> QED  BY <2>3, <2>4, <2>5
<1>12. Executed'
  <2>0. \A f \in L!Heap' : f \in L!Heap /\ entry_point'[f] = entry_point[f]
    BY <1>1, <1>5
  <2> SUFFICES ASSUME NEW f \in L!Heap, NEW u \in Threads, entry_point[f] = cpu'[u]
               PROVE  running'[f] /\ (runner'[f] = u \/ (runner'[f] = NONE /\ pc'[u] = "dead"))
    BY <2>0 DEF Executed
  <2>1. CASE u = t
    BY <1>4, <1>5, <2>1 DEF Stands
  <2>2. CASE u # t
    <3>1. entry_point[f] = cpu[u] /\ f # g
      BY <1>5, <1>9, <2>2
    <3>2. f # o
      BY <1>2, <2>2, <3>1 DEF Flows
    <3> QED  BY <1>5, <1>6, <3>1, <3>2 DEF Executed, L!Heap
  <2> QED  BY <2>1, <2>2
<1>13. Flows'
  <2>1. \A u, v \in Threads : cpu'[u] = cpu'[v] => u = v
    BY <1>5, <1>9 DEF Flows
  <2>2. ASSUME NEW u \in Threads
        PROVE  IF \E f \in L!Heap : entry_point[f] = u THEN \E f \in L!Heap : entry_point[f] = cpu'[u]
                                                       ELSE cpu'[u] = u
    BY <1>2, <1>4, <1>5 DEF Flows
  <2> QED  BY <1>1, <1>5, <2>1, <2>2 DEF Flows
<1>14. Lists'
  BY <1>1, <1>5 DEF Lists, On
<1> QED
  BY <1>6, <1>7, <1>10, <1>11, <1>12, <1>13, <1>14, <1>15

\* The calls on the storage of the caller's fiber.
LEMMA ListFlsInv ==
  ASSUME ListInv, NEW t \in Threads, NEW f \in Fibers,
         L!flsAlloc(t, f) \/ L!flsFree(t, f) \/ L!flsSetValue(t, f)
  PROVE  ListInv'
<1> USE Names DEF ListInv
<1>1. /\ L!IsFiber(t) /\ f = L!Old(t) /\ Served(t)
      /\ \E l \in {NONE, cpu[t]} : fls' = [fls EXCEPT ![f] = l]
      /\ UNCHANGED <<lista_fiber, len_fiber_stuff, runner, running, regs, entry_point, cpu>>
  BY DEF L!flsAlloc, L!flsFree, L!flsSetValue, L!Owns, L!Granted, L!Return, L!Goto,
     L!procVars, Served
<1>2. f \in L!Heap /\ entry_point[f] = cpu[t]
  BY <1>1, OldIs
<1>3. L!Heap' = L!Heap /\ fls'[f] \in {NONE, entry_point[f]}
      /\ \A g \in Fibers \ {f} : fls'[g] = fls[g]
  BY <1>1, <1>2 DEF L!Heap, L!TypeOK
<1>4. /\ Opened' /\ \A u \in Threads : Started(u)'
      /\ \A u \in Threads : pc[u] = "dead" <=> pc'[u] = "dead"
      /\ pc' \in [Threads -> L!Pcs] /\ iter' \in [Threads -> Processes \cup {NONE}]
  BY <1>1, ServedProc
<1>5. L!TypeOK'
  <2>1. cpu[t] \in Threads \cup Fibers \cup {NONE}
    BY DEF L!TypeOK
  <2> QED  BY <1>1, <1>4, <2>1 DEF L!TypeOK, Served
<1>6. Unused' /\ OwnStorage'
  BY <1>1, <1>2, <1>3 DEF Unused, OwnStorage
<1>7. Stands'
  BY <1>1, <1>3 DEF Stands
<1>8. Marked'
  <2>1. \A q, g : On(q, g)' <=> On(q, g)
    BY <1>1 DEF On
  <2> QED  BY <1>1, <1>3, <2>1 DEF Marked
<1>9. Executed' /\ Flows'
  BY <1>1, <1>3, <1>4 DEF Executed, Flows
<1>10. Lists'
  BY <1>1, <1>3 DEF Lists, On
<1> QED
  BY <1>4, <1>5, <1>6, <1>7, <1>8, <1>9, <1>10

\* A fiber that dies with its thread stays marked as running.
LEMMA ListExitInv ==
  ASSUME ListInv, NEW t \in Threads, L!Pre_Handler_Exit(t) PROVE ListInv'
<1> PICK o : o = L!Old(t)  OBVIOUS
<1> USE Names DEF ListInv
<1>1. /\ L!IsFiber(t) /\ pc[t] = "exit"
      /\ regs' = [regs EXCEPT ![o] = cpu[t]] /\ running' = [running EXCEPT ![o] = TRUE]
      /\ runner' = [runner EXCEPT ![o] = NONE]
      /\ pc' = [pc EXCEPT ![t] = "dead"] /\ iter' = [iter EXCEPT ![t] = NONE]
      /\ UNCHANGED <<Lista_Processi, file, lista_fiber, len_fiber_stuff, lock_lista_processi,
                     entry_point, fls, cpu>>
  BY DEF L!Pre_Handler_Exit, L!Die, L!Goto, L!procVars
<1>2. o \in L!Heap /\ o \in Fibers /\ runner[o] = t /\ running[o] /\ entry_point[o] = cpu[t]
  BY <1>1, OldIs
<1>3. /\ L!Heap' = L!Heap
      /\ \A f \in Fibers : running'[f] = running[f]
      /\ \A f \in Fibers \ {o} : runner'[f] = runner[f] /\ regs'[f] = regs[f]
      /\ runner'[o] = NONE /\ regs'[o] = cpu[t]
      /\ pc'[t] = "dead" /\ \A u \in Threads \ {t} : pc'[u] = pc[u]
  BY <1>1, <1>2 DEF L!Heap, L!TypeOK
<1>4. Opened' /\ \A u \in Threads : Started(u)'
  <2>1. \A u \in Threads : pc'[u] = "ioctl" => pc[u] = "ioctl" /\ iter'[u] = iter[u]
    BY <1>1, <1>3 DEF L!TypeOK
  <2> QED  BY <1>1, <2>1, ProcFrame
<1>5. L!TypeOK'
  BY <1>1 DEF L!TypeOK, L!Pcs
<1>6. Unused' /\ OwnStorage'
  BY <1>1, <1>2, <1>3 DEF Unused, OwnStorage
<1>7. Stands'
  <2>1. \A f \in L!Heap : f \in Fibers /\ entry_point'[f] = entry_point[f]
    BY <1>1 DEF L!Heap
  <2> QED  BY <1>2, <1>3, <2>1 DEF Stands
<1>8. Marked'
  <2>1. \A q, f : On(q, f)' <=> On(q, f)
    BY <1>1 DEF On
  <2>2. \A f \in Fibers, u \in Threads : runner'[f] = u => runner[f] = u
    BY <1>3
  <2> QED  BY <1>1, <1>3, <2>1, <2>2 DEF Marked
<1>9. Executed'
  <2>1. \A f \in L!Heap' : f \in L!Heap /\ f \in Fibers /\ entry_point'[f] = entry_point[f]
    BY <1>1, <1>3 DEF L!Heap
  <2> SUFFICES ASSUME NEW f \in L!Heap, NEW u \in Threads, f \in Fibers, entry_point[f] = cpu[u]
               PROVE  running'[f] /\ (runner'[f] = u \/ (runner'[f] = NONE /\ pc'[u] = "dead"))
    BY <1>1, <2>1 DEF Executed
  <2>2. CASE f = o
    <3>1. u = t
      BY <1>2, <2>2 DEF Flows
    <3> QED  BY <1>2, <1>3, <2>2, <3>1
  <2>3. CASE f # o
    BY <1>3, <2>3 DEF Executed
  <2> QED  BY <2>2, <2>3
<1>10. Flows'
  BY <1>1, <1>3 DEF Flows
<1>11. Lists'
  BY <1>1, <1>3 DEF Lists, On
<1> QED
  BY <1>4, <1>5, <1>6, <1>7, <1>8, <1>9, <1>10, <1>11

LEMMA ListInit == L!Init => ListInv
<1> SUFFICES ASSUME L!Init PROVE ListInv
  OBVIOUS
<1> USE Names DEF L!Init
<1>1. L!Heap = {} /\ Len(Lista_Processi) = 0 /\ \A p \in Processes : Len(lista_fiber[p]) = 0
  BY DEF L!Heap
<1>2. L!TypeOK
  BY DEF L!TypeOK, L!Pcs
<1>3. Opened /\ \A t \in Threads : Started(t)
  BY <1>1 DEF Opened, Started, L!Listed, L!Contains
<1>4. Unused /\ Stands /\ OwnStorage
  BY <1>1 DEF Unused, Stands, OwnStorage
<1>5. Marked /\ Executed /\ Flows
  BY <1>1 DEF Marked, Executed, Flows
<1>6. Lists
  <2>1. \A p \in Processes, f \in Fibers : ~On(p, f)
    BY <1>1 DEF On
  <2> QED  BY <2>1 DEF Lists
<1> QED  BY <1>2, <1>3, <1>4, <1>5, <1>6 DEF ListInv

LEMMA ListNext == ListInv /\ L!Next => ListInv'
<1> SUFFICES ASSUME ListInv, L!Next PROVE ListInv'
  OBVIOUS
<1>1. CASE \E p \in Processes : L!fib_open(p) \/ L!fib_release(p)
  BY <1>1, DeviceInv
<1>2. ASSUME NEW t \in Threads, L!Call(t) \/ L!Handler(t) \/ L!Proc(t) \/ L!Exit(t)
      PROVE  ListInv'
  <2>1. CASE L!Call(t)
    BY <2>1, CallInv
  <2>2. CASE L!Proc(t)
    BY <2>2, WalkInv DEF L!Proc
  <2>3. CASE L!Exit(t)
    BY <2>3, WalkInv, ListExitInv DEF L!Exit
  <2>4. CASE L!Handler(t)
    BY <2>4, WalkInv, ListConvertInv, ListCreateInv, ListSwitchInv, ListFlsInv DEF L!Handler
  <2> QED  BY <1>2, <2>1, <2>2, <2>3, <2>4
<1> QED  BY <1>1, <1>2 DEF L!Next
-----------------------------------------------------------------------------
(* Both versions implement the scheduler by the same argument.  The fibers *)
(* that exist, the flow each stands for and the flow each thread executes  *)
(* fix the abstract state; only their changes are abstract steps.          *)

\* A thread runs the fiber whose flow it executes; what is kept for a fiber
\* that nobody runs is the flow it stands for.
Faithful ==
  /\ Exist \subseteq Fibers /\ cpu \in [Threads -> Threads \cup Fibers]
  /\ \A t \in Threads : Runs(t) \in Exist \cup {NONE}
  /\ \A t \in Threads, f \in Exist : Runs(t) = f <=> entry_point[f] = cpu[t]
  /\ \A f \in Exist : (\A t \in Threads : entry_point[f] # cpu[t]) => regs[f] = entry_point[f]
  /\ \A f, g \in Exist : entry_point[f] = entry_point[g] => f = g

\* The fibers that nobody runs.
Idle == {f \in Exist : \A t \in Threads : entry_point[f] # cpu[t]}

\* The abstract state, seen through Faithful.
Seen == /\ [f \in Exist \ {Runs(t) : t \in Threads} |-> Context(regs[f])]
             = [f \in Idle |-> Context(entry_point[f])]
        /\ \A t \in Threads : Runs(t) \in Exist \cup {NONE}
        /\ \A t \in Threads, f \in Exist : Runs(t) = f <=> entry_point[f] = cpu[t]

LEMMA View == Faithful => Seen
<1> SUFFICES ASSUME Faithful PROVE Seen
  OBVIOUS
<1>1. Exist \ {Runs(t) : t \in Threads} = Idle
  BY DEF Faithful, Idle
<1>2. \A f \in Idle : Context(regs[f]) = Context(entry_point[f])
  BY DEF Faithful, Idle
<1> QED  BY <1>1, <1>2 DEF Faithful, Seen

\* Nothing changes hands.
LEMMA Stutters ==
  ASSUME Faithful, Faithful', Exist' = Exist, cpu' = cpu,
         \A f \in Exist : entry_point'[f] = entry_point[f]
  PROVE  UNCHANGED Scheduler!vars
<1>1. Seen /\ Seen'
  BY View, PTL
<1>2. \A t \in Threads : Runs(t)' = Runs(t)
  BY Names DEF Faithful
<1>3. Idle' = Idle
  BY DEF Idle
<1>4. [f \in Idle |-> Context(entry_point[f])]' = [f \in Idle |-> Context(entry_point[f])]
  <2>1. \A f \in Idle : Context(entry_point[f])' = Context(entry_point[f])
    BY DEF Idle, Context
  <2> QED  BY <1>3, <2>1
<1>5. [f \in Exist \ {Runs(t) : t \in Threads} |-> Context(regs[f])]'
        = [f \in Exist \ {Runs(t) : t \in Threads} |-> Context(regs[f])]
  BY <1>1, <1>4 DEF Seen
<1>6. [t \in Threads |-> Context(cpu[t])]' = [t \in Threads |-> Context(cpu[t])]
  BY DEF Context
<1> QED
  BY <1>2, <1>5, <1>6 DEF Scheduler!vars

\* A fiber is created, suspended at its start.
LEMMA Creates ==
  ASSUME Faithful, Faithful', NEW f \in Fibers \ Exist, Exist' = Exist \cup {f},
         cpu' = cpu, \A g \in Exist : entry_point'[g] = entry_point[g],
         entry_point'[f] = f, \A t \in Threads : cpu[t] # f
  PROVE  Scheduler!NewFiber(f)
<1>1. Seen /\ Seen'
  BY View, PTL
<1>2. \A t \in Threads : Runs(t)' = Runs(t)
  BY Names DEF Faithful
<1>3. Idle' = Idle \cup {f} /\ f \notin Idle
  BY DEF Idle
<1>4. [g \in Idle |-> Context(entry_point[g])]'
        = [g \in Idle \cup {f} |-> IF g = f THEN Context(f) ELSE Context(entry_point[g])]
  <2>1. \A g \in Idle : Context(entry_point[g])' = Context(entry_point[g])
    BY DEF Idle, Context
  <2>2. Context(entry_point[f])' = Context(f)
    BY DEF Context
  <2> QED  BY <1>3, <2>1, <2>2
<1>5. [t \in Threads |-> Context(cpu[t])]' = [t \in Threads |-> Context(cpu[t])]
  BY DEF Context
<1>6. Context(f) = [flow |-> f, pos |-> 0]
  BY DEF Context
<1>7. \A g \in Idle : [h \in Idle |-> Context(entry_point[h])][g] = Context(entry_point[g])
  OBVIOUS
<1> QED
  BY <1>1, <1>2, <1>3, <1>4, <1>5, <1>6, <1>7 DEF Scheduler!NewFiber, Scheduler!With, Seen

\* A thread becomes a fiber, and runs it.
LEMMA Adopts ==
  ASSUME Faithful, Faithful', NEW t \in Threads, NEW f \in Fibers \ Exist,
         Exist' = Exist \cup {f}, cpu' = cpu,
         \A g \in Exist : entry_point'[g] = entry_point[g] /\ entry_point[g] # cpu[t],
         entry_point'[f] = cpu[t], \A u \in Threads \ {t} : cpu[u] # cpu[t]
  PROVE  Scheduler!Adopt(t, f)
<1>1. Seen /\ Seen'
  BY View, PTL
<1>2. Runs(t) = NONE /\ Runs(t)' = f /\ \A u \in Threads \ {t} : Runs(u)' = Runs(u)
  BY Names DEF Faithful
<1>3. Idle' = Idle
  BY DEF Idle
<1>4. [g \in Idle |-> Context(entry_point[g])]' = [g \in Idle |-> Context(entry_point[g])]
  <2>1. \A g \in Idle : Context(entry_point[g])' = Context(entry_point[g])
    BY DEF Idle, Context
  <2> QED  BY <1>3, <2>1
<1>5. [u \in Threads |-> Context(cpu[u])]' = [u \in Threads |-> Context(cpu[u])]
  BY DEF Context
<1>6. [u \in Threads |-> Runs(u)]' = [[u \in Threads |-> Runs(u)] EXCEPT ![t] = f]
  BY <1>2
<1> QED
  BY <1>1, <1>2, <1>4, <1>5, <1>6 DEF Scheduler!Adopt, Seen

\* A thread leaves the fiber it runs for one that nobody runs.
LEMMA Switches ==
  ASSUME Faithful, Faithful', NEW t \in Threads, NEW o \in Exist, NEW g \in Exist,
         Exist' = Exist, \A f \in Exist : entry_point'[f] = entry_point[f],
         entry_point[o] = cpu[t], g \in Idle,
         cpu' = [cpu EXCEPT ![t] = entry_point[g]],
         \A u \in Threads \ {t} : cpu[u] # cpu[t]
  PROVE  Scheduler!SwitchTo(t, g)
<1>1. Seen /\ Seen'
  BY View, PTL
<1>2. Runs(t) = o /\ Runs(t)' = g /\ \A u \in Threads \ {t} : Runs(u)' = Runs(u)
  BY Names DEF Faithful
<1>3. Idle' = (Idle \ {g}) \cup {o} /\ o # NONE
  BY Names DEF Faithful, Idle
<1>4. [f \in Idle |-> Context(entry_point[f])]'
        = [f \in (Idle \ {g}) \cup {o} |-> IF f = o THEN Context(cpu[t])
                                                 ELSE Context(entry_point[f])]
  <2>1. \A f \in Exist : Context(entry_point[f])' = Context(entry_point[f])
    BY DEF Context
  <2>2. o \in Exist /\ Idle \subseteq Exist
    BY DEF Idle
  <2> QED  BY <1>3, <2>1, <2>2
<1>5. [u \in Threads |-> Context(cpu[u])]'
        = [[u \in Threads |-> Context(cpu[u])] EXCEPT ![t] = Context(entry_point[g])]
  BY DEF Context, Faithful
<1>6. [u \in Threads |-> Runs(u)]' = [[u \in Threads |-> Runs(u)] EXCEPT ![t] = g]
  BY <1>2
<1> DEFINE running_ == [u \in Threads |-> Runs(u)]
           saved_ == [f \in Exist \ {Runs(u) : u \in Threads} |-> Context(regs[f])]
           cpu_ == [u \in Threads |-> Context(cpu[u])]
<1>7. running_[t] = o /\ cpu_[t] = Context(cpu[t])
  BY <1>2
<1>8. DOMAIN saved_ = Idle /\ \A f \in Idle : saved_[f] = Context(entry_point[f])
  <2>1. saved_ = [f \in Idle |-> Context(entry_point[f])]
    BY <1>1 DEF Seen
  <2> QED  BY <2>1
<1>9. saved_' = [f \in (Idle \ {g}) \cup {o} |-> IF f = o THEN Context(cpu[t]) ELSE saved_[f]]
  <2>1. saved_' = [f \in Idle |-> Context(entry_point[f])]'
    BY <1>1 DEF Seen
  <2>2. \A f \in (Idle \ {g}) \cup {o} : f # o => saved_[f] = Context(entry_point[f])
    BY <1>8
  <2> HIDE DEF saved_
  <2> QED  BY <1>4, <2>1, <2>2
<1>10. running_' = [running_ EXCEPT ![t] = g] /\ cpu_' = [cpu_ EXCEPT ![t] = saved_[g]]
  BY <1>5, <1>6, <1>8
<1>11. running_[t] # NONE /\ g \in DOMAIN saved_ /\ Exist' = Exist
  BY <1>3, <1>7, <1>8
<1>12. saved_' = Scheduler!With((DOMAIN saved_ \ {g}) \cup {running_[t]}, running_[t], cpu_[t])
  <2>1. Scheduler!With((DOMAIN saved_ \ {g}) \cup {running_[t]}, running_[t], cpu_[t])
          = [f \in (DOMAIN saved_ \ {g}) \cup {running_[t]} |->
               IF f = running_[t] THEN cpu_[t] ELSE saved_[f]]
    BY DEF Scheduler!With
  <2> HIDE DEF saved_, running_, cpu_
  <2> QED  BY <1>7, <1>8, <1>9, <2>1
<1> QED
  BY <1>10, <1>11, <1>12 DEF Scheduler!SwitchTo

\* With try-locks, the fiber a thread runs is the one it has the lock of and
\* the flow of: not a target it has only locked, nor one under conversion.
LEMMA TryFaithful == version = "trylock" /\ TryInv => Faithful
<1> SUFFICES ASSUME version = "trylock", TryInv PROVE Faithful
  OBVIOUS
<1> USE Names DEF TryInv
<1>1. Exist = T!Known /\ \A t \in Threads : Runs(t) = T!Runs(t)
  BY DEF Exist, Runs
<1>2. T!Known \subseteq T!Heap /\ T!Heap \subseteq Fibers
  BY DEF T!Known, T!Heap
<1>3. ASSUME NEW t \in Threads
      PROVE  /\ Runs(t) \in Exist \cup {NONE}
             /\ \A f \in Exist : Runs(t) = f <=> entry_point[f] = cpu[t]
  <2> DEFINE held == {f \in T!Known : lock_fiber[f] = t} \
                        (IF pc[t] \in {"swap", "oops"} THEN {new[t]} ELSE {})
  <2>1. ASSUME NEW f \in T!Known PROVE f \in held <=> entry_point[f] = cpu[t]
    <3>1. f \in T!Heap /\ f \in Fibers
      BY <1>2
    <3>2. entry_point[f] = cpu[t] => pc[t] \notin T!ConvertPcs
      <4> SUFFICES ASSUME entry_point[f] = cpu[t], pc[t] \in T!ConvertPcs PROVE FALSE
        OBVIOUS
      <4>1. new[t] \in T!Heap /\ entry_point[new[t]] = cpu[t]
        BY DEF Locals
      <4>2. f = new[t]
        BY <3>1, <4>1 DEF Entries
      <4> QED  BY <4>2 DEF T!Known
    <3>3. pc[t] \in {"swap", "oops"} /\ f = new[t] => entry_point[f] # cpu[t]
      BY <3>1 DEF Locals, Embodies
    <3> QED  BY <3>1, <3>2, <3>3 DEF LocksOf, Embodies
  <2>2. \A f, g \in held : f = g
    BY <1>2, <2>1 DEF Entries
  <2>3. Runs(t) = IF held = {} THEN NONE ELSE CHOOSE f \in held : TRUE
    BY <1>1 DEF T!Runs
  <2>4. held # {} => Runs(t) \in held
    BY <2>3
  <2>5. held \subseteq T!Known
    OBVIOUS
  <2> HIDE DEF held
  <2> QED  BY <1>1, <1>2, <2>1, <2>2, <2>3, <2>4, <2>5
<1> QED
  BY <1>1, <1>2, <1>3 DEF Faithful, Entries, T!TypeOK

\* No two threads execute one flow.
LEMMA TryFlows == ASSUME TryInv, NEW t \in Threads, NEW u \in Threads \ {t} PROVE cpu[t] # cpu[u]
<1> USE Names DEF TryInv, Origin, T!Converted, Embodies
<1>1. CASE ~T!Converted(t)
  BY <1>1
<1>2. CASE ~T!Converted(u)
  BY <1>2
<1>3. CASE T!Converted(t) /\ T!Converted(u)
  BY <1>3, Unshared
<1> QED  BY <1>1, <1>2, <1>3

\* A switch takes effect when the registers are swapped, a conversion when
\* the fiber is locked; the other steps are hidden.
LEMMA TryRefines ==
  ASSUME version = "trylock", version' = version, TryInv, TryInv', T!Next
  PROVE  Scheduler!Next \/ UNCHANGED Scheduler!vars
<1> USE Names
<1>1. Faithful /\ Faithful'
  <2>1. (version = "trylock")' 
    OBVIOUS
  <2> QED  BY <2>1, TryFaithful, PTL
<1>2. Exist = T!Known /\ Exist' = T!Known' /\ T!Known \subseteq T!Heap /\ T!Heap \subseteq Fibers
  BY DEF Exist, T!Known, T!Heap
<1>3. ASSUME NEW t \in Users,
             \/ T!MarkConverted(t) \/ T!Refuse(t) \/ T!Test(t) \/ T!Try(t)
             \/ T!ClearRunning(t) \/ T!ClearRunner(t) \/ T!Mark(t)
             \/ \E f \in Fibers : \/ T!fib_switch_to(t, f) \/ T!flsAlloc(t, f)
                                  \/ T!flsFree(t, f) \/ T!flsSetValue(t, f)
      PROVE  UNCHANGED Scheduler!vars
  <2>1. UNCHANGED <<entry_point, cpu>>
    BY <1>3 DEF T!MarkConverted, T!Refuse, T!Test, T!Try, T!ClearRunning, T!ClearRunner,
       T!Mark, T!fib_switch_to, T!flsAlloc, T!flsFree, T!flsSetValue
  <2>2. ASSUME NEW u \in Threads
        PROVE  /\ pc[u] \in T!ConvertPcs => pc'[u] \in T!ConvertPcs /\ new'[u] = new[u]
               /\ pc'[u] \in T!ConvertPcs => pc[u] \in T!ConvertPcs
    <3>1. u # t => pc'[u] = pc[u] /\ new'[u] = new[u]
      BY <1>3 DEF TryInv, T!TypeOK, T!MarkConverted, T!Refuse, T!Test, T!Try, T!ClearRunning,
         T!ClearRunner, T!Mark, T!fib_switch_to, T!flsAlloc, T!flsFree, T!flsSetValue,
         T!Return, T!Goto
    <3>2. \/ pc[t] = "convertMark" /\ pc'[t] = "convertLock" /\ new'[t] = new[t]
          \/ pc[t] \notin T!ConvertPcs /\ pc'[t] \notin T!ConvertPcs
      BY <1>3 DEF TryInv, T!TypeOK, T!MarkConverted, T!Refuse, T!Test, T!Try, T!ClearRunning,
         T!ClearRunner, T!Mark, T!fib_switch_to, T!flsAlloc, T!flsFree, T!flsSetValue,
         T!Return, T!Goto, T!Owns, T!ConvertPcs
    <3> QED  BY <3>1, <3>2 DEF T!ConvertPcs
  <2>3. T!Known' = T!Known
    BY <2>1, <2>2 DEF T!Known, T!Heap
  <2> QED  BY <1>1, <1>2, <2>1, <2>3, Stutters
<1>4. ASSUME NEW t \in Users, NEW f \in Fibers, T!fib_convert(t, f)
      PROVE  UNCHANGED Scheduler!vars
  <2>1. /\ f \notin T!Heap /\ pc[t] = "user" /\ pc' = [pc EXCEPT ![t] = "convertMark"]
        /\ new' = [new EXCEPT ![t] = f] /\ entry_point' = [entry_point EXCEPT ![f] = t]
        /\ cpu' = cpu /\ t \in Threads
    BY <1>4 DEF T!fib_convert, T!do_fib_create, T!Goto
  <2>2. \A g \in Fibers \ {f} : entry_point'[g] = entry_point[g]
    BY <2>1 DEF TryInv, T!TypeOK
  <2>3. ASSUME NEW g \in Fibers PROVE g \in T!Known' <=> g \in T!Known
    <3>1. CASE g = f
      BY <2>1, <3>1 DEF T!Known, TryInv, T!TypeOK, T!ConvertPcs
    <3>2. CASE g # f
      <4>1. g \in T!Heap' <=> g \in T!Heap
        BY <2>2, <3>2 DEF T!Heap
      <4>2. \A u \in Threads : pc'[u] \in T!ConvertPcs /\ new'[u] = g
                                 <=> pc[u] \in T!ConvertPcs /\ new[u] = g
        BY <2>1, <3>2 DEF TryInv, T!TypeOK, T!ConvertPcs
      <4> QED  BY <4>1, <4>2 DEF T!Known
    <3> QED  BY <3>1, <3>2
  <2>4. T!Known' = T!Known
    BY <2>3 DEF T!Known, T!Heap
  <2> QED  BY <1>1, <1>2, <2>1, <2>2, <2>4, Stutters
<1>5. ASSUME NEW t \in Users, NEW f \in Fibers, T!fib_create(t, f)
      PROVE  Scheduler!NewFiber(f)
  <2>1. /\ f \notin T!Heap /\ entry_point' = [entry_point EXCEPT ![f] = f]
        /\ UNCHANGED <<cpu, pc, new>>
    BY <1>5 DEF T!fib_create, T!do_fib_create
  <2>2. \A u \in Threads : cpu[u] # f /\ (pc[u] \in T!ConvertPcs => new[u] # f)
    BY <2>1 DEF TryInv, Origin, Embodies, Entries, Locals
  <2>3. T!Known' = T!Known \cup {f}
    BY <2>1, <2>2 DEF T!Known, T!Heap, TryInv, T!TypeOK
  <2>4. entry_point'[f] = f /\ \A g \in T!Known : entry_point'[g] = entry_point[g]
    BY <1>2, <2>1 DEF TryInv, T!TypeOK
  <2> QED  BY <1>1, <1>2, <2>1, <2>2, <2>3, <2>4, Creates
<1>6. ASSUME NEW t \in Users, T!LockConverted(t)
      PROVE  \E f \in Fibers : Scheduler!Adopt(t, f)
  <2> PICK n : n = new[t]  OBVIOUS
  <2>1. /\ pc[t] = "convertLock" /\ pc' = [pc EXCEPT ![t] = "user"] /\ t \in Threads
        /\ new' = [new EXCEPT ![t] = NONE] /\ UNCHANGED <<entry_point, cpu>>
    BY <1>6 DEF T!LockConverted, T!Goto
  <2>2. /\ n \in T!Heap /\ n \in Fibers /\ entry_point[n] = t /\ cpu[t] = t
        /\ n \notin T!Known
    BY <2>1 DEF TryInv, Locals, T!Known, T!Heap, T!ConvertPcs
  <2>3. T!Known' = T!Known \cup {n}
    <3>1. \A u \in Threads : \A f \in Fibers :
            pc'[u] \in T!ConvertPcs /\ new'[u] = f
              <=> u # t /\ pc[u] \in T!ConvertPcs /\ new[u] = f
      BY <2>1 DEF TryInv, T!TypeOK, T!ConvertPcs
    <3>2. \A u \in Threads \ {t} : pc[u] \in T!ConvertPcs => new[u] # n
      BY <2>2 DEF TryInv, Locals
    <3>3. \A f \in Fibers : f \in T!Known' <=> f \in T!Known \/ f = n
      BY <2>1, <2>2, <3>1, <3>2 DEF T!Known, T!Heap, T!ConvertPcs
    <3> QED  BY <2>2, <3>3 DEF T!Known, T!Heap
  <2>4. \A g \in T!Known : entry_point[g] # cpu[t]
    BY <1>2, <2>2 DEF TryInv, Entries
  <2>5. \A u \in Threads \ {t} : cpu[u] # cpu[t]
    BY <2>1, TryFlows
  <2>6. Scheduler!Adopt(t, n)
    BY <1>1, <1>2, <2>1, <2>2, <2>3, <2>4, <2>5, Adopts
  <2> QED  BY <2>2, <2>6
<1>7. ASSUME NEW t \in Users, T!Swap(t)
      PROVE  \E f \in Fibers : Scheduler!SwitchTo(t, f)
  <2> PICK o : o = old[t]  OBVIOUS
  <2> PICK n : n = new[t]  OBVIOUS
  <2>1. /\ pc[t] = "swap" /\ pc' = [pc EXCEPT ![t] = "clearRunning"] /\ t \in Threads
        /\ cpu' = [cpu EXCEPT ![t] = regs[n]] /\ UNCHANGED <<entry_point, new>>
    BY <1>7 DEF T!Swap, T!Goto
  <2>2. /\ o \in T!Heap /\ entry_point[o] = cpu[t] /\ n \in T!Known /\ ~Embodies(n, t)
        /\ n \in T!Heap /\ regs[n] = entry_point[n] /\ o \in Fibers /\ n \in Fibers
    BY <2>1 DEF TryInv, Locals, Embodies, T!SwitchPcs, T!Known, T!Heap, Entries
  <2>3. o \in T!Known
    <3>1. \A u \in Threads : ~(pc[u] \in T!ConvertPcs /\ new[u] = o)
      <4> SUFFICES ASSUME NEW u \in Threads, pc[u] \in T!ConvertPcs, new[u] = o PROVE FALSE
        OBVIOUS
      <4>1. Embodies(o, u) /\ Embodies(o, t)
        BY <2>2 DEF TryInv, Locals, Embodies
      <4>2. u = t
        BY <2>1, <2>2, <4>1, Unshared
      <4> QED  BY <2>1, <4>2 DEF T!ConvertPcs
    <3> QED  BY <2>2, <3>1 DEF T!Known
  <2>4. n \in Idle
    <3> SUFFICES ASSUME NEW u \in Threads, entry_point[n] = cpu[u] PROVE FALSE
      BY <1>2, <2>2 DEF Idle
    <3>1. Embodies(n, u) /\ u # t
      BY <2>2 DEF Embodies
    <3>2. pc[u] \notin T!ConvertPcs
      BY <2>2, <3>1 DEF TryInv, Locals, Entries, Embodies, T!Known
    <3>3. lock_fiber[n] = u /\ lock_fiber[n] = t
      BY <2>1, <2>2, <3>1, <3>2 DEF TryInv, LocksOf
    <3> QED  BY <3>1, <3>3
  <2>5. T!Known' = T!Known
    <3>1. \A u \in Threads : pc'[u] \in T!ConvertPcs <=> pc[u] \in T!ConvertPcs
      BY <2>1 DEF TryInv, T!TypeOK, T!ConvertPcs
    <3> QED  BY <2>1, <3>1 DEF T!Known, T!Heap
  <2>6. \A u \in Threads \ {t} : cpu[u] # cpu[t]
    BY <2>1, TryFlows
  <2>7. Scheduler!SwitchTo(t, n)
    BY <1>1, <1>2, <2>1, <2>2, <2>3, <2>4, <2>5, <2>6, Switches
  <2> QED  BY <2>2, <2>7
<1> QED
  BY <1>3, <1>4, <1>5, <1>6, <1>7 DEF T!Next, Scheduler!Next
-----------------------------------------------------------------------------
(* The list version against the scheduler.                                 *)

\* A thread runs the fiber marked with it, or the one that died with it.
LEMMA ListFaithful == version = "list" /\ ListInv => Faithful
<1> SUFFICES ASSUME version = "list", ListInv PROVE Faithful
  OBVIOUS
<1> USE Names DEF ListInv
<1>1. Exist = L!Heap /\ \A t \in Threads : Runs(t) = L!Runs(t)
  BY DEF Exist, Runs
<1>2. L!Heap \subseteq Fibers
  BY DEF L!Heap
<1>3. ASSUME NEW t \in Threads
      PROVE  /\ Runs(t) \in Exist \cup {NONE}
             /\ \A f \in Exist : Runs(t) = f <=> entry_point[f] = cpu[t]
  <2> DEFINE mine == {f \in L!Heap : \/ runner[f] = t
                                     \/ pc[t] = "dead" /\ running[f] /\ regs[f] = cpu[t]
                                        /\ runner[f] = NONE}
  <2>1. ASSUME NEW f \in L!Heap PROVE f \in mine <=> entry_point[f] = cpu[t]
    <3>1. f \in Fibers
      BY <1>2
    <3>2. runner[f] = t => entry_point[f] = cpu[t]
      BY <3>1 DEF Marked
    <3>3. runner[f] = NONE => regs[f] = entry_point[f]
      BY DEF Stands
    <3>4. entry_point[f] = cpu[t] => running[f] /\ (runner[f] = t \/ (runner[f] = NONE /\ pc[t] = "dead"))
      BY DEF Executed
    <3> QED  BY <3>2, <3>3, <3>4
  <2>2. \A f, g \in mine : f = g
    BY <1>2, <2>1 DEF Stands
  <2>3. Runs(t) = IF mine = {} THEN NONE ELSE CHOOSE f \in mine : TRUE
    BY <1>1 DEF L!Runs
  <2>4. mine # {} => Runs(t) \in mine
    BY <2>3
  <2>5. mine \subseteq L!Heap
    OBVIOUS
  <2> HIDE DEF mine
  <2> QED  BY <1>1, <1>2, <2>1, <2>2, <2>3, <2>4, <2>5
<1>4. \A f \in L!Heap : (\A t \in Threads : entry_point[f] # cpu[t]) => regs[f] = entry_point[f]
  <2> SUFFICES ASSUME NEW f \in L!Heap, \A t \in Threads : entry_point[f] # cpu[t]
               PROVE  regs[f] = entry_point[f]
    OBVIOUS
  <2>1. f \in Fibers /\ runner[f] \in Threads \cup {NONE}
    BY <1>2 DEF L!TypeOK
  <2>2. runner[f] = NONE
    BY <2>1 DEF Marked
  <2> QED  BY <2>2 DEF Stands
<1> QED
  BY <1>1, <1>2, <1>3, <1>4 DEF Faithful, Stands, L!TypeOK

\* Every handler does its work in one step, under the lock.
LEMMA ListRefines ==
  ASSUME version = "list", version' = version, ListInv, ListInv', L!Next
  PROVE  Scheduler!Next \/ UNCHANGED Scheduler!vars
<1> USE Names
<1>1. Faithful /\ Faithful'
  <2>1. (version = "list")' 
    OBVIOUS
  <2> QED  BY <2>1, ListFaithful, PTL
<1>2. Exist = L!Heap /\ Exist' = L!Heap' /\ L!Heap \subseteq Fibers
  BY DEF Exist, L!Heap
<1>3. (UNCHANGED <<entry_point, cpu>>) => UNCHANGED Scheduler!vars
  <2> SUFFICES ASSUME UNCHANGED <<entry_point, cpu>> PROVE UNCHANGED Scheduler!vars
    OBVIOUS
  <2>1. L!Heap' = L!Heap
    BY DEF L!Heap
  <2> QED  BY <1>1, <1>2, <2>1, Stutters
<1>4. ASSUME NEW p \in Processes, L!fib_open(p) \/ L!fib_release(p)
      PROVE  UNCHANGED <<entry_point, cpu>>
  BY <1>4 DEF L!fib_open, L!fib_release, L!fiberVars
<1>5. ASSUME NEW t \in Threads,
             \/ L!Call(t) \/ L!Stray(t) \/ L!Answered(t) \/ L!Proc(t) \/ L!Exit(t)
             \/ \E f \in Fibers : \/ L!flsAlloc(t, f) \/ L!flsFree(t, f) \/ L!flsSetValue(t, f)
                                  \/ L!flsGetOutOfRange(t, f)
      PROVE  UNCHANGED <<entry_point, cpu>>
  BY <1>5 DEF L!Call, L!Stray, L!Answered, L!Proc, L!StartRead, L!myread, L!UseNames,
     L!TakeNames, L!Exit, L!StartExit, L!WalkExit, L!ExitPlain, L!Pre_Handler_Exit, L!Die,
     L!flsAlloc, L!flsFree, L!flsSetValue, L!flsGetOutOfRange, L!fiberVars
<1>6. ASSUME NEW t \in Threads, NEW f \in Fibers, L!fib_convert(t, f)
      PROVE  Scheduler!Adopt(t, f)
  <2>1. /\ f \notin L!Heap /\ ~L!IsFiber(t) /\ pc[t] # "dead"
        /\ entry_point' = [entry_point EXCEPT ![f] = t] /\ cpu' = cpu
    BY <1>6 DEF L!fib_convert, L!do_fib_create, L!Granted
  <2>2. (\A g \in L!Heap : entry_point[g] # t) /\ cpu[t] = t
    BY <2>1, NotFiberIs
  <2>3. L!Heap' = L!Heap \cup {f} /\ entry_point'[f] = t
        /\ \A g \in L!Heap : entry_point'[g] = entry_point[g]
    BY <2>1 DEF L!Heap, ListInv, L!TypeOK
  <2>4. \A u \in Threads \ {t} : cpu[u] # cpu[t]
    BY DEF ListInv, Flows
  <2> QED  BY <1>1, <1>2, <2>1, <2>2, <2>3, <2>4, Adopts
<1>7. ASSUME NEW t \in Threads, NEW f \in Fibers, L!fib_create(t, f)
      PROVE  Scheduler!NewFiber(f)
  <2>1. f \notin L!Heap /\ entry_point' = [entry_point EXCEPT ![f] = f] /\ cpu' = cpu
    BY <1>7 DEF L!fib_create, L!do_fib_create
  <2>2. L!Heap' = L!Heap \cup {f} /\ entry_point'[f] = f
        /\ \A g \in L!Heap : entry_point'[g] = entry_point[g]
    BY <2>1 DEF L!Heap, ListInv, L!TypeOK
  <2>3. \A u \in Threads : cpu[u] # f
    BY <2>1 DEF ListInv, Flows, Stands
  <2> QED  BY <1>1, <1>2, <2>1, <2>2, <2>3, Creates
<1>8. ASSUME NEW t \in Threads, NEW g \in Fibers, L!fib_switch_to(t, g)
      PROVE  Scheduler!SwitchTo(t, g)
  <2> PICK o : o = L!Old(t)  OBVIOUS
  <2>1. /\ L!IsFiber(t) /\ ~running[g] /\ On(Process[t], g)
        /\ cpu' = [cpu EXCEPT ![t] = regs[g]] /\ entry_point' = entry_point
    BY <1>8 DEF L!fib_switch_to, L!Exchange, L!Mine, L!Contains, On
  <2>2. o \in L!Heap /\ entry_point[o] = cpu[t]
    BY <2>1, OldIs
  <2>3. g \in L!Heap /\ runner[g] = NONE
    BY <2>1 DEF ListInv, Lists, Marked, L!TypeOK
  <2>4. regs[g] = entry_point[g] /\ \A u \in Threads : entry_point[g] # cpu[u]
    BY <2>1, <2>3 DEF ListInv, Stands, Executed
  <2>5. L!Heap' = L!Heap
    BY <2>1 DEF L!Heap
  <2>6. \A u \in Threads \ {t} : cpu[u] # cpu[t]
    BY DEF ListInv, Flows
  <2>7. g \in Idle
    BY <1>2, <2>3, <2>4 DEF Idle
  <2> QED  BY <1>1, <1>2, <2>1, <2>2, <2>3, <2>4, <2>5, <2>6, <2>7, Switches
<1> QED
  BY <1>3, <1>4, <1>5, <1>6, <1>7, <1>8 DEF L!Next, L!Handler, Scheduler!Next

\* A walk that starts in the list comes to the caller's entry.
LEMMA ListReached == ListInv => L!EntryReached
<1> SUFFICES ASSUME ListInv, NEW t \in Threads, pc[t] = "ioctl"
             PROVE  L!Finds(t, Process[t]) \/ (L!Freed(iter[t]) /\ iter[t] # Process[t])
  BY DEF L!EntryReached
<1> USE Names DEF ListInv
<1>1. Lista_Processi \in Seq(Processes)
  BY DEF L!TypeOK
<1>2. L!Listed(Process[t]) /\ iter[t] \in Processes
  BY DEF Started, Opened
<1>3. CASE L!Listed(iter[t])
  <2>1. L!Rest(iter[t]) <= L!Rest(Process[t])
    BY <1>1, <1>2, <1>3, RestIs DEF Started
  <2> QED  BY <1>2, <1>3, <2>1 DEF L!Finds
<1>4. CASE ~L!Listed(iter[t])
  BY <1>2, <1>4 DEF L!Freed
<1> QED  BY <1>3, <1>4
-----------------------------------------------------------------------------
(* Whichever version the machine runs.                                     *)

Inv == /\ version = "list" => ListInv
       /\ version = "trylock" => TryInv

LEMMA Inductive == Spec => []Inv
<1>1. Init => Inv
  BY ListInit, TryInit DEF Init, Inv
<1>2. Inv /\ [Next]_vars => Inv'
  <2> SUFFICES ASSUME Inv, [Next]_vars PROVE Inv'
    OBVIOUS
  <2>1. CASE Next
    <3>1. version' = version
      BY <2>1 DEF Next
    <3>2. version = "list" => ListInv'
      BY <2>1, ListNext DEF Next, Inv
    <3>3. version = "trylock" => TryInv'
      BY <2>1, TryNext DEF Next, Inv
    <3> QED  BY <3>1, <3>2, <3>3 DEF Inv
  <2>2. CASE UNCHANGED vars
    <3>1. /\ UNCHANGED <<version, Lista_Processi, lock_lista_processi, file, lista_fiber,
                         len_fiber_stuff, iter, lock_fiber, old, new>>
          /\ UNCHANGED <<runner, running, regs, entry_point, fls, cpu, pc>>
      BY <2>2 DEF vars, listVars, trylockVars
    <3>2. L!Heap' = L!Heap /\ T!Heap' = T!Heap /\ T!Known' = T!Known
      BY <3>1 DEF L!Heap, T!Heap, T!Known
    <3>3. ListInv => ListInv'
      <4> SUFFICES ASSUME ListInv PROVE ListInv'
        OBVIOUS
      <4>1. (Unused /\ Stands /\ Marked /\ Executed /\ Flows /\ Lists /\ OwnStorage)'
        BY <3>1, FiberFrame DEF ListInv
      <4>2. Opened' /\ \A t \in Threads : Started(t)'
        BY <3>1, ProcFrame DEF ListInv
      <4>3. L!TypeOK'
        BY <3>1 DEF ListInv, L!TypeOK
      <4> QED  BY <4>1, <4>2, <4>3 DEF ListInv
    <3>4. TryInv => TryInv'
      <4> SUFFICES ASSUME TryInv PROVE TryInv'
        OBVIOUS
      <4>1. T!TypeOK' /\ Unborn' /\ Entries' /\ OwnStorage'
        BY <3>1, <3>2 DEF TryInv, T!TypeOK, Unborn, Entries, OwnStorage
      <4>2. \A f, t : Embodies(f, t)' <=> Embodies(f, t)
        BY <3>1, <3>2 DEF Embodies
      <4>3. Origin' /\ \A t \in Threads : LocksOf(t)'
        BY <3>1, <3>2, <4>2 DEF TryInv, Origin, LocksOf, T!Converted
      <4>4. \A t \in Threads : Locals(t)'
        BY <3>1, <3>2, <4>2 DEF TryInv, Locals
      <4>5. T!MarksTrue' /\ T!NoneLost'
        BY <3>1, <3>2 DEF TryInv, T!MarksTrue, T!NoneLost
      <4> QED  BY <4>1, <4>3, <4>4, <4>5 DEF TryInv
    <3> QED  BY <3>1, <3>3, <3>4 DEF Inv
  <2> QED  BY <2>1, <2>2
<1> QED  BY <1>1, <1>2, PTL DEF Spec

\* Every variable of either version keeps its type.
THEOREM TypeCorrect == Spec => []TypeOK
<1>1. Inv => TypeOK
  BY DEF Inv, ListInv, TryInv, TypeOK
<1> QED  BY <1>1, Inductive, PTL

\* A fiber finds in its storage what its own flow put there, in both versions.
THEOREM StorageKept == Spec => []OwnStorage
<1>1. Init => version \in {"list", "trylock"}
  BY DEF Init
<1>2. version \in {"list", "trylock"} /\ [Next]_vars => (version \in {"list", "trylock"})'
  BY DEF Next, vars
<1>3. Inv /\ version \in {"list", "trylock"} => OwnStorage
  BY DEF Inv, ListInv, TryInv
<1> QED  BY <1>1, <1>2, <1>3, Inductive, PTL DEF Spec

\* In the list version, a walk from a stale head of the list still comes to
\* the caller's own entry, unless the entry it starts from has been freed.
THEOREM EntryFound == Spec => []EntryReached
<1>1. Inv => EntryReached
  BY ListReached DEF Inv, EntryReached
<1> QED  BY <1>1, Inductive, PTL

\* With try-locks, every call returns with the lock of the fiber its thread
\* runs, and no other.
THEOREM LocksBalanced == Spec => []HoldsItsFiber
<1>1. Inv => HoldsItsFiber
  <2> SUFFICES ASSUME TryInv, NEW t \in Threads, pc[t] = "user"
               PROVE  {f \in Fibers : lock_fiber[f] = t} = {f \in T!Heap : entry_point[f] = cpu[t]}
    BY DEF Inv, HoldsItsFiber, T!HoldsItsFiber
  <2>1. \A f \in Fibers : lock_fiber[f] = t <=> Embodies(f, t)
    BY DEF TryInv, LocksOf, T!ConvertPcs
  <2> QED  BY <2>1 DEF Embodies, T!Heap
<1> QED  BY <1>1, Inductive, PTL

\* With try-locks, a fiber nobody runs does not stay marked as running, but
\* for the thread that is about to clear the mark.
THEOREM NoFiberLost == Spec => []NoneLost
<1>1. Inv => NoneLost
  BY DEF Inv, TryInv, NoneLost
<1> QED  BY <1>1, Inductive, PTL

\* With try-locks, the mark the storage calls go by names the thread that runs
\* the fiber, or that is just leaving it.
THEOREM MarksNeverLie == Spec => []MarksTrue
<1>1. Inv => MarksTrue
  BY DEF Inv, TryInv, MarksTrue
<1> QED  BY <1>1, Inductive, PTL

\* Both versions implement the abstract scheduler: under the one lock each
\* handler is one step of it; with try-locks, the exchange of the registers is.
THEOREM Implements == Spec => ImplementsScheduler
<1>1. Init => Scheduler!Init
  <2> SUFFICES ASSUME Init PROVE Scheduler!Init
    OBVIOUS
  <2>1. \A f \in Fibers : entry_point[f] = NONE
    BY DEF Init, L!Init
  <2>2. Exist = {} /\ \A t \in Threads : Runs(t) = NONE
    BY <2>1 DEF Exist, Runs, L!Heap, T!Heap, T!Known, L!Runs, T!Runs
  <2>3. cpu = [t \in Threads |-> t]
    BY DEF Init, L!Init
  <2> QED  BY <2>2, <2>3 DEF Scheduler!Init, Context
<1>2. version \in {"list", "trylock"} /\ Inv /\ Inv' /\ [Next]_vars => [Scheduler!Next]_(Scheduler!vars)
  <2> SUFFICES ASSUME version \in {"list", "trylock"}, Inv, Inv', [Next]_vars
               PROVE  Scheduler!Next \/ UNCHANGED Scheduler!vars
    OBVIOUS
  <2>1. version' = version
    BY DEF Next, vars
  <2>2. CASE version = "list"
    <3>1. ListInv /\ ListInv'
      BY <2>1, <2>2 DEF Inv
    <3>2. CASE Next
      BY <2>1, <2>2, <3>1, <3>2, ListRefines DEF Next
    <3>3. CASE UNCHANGED vars
      <4>1. Faithful /\ Faithful'
        <5>1. (version = "list")'
          BY <2>1, <2>2
        <5> QED  BY <2>2, <3>1, <5>1, ListFaithful, PTL
      <4>2. Exist' = Exist /\ UNCHANGED <<cpu, entry_point>>
        BY <3>3 DEF vars, Exist, L!Heap, T!Heap, T!Known, trylockVars
      <4> QED  BY <4>1, <4>2, Stutters
    <3> QED  BY <3>2, <3>3
  <2>3. CASE version = "trylock"
    <3>1. TryInv /\ TryInv'
      BY <2>1, <2>3 DEF Inv
    <3>2. CASE Next
      BY <2>1, <2>3, <3>1, <3>2, TryRefines DEF Next
    <3>3. CASE UNCHANGED vars
      <4>1. Faithful /\ Faithful'
        <5>1. (version = "trylock")'
          BY <2>1, <2>3
        <5> QED  BY <2>3, <3>1, <5>1, TryFaithful, PTL
      <4>2. Exist' = Exist /\ UNCHANGED <<cpu, entry_point>>
        BY <3>3 DEF vars, Exist, L!Heap, T!Heap, T!Known, trylockVars
      <4> QED  BY <4>1, <4>2, Stutters
    <3> QED  BY <3>2, <3>3
  <2> QED  BY <2>2, <2>3
<1>3. Init => version \in {"list", "trylock"}
  BY DEF Init
<1>4. version \in {"list", "trylock"} /\ [Next]_vars => (version \in {"list", "trylock"})'
  BY DEF Next, vars
<1> QED
  BY <1>1, <1>2, <1>3, <1>4, Inductive, PTL DEF Spec, ImplementsScheduler, Scheduler!Spec
=============================================================================
