----------------------------- MODULE FiberSwitch -----------------------------
(***************************************************************************)
(* The scheduling core of the kernel module: ConvertThreadToFiber,         *)
(* CreateFiber and SwitchToFiber as the ioctl handlers run them, for the   *)
(* threads of one process on as many processors, together with the lock    *)
(* and grace-period steps of the FLS calls, which contend for the same     *)
(* fiber locks.                                                            *)
(*                                                                         *)
(* A step is what one processor does to shared memory between two points   *)
(* where another processor can interfere: one racy load or store, one lock *)
(* acquisition, or one stretch run under the locks that protect it.        *)
(*                                                                         *)
(* Left out: the statistics of a fiber (never read by these handlers), the *)
(* FLS data (module FiberFls), and collisions in the table of threads.     *)
(***************************************************************************)
EXTENDS Integers

CONSTANTS
  Threads,       \* threads of the process
  Fibers,        \* fiber objects kzalloc can return; bounds the creations
  NONE,          \* the null pointer
  PosMax,        \* progress of a flow is counted modulo PosMax + 1
  MaxId,         \* pid_t: ids are 0..MaxId and wrap
  Buckets,       \* buckets of listafiber
  Bucket,        \* Bucket[i]: the bucket of id i
  Shared,        \* ids a thread may target though it did not create the fiber
  SerialCreate   \* TRUE: the process never runs two creations at a time

ASSUME SwitchAssumption ==
  /\ NONE \notin Threads /\ NONE \notin Fibers
  /\ Threads \cap Fibers = {}
  /\ PosMax \in Nat /\ MaxId \in Nat \ {0}
  /\ Bucket \in [0..MaxId -> Buckets]
  /\ Shared \subseteq 0..MaxId
  /\ SerialCreate \in BOOLEAN

Ids      == 0..MaxId
Flows    == Threads \cup Fibers
Contexts == [flow : Flows, pos : 0..PosMax]

VARIABLES
  \* struct Process
  threads,       \* threads with a struct Thread in listathread
  head, next,    \* the hlists of listafiber: head[b], next[f]
  last_fib_id,
  names, len,    \* fiber_base_stuff (the ids in its names), len_fiber_stuff
  \* struct Thread
  runner,
  \* struct Fiber
  heap,          \* the objects allocated so far
  id, creator, entry_point, selected_thread, lock_fiber, regs,
  \* each processor: the user context, and the locals of the handler it runs
  cpu, pc, old, new, tmp, want, ret,
  grace          \* grace[t]: read sections synchronize_rcu still waits for

procVars  == <<threads, head, next, last_fib_id, names, len>>
attrVars  == <<id, creator, entry_point>>
fiberVars == <<heap, id, creator, entry_point, selected_thread, lock_fiber, regs>>
localVars == <<pc, old, new, tmp, want, ret, grace>>
vars == <<procVars, runner, fiberVars, cpu, localVars>>

CreatePcs == {"loadId", "storeId", "loadLen", "storeLen", "link", "publish"}
SwitchPcs == {"lockOld", "walk", "lockNew", "decide", "load"}
FlsPcs    == {"lockFls", "unlockFls"}
Pcs       == {"user", "sync"} \cup CreatePcs \cup SwitchPcs \cup FlsPcs

Creating(t)  == pc[t] \in CreatePcs
Published    == heap \ {new[t] : t \in {u \in Threads : Creating(u)}}
\* Mutant of Converting: CreateFiber does what the conversion does.
ConvertingAlways(t) == t \in Threads

\* A conversion rather than a creation: the fiber continues the thread's flow.
Converting(t) == entry_point[new[t]] = t

Init ==
  /\ threads = {} /\ heap = {} /\ last_fib_id = 0 /\ names = {} /\ len = 0
  /\ head = [b \in Buckets |-> NONE]
  /\ next = [f \in Fibers |-> NONE]
  /\ runner = [t \in Threads |-> NONE]
  /\ id = [f \in Fibers |-> 0]
  /\ creator = [f \in Fibers |-> NONE]
  /\ entry_point = [f \in Fibers |-> NONE]
  /\ selected_thread = [f \in Fibers |-> NONE]
  /\ lock_fiber = [f \in Fibers |-> NONE]
  /\ regs = [f \in Fibers |-> [flow |-> f, pos |-> 0]]
  /\ cpu = [t \in Threads |-> [flow |-> t, pos |-> 0]]
  /\ pc = [t \in Threads |-> "user"]
  /\ old = [t \in Threads |-> NONE]
  /\ new = [t \in Threads |-> NONE]
  /\ tmp = [t \in Threads |-> 0]
  /\ want = [t \in Threads |-> 0]
  /\ ret = [t \in Threads |-> -1]
  /\ grace = [t \in Threads |-> {}]
-----------------------------------------------------------------------------
Goto(t, l) == pc' = [pc EXCEPT ![t] = l]
Step(p)    == IF p = PosMax THEN 0 ELSE p + 1
Enter(t)   == cpu' = [cpu EXCEPT ![t].pos = Step(@)]

\* Mutant of Lock: the result of a try-lock is ignored.
LockUnheeded(t, f) == lock_fiber' = [lock_fiber EXCEPT ![f] = t]
\* Mutant of Unlock: it is forgotten.
UnlockForgotten(f) == f \in Fibers /\ lock_fiber' = lock_fiber

\* spin_lock waits while another thread holds the lock.
Lock(t, f) == lock_fiber[f] = NONE /\ lock_fiber' = [lock_fiber EXCEPT ![f] = t]
Unlock(f)  == lock_fiber' = [lock_fiber EXCEPT ![f] = NONE]

\* Thread t leaves its read section: no grace period waits for it any more.
LeaveSection(t) == grace' = [u \in Threads |-> grace[u] \ {t}]

InSection(t) == pc[t] \notin {"user", "sync"}

\* Mutant of StartGrace: a preemptible grace period waits for t's own section.
StartGraceOfAll(t) ==
  grace' = [u \in Threads |->
              IF u = t THEN {w \in Threads : InSection(w)} ELSE grace[u] \ {t}]

\* synchronize_rcu by t: a new grace period covers the read sections open now;
\* t itself blocks, which the grace periods of the others count as quiescent.
StartGrace(t) ==
  grace' = [u \in Threads |->
              IF u = t THEN {w \in Threads \ {t} : InSection(w)}
                       ELSE grace[u] \ {t}]
-----------------------------------------------------------------------------
(* ConvertThreadToFiber and CreateFiber.                                   *)

\* kzalloc and the initialisation of a fiber nobody else can see yet.
Allocate(t, f, flow, context) ==
  /\ f \in Fibers \ heap
  /\ SerialCreate => \A u \in Threads : ~Creating(u)
  /\ heap' = heap \cup {f}
  /\ creator' = [creator EXCEPT ![f] = t]
  /\ entry_point' = [entry_point EXCEPT ![f] = flow]
  /\ regs' = [regs EXCEPT ![f] = context]
  /\ new' = [new EXCEPT ![t] = f]
  /\ Goto(t, "loadId")
  /\ UNCHANGED <<head, next, last_fib_id, names, len, runner, id,
                 selected_thread, lock_fiber, old, tmp, want, ret, grace>>

\* A thread that is a fiber already gets -1 and nothing else happens.
CallConvertAgain(t) ==
  /\ pc[t] = "user" /\ t \in threads
  /\ Enter(t)
  /\ UNCHANGED <<procVars, runner, fiberVars, localVars>>

\* The registers saved are those of the call: the flow of t at its new position.
CallConvert(t, f) ==
  /\ pc[t] = "user" /\ t \notin threads
  /\ Enter(t)
  /\ threads' = threads \cup {t}
  /\ Allocate(t, f, t, cpu'[t])

\* Mutant of CallCreate: do_fib_create is passed flag 0, so that the new fiber
\* keeps the registers of its creator.
CallCreateUnset(t, f) ==
  /\ pc[t] = "user"
  /\ Enter(t)
  /\ threads' = threads
  /\ Allocate(t, f, f, cpu'[t])

CallCreate(t, f) ==
  /\ pc[t] = "user"
  /\ Enter(t)
  /\ threads' = threads
  /\ Allocate(t, f, f, [flow |-> f, pos |-> 0])

\* last_fib_id += 1; id = last_fib_id: a load and a store, no lock held.
LoadId(t) ==
  /\ pc[t] = "loadId"
  /\ tmp' = [tmp EXCEPT ![t] = last_fib_id]
  /\ Goto(t, "storeId")
  /\ UNCHANGED <<procVars, runner, fiberVars, cpu, old, new, want, ret, grace>>

\* Mutants of NextId: no wrap at the width of pid_t; no increment.
NextIdUnbounded(i) == i + 1
NextIdConstant(i) == i

NextId(i) == IF i = MaxId THEN 0 ELSE i + 1

StoreId(t) ==
  /\ pc[t] = "storeId"
  /\ last_fib_id' = NextId(tmp[t])
  /\ id' = [id EXCEPT ![new[t]] = NextId(tmp[t])]
  /\ Goto(t, "loadLen")
  /\ UNCHANGED <<threads, head, next, names, len, runner, heap, creator,
                 entry_point, selected_thread, lock_fiber, regs, cpu,
                 old, new, tmp, want, ret, grace>>

\* i = len_fiber_stuff; fiber_base_stuff[i] = entry; len_fiber_stuff = i + 1.
LoadLen(t) ==
  /\ pc[t] = "loadLen"
  /\ tmp' = [tmp EXCEPT ![t] = len]
  /\ names' = {n \in names : n[1] # len} \cup {<<len, id[new[t]]>>}
  /\ Goto(t, "storeLen")
  /\ UNCHANGED <<threads, head, next, last_fib_id, len, runner, fiberVars,
                 cpu, old, new, want, ret, grace>>

StoreLen(t) ==
  /\ pc[t] = "storeLen"
  /\ len' = tmp[t] + 1
  /\ Goto(t, "link")
  /\ UNCHANGED <<threads, head, next, last_fib_id, names, runner, fiberVars,
                 cpu, old, new, tmp, want, ret, grace>>

\* A converted thread runs its fiber; hash_add_rcu then reads the bucket head.
Link(t) ==
  /\ pc[t] = "link"
  /\ next' = [next EXCEPT ![new[t]] = head[Bucket[id[new[t]]]]]
  /\ IF Converting(t)
       THEN /\ selected_thread' = [selected_thread EXCEPT ![new[t]] = t]
            /\ runner' = [runner EXCEPT ![t] = new[t]]
       ELSE UNCHANGED <<selected_thread, runner>>
  /\ Goto(t, "publish")
  /\ UNCHANGED <<threads, head, last_fib_id, names, len, heap, attrVars,
                 lock_fiber, regs, cpu, old, new, tmp, want, ret, grace>>

\* hash_add_rcu stores the bucket head and the call returns.
Publish(t) ==
  /\ pc[t] = "publish"
  /\ head' = [head EXCEPT ![Bucket[id[new[t]]]] = new[t]]
  /\ new' = [new EXCEPT ![t] = NONE]
  /\ tmp' = [tmp EXCEPT ![t] = 0]
  /\ Goto(t, "user")
  /\ LeaveSection(t)
  /\ UNCHANGED <<threads, next, last_fib_id, names, len, runner, fiberVars,
                 cpu, old, want, ret>>
-----------------------------------------------------------------------------
(* SwitchToFiber.                                                          *)

MayTarget(t, i) == i \in Shared \/ \E f \in heap : creator[f] = t /\ id[f] = i

\* A thread that was never converted gets -1 at once.
CallSwitch(t, i) ==
  /\ pc[t] = "user" /\ MayTarget(t, i)
  /\ Enter(t)
  /\ IF t \in threads
       THEN /\ old' = [old EXCEPT ![t] = runner[t]]
            /\ want' = [want EXCEPT ![t] = i]
            /\ Goto(t, "lockOld")
       ELSE UNCHANGED <<old, want, pc>>
  /\ UNCHANGED <<procVars, runner, fiberVars, new, tmp, ret, grace>>

\* The caller's fiber is locked; its own id is refused, else the walk begins.
LockOld(t) ==
  /\ pc[t] = "lockOld" /\ Lock(t, old[t])
  /\ new' = [new EXCEPT ![t] = IF id[old[t]] = want[t] THEN NONE
                                ELSE head[Bucket[want[t]]]]
  /\ Goto(t, "walk")
  /\ UNCHANGED <<procVars, runner, heap, attrVars, selected_thread, regs, cpu,
                 old, tmp, want, ret, grace>>

Matches(t) == id[new[t]] = want[t]

\* hash_for_each_possible_rcu passes over a fiber with another id.
WalkPast(t) ==
  /\ pc[t] = "walk" /\ new[t] # NONE /\ ~Matches(t)
  /\ new' = [new EXCEPT ![t] = next[new[t]]]
  /\ UNCHANGED <<procVars, runner, fiberVars, cpu, pc, old, tmp, want, ret, grace>>

WalkMatch(t) ==
  /\ pc[t] = "walk" /\ new[t] # NONE /\ Matches(t)
  /\ Goto(t, "lockNew")
  /\ UNCHANGED <<procVars, runner, fiberVars, cpu, old, new, tmp, want, ret, grace>>

LockNew(t) ==
  /\ pc[t] = "lockNew" /\ Lock(t, new[t])
  /\ Goto(t, "decide")
  /\ UNCHANGED <<procVars, runner, heap, attrVars, selected_thread, regs, cpu,
                 old, new, tmp, want, ret, grace>>

\* Both outcomes release the target and, there being no break, walk on.
ReleaseNew(t) ==
  /\ Unlock(new[t])
  /\ new' = [new EXCEPT ![t] = next[new[t]]]
  /\ Goto(t, "walk")
  /\ UNCHANGED <<procVars, heap, attrVars, old, tmp, want, grace>>

\* Mutant of Free: a running fiber is taken too.
FreeAlways(f) == f \in Fibers

Free(f) == selected_thread[f] = NONE

SwitchRefused(t) ==
  /\ pc[t] = "decide" /\ ~Free(new[t])
  /\ ret' = [ret EXCEPT ![t] = -1]
  /\ ReleaseNew(t)
  /\ UNCHANGED <<runner, selected_thread, regs, cpu>>

\* The caller's context is saved, and its fiber is nobody's ...
SaveOld(t) ==
  /\ pc[t] = "decide" /\ Free(new[t])
  /\ regs' = [regs EXCEPT ![old[t]] = cpu[t]]
  /\ selected_thread' = [selected_thread EXCEPT ![old[t]] = NONE]
  /\ Goto(t, "load")
  /\ UNCHANGED <<procVars, runner, heap, attrVars, lock_fiber, cpu,
                 old, new, tmp, want, ret, grace>>

\* Mutant of LoadNew: ret keeps its initial -1.
LoadNewUnreported(t) ==
  /\ pc[t] = "load"
  /\ cpu' = [cpu EXCEPT ![t] = regs[new[t]]]
  /\ selected_thread' = [selected_thread EXCEPT ![new[t]] = t]
  /\ runner' = [runner EXCEPT ![t] = new[t]]
  /\ ReleaseNew(t)
  /\ UNCHANGED <<regs, ret>>

\* ... and then the target's is loaded, both locks being held throughout.
LoadNew(t) ==
  /\ pc[t] = "load"
  /\ cpu' = [cpu EXCEPT ![t] = regs[new[t]]]
  /\ selected_thread' = [selected_thread EXCEPT ![new[t]] = t]
  /\ runner' = [runner EXCEPT ![t] = new[t]]
  /\ ret' = [ret EXCEPT ![t] = 0]
  /\ ReleaseNew(t)
  /\ UNCHANGED regs

UnlockOld(t) ==
  /\ pc[t] = "walk" /\ new[t] = NONE
  /\ Unlock(old[t])
  /\ StartGrace(t)
  /\ Goto(t, "sync")
  /\ UNCHANGED <<procVars, runner, heap, attrVars, selected_thread, regs, cpu,
                 old, new, tmp, want, ret>>

\* synchronize_rcu returns, and with it the call.
SyncDone(t) ==
  /\ pc[t] = "sync" /\ grace[t] = {}
  /\ Goto(t, "user")
  /\ old' = [old EXCEPT ![t] = NONE]
  /\ want' = [want EXCEPT ![t] = 0]
  /\ ret' = [ret EXCEPT ![t] = -1]
  /\ UNCHANGED <<procVars, runner, fiberVars, cpu, new, tmp, grace>>
-----------------------------------------------------------------------------
(* The FLS calls: alloc always locks the caller's fiber; free and set lock *)
(* it when the slot is in use, else go straight to synchronize_rcu.        *)

CallFls(t) ==
  /\ pc[t] = "user" /\ t \in threads
  /\ Enter(t)
  /\ \/ Goto(t, "lockFls") /\ UNCHANGED grace
     \/ Goto(t, "sync") /\ StartGrace(t)
  /\ UNCHANGED <<procVars, runner, fiberVars, old, new, tmp, want, ret>>

LockFls(t) ==
  /\ pc[t] = "lockFls" /\ Lock(t, runner[t])
  /\ Goto(t, "unlockFls")
  /\ UNCHANGED <<procVars, runner, heap, attrVars, selected_thread, regs, cpu,
                 old, new, tmp, want, ret, grace>>

UnlockFls(t) ==
  /\ pc[t] = "unlockFls"
  /\ Unlock(runner[t])
  /\ StartGrace(t)
  /\ Goto(t, "sync")
  /\ UNCHANGED <<procVars, runner, heap, attrVars, selected_thread, regs, cpu,
                 old, new, tmp, want, ret>>
-----------------------------------------------------------------------------
Call(t) ==
  \/ CallConvertAgain(t) \/ CallFls(t)
  \/ \E f \in Fibers : CallConvert(t, f) \/ CallCreate(t, f)
  \/ \E i \in Ids : CallSwitch(t, i)

Acquire(t) == LockOld(t) \/ LockNew(t) \/ LockFls(t)

Kernel(t) ==
  \/ LoadId(t) \/ StoreId(t) \/ LoadLen(t) \/ StoreLen(t) \/ Link(t) \/ Publish(t)
  \/ WalkPast(t) \/ WalkMatch(t) \/ SwitchRefused(t) \/ SaveOld(t) \/ LoadNew(t)
  \/ UnlockOld(t) \/ UnlockFls(t) \/ SyncDone(t)

Next == \E t \in Threads : Call(t) \/ Acquire(t) \/ Kernel(t)

Spec == Init /\ [][Next]_vars

\* A processor that can take a kernel step takes it; the queued spin locks of
\* the kernel serve the waiters in order, so a lock that keeps being released
\* is eventually acquired.  Nothing obliges a thread to make another call.
FairSpec ==
  /\ Spec
  /\ \A t \in Threads :
       /\ WF_vars(Kernel(t))
       /\ SF_vars(Acquire(t))
-----------------------------------------------------------------------------
(* Properties.                                                             *)

\* Every variable has its type (the state of the ioctl handlers of Fiber.c).
TypeOK ==
  /\ threads \subseteq Threads /\ heap \subseteq Fibers
  /\ head \in [Buckets -> Fibers \cup {NONE}]
  /\ next \in [Fibers -> Fibers \cup {NONE}]
  /\ last_fib_id \in Ids /\ len \in Nat /\ names \subseteq Nat \X Ids
  /\ runner \in [Threads -> Fibers \cup {NONE}]
  /\ id \in [Fibers -> Ids]
  /\ creator \in [Fibers -> Threads \cup {NONE}]
  /\ entry_point \in [Fibers -> Flows \cup {NONE}]
  /\ selected_thread \in [Fibers -> Threads \cup {NONE}]
  /\ lock_fiber \in [Fibers -> Threads \cup {NONE}]
  /\ regs \in [Fibers -> Contexts]
  /\ cpu \in [Threads -> Contexts]
  /\ pc \in [Threads -> Pcs]
  /\ old \in [Threads -> Fibers \cup {NONE}]
  /\ new \in [Threads -> Fibers \cup {NONE}]
  /\ tmp \in [Threads -> Nat]
  /\ want \in [Threads -> Ids]
  /\ ret \in [Threads -> {0, -1}]
  /\ grace \in [Threads -> SUBSET Threads]

\* No fiber is executed by two threads, whatever switches race for it and
\* even when ids collide (fib_switch_to's "Già running" test, made under the
\* lock of the target, against a mark its owner clears under the same lock).
Exclusive ==
  \A t, u \in Threads : runner[t] = runner[u] /\ runner[t] # NONE => t = u

\* A fiber's lock is held only by a thread in the stretch of a handler that
\* will release it: the caller's fiber through the whole walk, the target
\* while its fate is decided.  No call returns, or blocks in
\* synchronize_rcu, with a lock held.
LocksInside ==
  \A f \in Fibers, t \in Threads : lock_fiber[f] = t =>
    \/ pc[t] \in {"walk", "lockNew", "decide", "load"} /\ f = old[t]
    \/ pc[t] \in {"decide", "load"} /\ f = new[t]
    \/ pc[t] = "unlockFls" /\ f = runner[t]

\* A thread in user mode executes the flow of the fiber the kernel records as
\* its runner, the one whose FLS it is served: a fiber never gets the data of
\* another (the test bed's "which is impossible").
RunsOwnFlow ==
  \A t \in threads : pc[t] = "user" => cpu[t].flow = entry_point[runner[t]]

\* ... and a fiber that nobody runs keeps a context of its own flow.
FlowIntegrity ==
  /\ RunsOwnFlow
  /\ \A f \in Published : (\A t \in Threads : runner[t] # f) =>
       regs[f].flow = entry_point[f]

\* A fiber marked as running is run by that thread: none is left marked when
\* its thread has moved on, for no switch could ever reach it again.
MarkedIsRun ==
  \A f \in Published : selected_thread[f] # NONE => runner[selected_thread[f]] = f

\* What creation builds, seen between the steps of all the others: published
\* fibers have distinct ids, each is linked in the bucket of its id, and each
\* has its entry among the valid ones of the proc directory.
TableSound ==
  \A f \in Published :
    /\ \A g \in Published : id[f] = id[g] => f = g
    /\ \/ head[Bucket[id[f]]] = f
       \/ \E g \in Published : Bucket[id[g]] = Bucket[id[f]] /\ next[g] = f
    /\ \E n \in names : n[1] < len /\ n[2] = id[f]

\* The value a switch returns tells what it did: 0 means the caller now runs
\* the fiber of the id it asked for, -1 that it still runs the one it ran.
SwitchReports ==
  \A t \in Threads : pc[t] = "sync" /\ old[t] # NONE =>
    \/ ret[t] = 0  /\ id[runner[t]] = want[t]
    \/ ret[t] = -1 /\ runner[t] = old[t]

\* Every call into the module returns.
CallsReturn == \A t \in Threads : pc[t] # "user" ~> pc[t] = "user"

\* The kernel module implements the abstract scheduler: a fiber exists from
\* its publication, and the exchange of contexts, two steps under two locks,
\* happens for everyone else at once, when the caller's context is saved.
Runs(t) == IF Creating(t) /\ Converting(t) THEN NONE
           ELSE IF pc[t] = "load" THEN new[t] ELSE runner[t]
Scheduler == INSTANCE FiberScheduler WITH
  fibers  <- Published,
  running <- [t \in Threads |-> Runs(t)],
  saved   <- [f \in Published \ {Runs(t) : t \in Threads} |-> regs[f]],
  cpu     <- [t \in Threads |-> IF pc[t] = "load" THEN regs[new[t]] ELSE cpu[t]]
ImplementsScheduler == Scheduler!Spec

\* Seen through that mapping, no flow of control is lost or executed twice
\* (the registers fib_switch_to moves between cpu and fiber lock by lock).
OneHomePerFlow == Scheduler!OneHomePerFlow
=============================================================================
