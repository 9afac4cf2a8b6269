# Fibers in the kernel: a TLA+ model of `linux_fibers`

The repository is a Linux kernel module that gives a process Windows-like fibers
(`ConvertThreadToFiber`, `CreateFiber`, `SwitchToFiber`, fiber-local storage) and
shows them under `/proc`, a user library over its ioctls, and a test bed that
simulates GSM cells, one per fiber. This directory states what the code promises,
models how it does it, checks the models with TLC and proves the central facts
with TLAPS. The kernel code modelled in most detail is the final module,
`src/SviluppoHashTable/Module/Fiber.c` (called `Fiber.c` below); of the earlier
versions in `src/`, the two with a locking of their own are modelled too.

## 1. Inventory

| Part | State it keeps | Operations | Modelled in |
|---|---|---|---|
| Fiber switching, `Fiber.c` 706-1001 | per process: hash tables of threads and fibers, `last_fib_id`, the `/proc` names; per fiber: `id`, `regs`, `selected_thread`, `lock_fiber`; per thread: `runner` | `fib_convert`, `fib_create`, `fib_switch_to` | `FiberScheduler`, `FiberSwitch` (all but the statistics) |
| Fiber-local storage, `Fiber.c` 1006-1227 | per fiber: `fls[128]`, `bitmap_fls[128]` | `flsAlloc`, `flsFree`, `flsGetValue`, `flsSetValue` | `FlsStore`, `FiberFls` |
| Device lifecycle, `Fiber.c` 394-512 | the table `processi` of processes | `fib_open`, `fib_release` | `FiberDevice` |
| `/proc` entries, `Fiber.c` 109-315, 514-580 | one global `new_tgid_base_stuff`, link counts | kprobe handlers, `myread` | `FiberDevice` (the walks, tables and links; not the text) |
| Statistics, `Fiber.c` 744, 928-968 | activation counters, running time | part of convert and switch | not modelled |
| User library, `Fiber_library/` | none but the open device | one wrapper per ioctl | `FiberDevice` (open and close); the rest is the calls of the other models |
| Calendar queue, `2018-fibers/src/calqueue.c` | an array of sorted buckets, its width, a position | `calqueue_init`, `_put`, `_get` (and their resizes) | `CalQueue` |
| GSM cell, `model.c`, `channel.c` | counters, channel bits, a doubly linked list of channels, its events | INIT, START_CALL, END_CALL | `GsmCell` (times and powers left out) |
| Test bed, `main.c`, `thread.c` | the table of fibers, `completed_fibers` | start-up, `schedule`, SIGALRM, the end of `main_loop` | `UserFibers` (the body of `main_loop` is in `GsmCell`) |
| User-level threads, `ult.c`, `ult.h`, `jmp.S` | `running` flags, saved contexts, `current` per thread | `ult_convert`, `ult_creat`, `ult_switch_to` | `UserFibers` |
| First kernel module, `Sviluppo/` | lists under one spin lock | as the final module, and a probe on `do_exit` | `ListKernel` |
| Second hash-table module, `SviluppoHashTable2/` | no table lock; a lock per fiber, held while it runs | as the final module | `TrylockKernel` (convert, create, switch, FLS) |

How they interact. A process opens `/dev/fibers`; each thread converts itself and
then issues ioctls, several threads at once on several processors. The handlers
share the tables of their process without a lock (RCU lists) and protect the
contents of a fiber by `lock_fiber`. A switch replaces the user registers of the
calling thread, so the ioctl returns in another flow of control. FLS calls act on
the fiber the calling thread runs and take the same lock. `/proc` readers and
`fib_release` of other processes walk the same tables. In the test bed every
fiber runs `main_loop` on its own cell, found through FLS; the cell's events come
from its own calendar queue; threads switch between fibers at random.

What is hard about it, and what makes each part correct:

* *Switching.* Two threads may want one fiber, a thread may want a fiber that is
  just being left, two creations may race, two switches may want each other's
  fiber. A fiber must never run twice, a flow of control must never be lost,
  resumed twice or served the data of another fiber, a refused switch must leave
  everything unlocked, and every call should return.
* *FLS.* A value must be the fiber's own whatever thread it runs on; the slot
  search has a full case.
* *Calendar queue.* Events must come out in time order, and survive resizes that
  dequeue, re-insert and copy them with part of the machinery switched off.
* *GSM cell.* One channel in use is recorded in four places that every event has
  to keep together.
* *Lifecycle and `/proc`.* Entries are freed while others walk to them, with
  nothing to exclude it; the chains must stay whole, and a call must keep the
  entry it works on.
* *User-level threads.* A switch may be interrupted, at any instruction, by a
  handler that switches too, and resumed on another thread.
* *Earlier modules.* Pointers read before a lock is granted; marks that are
  cleared after the lock that protects them has been given up.

`PROJECT.json` lists each hazard at its line with the properties that cover it.

## 2. Modules

    FiberScheduler   what the scheduling interface promises      (abstract)
        |                                          -> FiberSchedulerProofs
        ^ refined by
        |-- FiberSwitch     the ioctl handlers, step by step
        |                                          -> FiberSwitchProofs
        |-- EarlierKernels  ListKernel or TrylockKernel, whichever is loaded
        |                                          -> EarlierKernelsProofs
        `-- UserFibers      the user-level threads under the test bed's program
                                                   -> UserFibersProofs

    FiberDevice      the device file, its table of processes and /proc:
                     whether a call of FiberSwitch finds its process at all
                                                   -> FiberDeviceProofs

    FiberFls         the FLS handlers on their arrays in the slab; FiberSwitch
        | refines    (Exclusive) justifies that a call is one step here
        v                                          -> FiberFlsProofs
    FlsStore         what fiber-local storage promises           (abstract)

    CalQueue         the calendar queue of the test bed
        |                                          -> CalQueueProofs
        | Conserved: every event put is got once, in some order
        v is the queue assumed by
    GsmCell          one cell, the work of one fiber             -> GsmCellProofs
        | NeverAborts: the work of a fiber is not cut short
        v is the work assumed by
    UserFibers

`-> X` names the module of the theorems (section 4). `XxxMC` modules hold the
values that a `.cfg` cannot write.

### FiberScheduler
Fibers, which one each thread runs, and contexts. A *context* is a flow of control
and how far it has got; a flow is named by where it started (a thread, or a
fiber's entry point). `Adopt`, `NewFiber` and `SwitchTo` are the three calls, each
one step; `Advance` is the user code running, and every call that is refused.

### FiberSwitch
The variables are the fields of `struct Process`, `struct Thread` and `struct
Fiber`, the user context of each processor (`cpu`) and the locals of the handler it
runs (`pc`, `old`, `new`, `tmp`, `want`, `ret`). A step is what one processor does
between two points where another can interfere: one racy load or store
(`last_fib_id`, `len_fiber_stuff`, the head of a hash chain), one lock
acquisition, or one stretch under the locks that protect it.

* `CallConvert`, `CallCreate` allocate and fill the fiber; `LoadId` ... `Publish` are
  the rest of `do_fib_create` with the publication in the hash table.
* `CallSwitch`, `LockOld`, `WalkPast`, `WalkMatch`, `LockNew` then `SwitchRefused` or
  `SaveOld`, `LoadNew`, and `UnlockOld`, `SyncDone`. The loop over the bucket has no
  `break`: after a switch it goes on with the rest of the chain, and so does the
  model. The exchange under both locks is two steps, so that what is visible
  between them is checked.
* `CallFls`, `LockFls`, `UnlockFls` are the lock and grace-period skeleton of the
  FLS calls, which contend for the same locks.

`synchronize_rcu` is called *inside* `rcu_read_lock`. The module is built for a
kernel without preemptible RCU (Debian 4.9), where a task that blocks there counts
as quiescent: a grace period of `t` waits for the sections of the other threads
(`grace[t]`). With preemptible RCU the call would wait for itself; that is the
mutant `StartGraceOfAll`. The table of threads is modelled by the set of
converted threads and `runner`: collisions in its chains and the statistics are
left out.

### FiberDevice
The hash chains with `next` and `pprev`, the state of each entry's memory (`mem`), the
open files with the processes that hold them, and for each ioctl, release and
`/proc` reader the pointer its walk has reached. `fib_open` and `hash_add` are the
load and the store of `hash_add_rcu`; `ReleaseLook`, `ReleaseFree`, `ReleaseNext` the
walk of `fib_release` with its saved next pointer; `Probe` ... `ProbeEnd` a kprobe
handler with the post handler that follows it. Processes may share a bucket, and a
walk may be on an entry that another process has freed: it goes on with the links
the entry had, for an entry is not allocated again. An ioctl that works on a freed
entry is recorded in `touched`. No lock orders two updates of a chain. An update
lasts from the load of a link to the store that depends on it (`Updating`); when a
store falls into the update of another process, `clashed` records it, for from there
on the chain may have lost an entry or hold a freed one. Opening and closing are the constructor and destructor of
`Fiber_interface.c`; fork, exec, death and a reused id are the kernel's part. An
exec keeps the descriptor (the library opens without `O_CLOEXEC`) and opens again.
The probe on `do_exit` of this version is compiled but not registered, and is
left out.

### EarlierKernels: ListKernel, TrylockKernel
`EarlierKernels` runs one of two modules over the variables they share. In
`ListKernel` a handler is two steps: the head of the list is read, and, when the
lock is granted, everything else; only the exit probe, which takes no lock, walks
entry by entry. In `TrylockKernel` every store of `fib_switch_to` that others can see
is a step. Both show one FLS slot per fiber, marked with the flow that used it
last: `OwnStorage` says that storage and flow never part. A walk into freed memory
(`Stray`, `WalkExit`, `UseNames`) and a missing mark (`oops`) end the thread concerned;
that they happen is what the code does, and the properties hold beside them.
`TrylockKernel` assumes a program that converts each thread once, creates one fiber
at a time and uses ids it was given.

### UserFibers
A continuation is a flow, how far its function has got, and the handler and switch
frames above it; so an interrupted switch, saved, resumed elsewhere and returned
from, is just a longer continuation. `Pick` and `Alarm` are the tries of
`ult_trylock` that succeed, `SetCurrent`, `Leave`, `Jump` the rest of `ult_switch_to`, and
`HandlerReturn` the return into what an alarm interrupted. `schedule` leaves the
handler by a jump, so SIGALRM stays blocked in the thread until an interrupted
flow returns there: how deep frames nest follows from that, and needs no bound.
An alarm may come anywhere, except, unless `AlarmInSwitch`, where `ult_switch_to`
cannot bear it (`Unsafe`): after `current = to`, in the switch of a worker once it
holds a lock, and in the few instructions of a handler's return.

### FiberFls, FlsStore
Arrays are slots of slab memory, any slots, and an index one past an end reaches the
word of the neighbour, because that is what `index == -1` does in the code, and
because no handler tests an index (`InRange` is true of each). One call is one step:
only the thread running a fiber reaches its arrays, and no fiber runs on two threads
(theorem `Exclusion`). `FlsStore` is the store per fiber, with the edge that the code
gives it: a call on an index out of range, or for a slot when none is free, may
change one word at the end of some array (`Spill`), which may be a bit or a value of
any fiber. The answer of a call names its fiber, so that a fiber served the value of
another would not pass for that other.

### CalQueue
`q` is the `struct calqueue`. `put` and `deq` are the C functions with every call
they make: sampling (`new_width`) dequeues and re-inserts with `resize_enabled`
off, `resize` copies the buckets from the last to the first. Priorities are whole
numbers of units, bucket widths exact fractions and `buckettop` a number of half
widths, so that every comparison of the code is decided exactly; rounding of
doubles is not modelled. The width can become 0 or 0/0 (`num = 0`), which the
model follows, and negative, where the C code leaves its array and the model
stops (`astray`); division and remainder truncate towards 0 as in C (`Virtual`,
`StartBucket`), so that `lastbucket` is negative there. `got` is
the cell's time: the next event is scheduled after it. The loops (`PutAll`, `Drained`,
`SumOf`, `Copied`) are recursive functions of the number of rounds done.

Copying runs with `resize_enabled` set, but the model's `Copied` inserts and does not
resize: `FitsAfterOne` says why no insertion of it could start a second resize.
Crowding is decided against `MAXNBUCKETS`, which `CalQueueAssumption` takes to be a
power of two, as it is in `calqueue.h`: buckets double from two up to it exactly.

### GsmCell
`ProcessEvent` with `allocation` and `deallocation`, pointer by pointer. `starts`
and `ends` count the events in the queue. The queue may return any of them:
`CalQueue` promises that no event is lost, and not that they come in order. Times,
powers and call rates do not influence the control and are left out, and so are
failures of `malloc`, after which the program exits.

## 3. Runs

| Run | Question | Result |
|---|---|---|
| `switch_serial` | With one creation at a time, does every switch do what it reports? | exclusion, locks inside their sections, flow integrity, sound table, truthful results, ids wrapping included; the lock-by-lock exchange implements the atomic one, and with it one home per flow |
| `switch_returns` | Does every call return when two threads never want two fibers of each other? | it does |
| `switch_deadlock` | Does every call return? | **no**: two opposite switches block each other |
| `switch_clash` | Does a thread always run the flow of its own fiber? | **no** when creations race |
| `fls` | Is the kernel's FLS the store it promises to be? | yes, wherever the slab puts the arrays, but for one word at the end of a neighbour that an index out of range (or the -1 of a full bitmap) reaches |
| `calqueue` | Do resizes keep every event, in its place? Is one resize enough? When is the order right, and when may a width be negative? | nothing is lost, and no resize leads to another; order is right from an aligned position, which lasts until a direct search; a width sampled from there without one is not negative |
| `calqueue_earliest` | Is the order right after a direct search? | **no**: 3.0, 3.7, 4.2 come out as 3.0, 4.2, 3.7 |
| `gsm_cell` | Do the four records of a channel agree? | yes, and no `abort` is reachable |
| `kernels` | Do the earlier modules keep the promises of the interface? | yes: one flow per fiber, its own storage; stale list heads still lead to the caller's entry, and with try-locks no fiber stays marked as running while its lock is free |
| `ult` | Do the user-level threads, and does the program over them end? | yes, if no alarm hits the end of a switch |
| `ult_alarm` | What if one does? | **no**: a thread gets back to an abandoned worker |
| `device` | What survives open, release, fork, exec and death against each other and the readers of `/proc`? | until two updates of one chain overlap: whole chains, safe calls, no entry outliving its file but through a fork; and link counts restored after a lone read |

The four violations are the findings of `PROJECT.json`, each with the text of the
repository it contradicts. The one of the calendar queue happens in the C code with
the doubles given there.

### Bounds, and why they are enough
* Two threads suffice for every pairwise race of the handlers: each takes at most
  two locks, and no step depends on the number of others. Three fibers give both
  of them a fiber and a third to fight for.
* `MaxId` is 2 in `switch_serial`, so the third creation wraps
  `last_fib_id`; `Buckets` and `Bucket` put all fibers in one chain, or in two.
* `PosMax` is 1 where stale contexts must be told from fresh ones, else 0.
* `Shared` is the set of ids a thread may use for fibers it did not create (it may
  always use those it created): all of them, except in `switch_returns`, where it
  is the environment assumption "at most one fiber is wanted by both".
* `SerialCreate = TRUE` is an environment assumption too: the user program does
  not run two creations at once. `switch_clash` shows why it is needed. Section 4
  says which theorems need it and which do not (`Exclusive`, `LocksInside`).
* FLS: two slots instead of 128, two fibers with two arrays each, the four arrays
  side by side in every order, with an unrelated object at both ends of the row.
  Calls pass the last index and those next to either end; index 0 is given by
  `flsAlloc`, read by its scan and reached from the array before.
* Calendar queue: half units; gaps of half a first width and of three and a half,
  which is more than a year of two buckets; up to nine events in two, four and
  eight buckets, so that both doublings (the second samples five of nine events)
  and the halving happen. `MaxPrio` bounds time. Samples of ten events and more,
  and calendars of more than eight buckets, are reached by the theorems only.
* Earlier modules: two threads of one process, which also read `/proc` and end, and
  one of another that opens and closes; three fibers. One other process is enough
  to make a list head stale and to free it.
* User-level threads: two threads, hence the three fibers `main.c` asks for at least:
  every fiber may be wanted by both, and one is always waiting.
* Device: two processes in one bucket, the second of two, so that every walk of a
  release passes an empty one; two files, so that a process can have two entries or
  inherit one, and two readers. `MaxRare` bounds forks,
  execs and reused ids, two in a run without overlapping reads and none in one with
  them; `MaxLinks` bounds the links that overlapping probes leave behind. Overlapping
  updates do happen in the run, and without `~clashed` `ChainsSound` fails in it:
  hash chains without a writer's lock do not survive two writers.
* GSM cell: four channels give a list with a head, two middles and an end; twelve
  arrivals and five completions let channels be reused and calls be blocked.

`CHECK_DEADLOCK FALSE` is set where the system may really stop: two opposite
switches block each other (`FiberSwitch`), the program exits on an empty queue or
the bound on time is reached (`CalQueue`), a cell ends after its calls
(`GsmCell`), threads die or lose their way in freed memory (`EarlierKernels`), and a
process may do nothing more (`FiberDevice`). `ult` checks deadlock: the program
spins at its end, waiting threads spin, but none may be stuck for ever before.
`ult_alarm` looks for one counterexample only.

### Fairness
`FairSpec` of `FiberSwitch`: weak fairness of each processor's steps inside a
handler (kernel code between two locks is not stopped), and strong fairness of
each lock acquisition, because the queued spin locks of the kernel serve waiters
in order. User code owes nothing: no call is ever required to be made.

`FairSpec` of `UserFibers`: weak fairness of each thread's steps (a processor runs its
thread); strong fairness of the work of a flow on a thread, for an alarm that
moves the flow away lets it go on elsewhere from where it was; and strong fairness
of the picks of each fiber: `random()` among the fibers, called for ever, returns
each of them again and again. No alarm need ever come, so `AllDone` does not lean
on them: fiber 1 spins on its thread, and the others are done by the rest.

## 4. Proofs

Every theorem is of the form `Spec => []Inv` (or `Spec => ` an action property or a
refinement) and holds for every value of the constants that its module's named
assumptions, and the hypotheses stated below, allow. The argument is always an
inductive invariant, checked by TLC on a run before it was proved, and one lemma
per action that says the invariant survives it; temporal steps only combine them.

### FiberSwitch, whatever the program does (`FiberSwitchProofs`)
For any sets of threads and fibers, any bucket function, any `MaxId` and `PosMax`, and
racing creations:

* `TypeCorrect`: `TypeOK`, with the extra fact that a handler's cursor is a fiber
  wherever it is dereferenced.
* `Exclusion`: no fiber runs on two threads. `Exclusive` is not inductive: that the
  target's mark is empty shows nobody runs it only because every running thread's
  fiber carries its mark (`Marked`), because the mark is only changed with the lock
  held (`Held`), because the lock is held only inside the stretch that releases it
  (`LocksInside`), and because a fiber under creation is known to its creator
  alone (`Private`, `HeapRefs`, `RunnerOK`). `IInv` is their conjunction; one lemma
  per conjunct shows that every step keeps it.
* `LockDiscipline`: `LocksInside`, from the same invariant.

### FiberSwitch in an orderly process (`FiberSwitchProofs`, second part)
`Orderly` is the hypothesis: one creation at a time (`SerialCreate`) and no more fibers
than ids (`Fibers` finite, at most `MaxId + 1` of them). Neither can go: `switch_clash`
is what two creations do, and a wrapped counter that meets a living id makes two
fibers answer to it. Under it:

* `MarksMeanRuns`, `FlowsKept`, `ReportsTrue`, `TableHolds`: `MarkedIsRun`, `FlowIntegrity`,
  `SwitchReports`, `TableSound`. The invariant `SInv` adds to `IInv` what the racing
  creations destroy: ids are pairwise distinct (`IdsOK`), the table lists each
  published fiber once in the bucket of its id (`TableOK`), a handler that walks has
  not passed its target (`WalksOK`), and every context is where its flow will be
  resumed (`FlowsOK`).
* `Implements`: the refinement of `FiberScheduler`. `Publish` is the creation, and
  `SaveOld`, the first store of the exchange, is the whole of it: from there to
  `LoadNew` the thread is mapped to the context it is about to load, which nobody
  else can touch because its fiber is locked. Calls advance the caller's flow;
  everything else stutters.
* `OneHomeKept`: `OneHomePerFlow`, inherited through the refinement from
  `FiberSchedulerProofs.OneHome`, which proves it of the abstract scheduler for any
  threads and fibers.

### The earlier modules (`EarlierKernelsProofs`)
For any processes, threads and fibers, in one theorem for both versions:
`TypeCorrect`, `StorageKept` (`OwnStorage`), `EntryFound` (`EntryReached`), `LocksBalanced`
(`HoldsItsFiber`), `NoFiberLost` (`NoneLost`), `MarksNeverLie` (`MarksTrue`) and `Implements`.

* `ListKernel`: under the one lock a handler is one step, so the invariant (`ListInv`)
  is about the list head a thread has read before it waited: new entries come in
  front of it, and entries that leave belong to processes that have ended, so the
  caller's own entry stays behind it. That the walk from there reaches it is shown
  with ranks along the list.
* `TrylockKernel`: the invariant (`TryInv`) says, for each point of the handler, which
  of the two fibers the thread embodies and which locks it holds; the exchange of
  the registers (`Swap`) is the abstract step.
* Both refinements are the same argument (`Faithful`): the fibers that exist, the flow
  each stands for and the flow each thread executes determine the abstract state.

### User-level threads (`UserFibersProofs`)
Under `AlarmInSwitch = FALSE`; `ult_alarm` is what happens otherwise. For any number of
workers and fibers, and frames nested as deep as they come:

* `Implements`, `CountHolds` (`CountTrue`), `WorkersAbandoned` (`NobodyGetsBack`) and
  `TypeCorrect`.
* The invariant (`UInv`) speaks of the continuation of a fiber wherever it is
  (`Cont`: on a processor, or in its context). It is sound (`Sound`: it goes on with
  its own flow, and only its last frame can have written `current`); whoever runs a
  fiber holds its lock, alone (`Runners`); and each switch not yet finished, at any
  depth of any stack, holds the lock of a target that nobody runs and no other
  switch wants (`Pending`). The last is what makes it safe to be interrupted between
  the try-lock and `current = to`, and to be resumed on another thread. Nothing but
  waiting happens before all fibers exist (`Begun`), and the count is that of the
  fibers whose continuation is not at its end (`Counted`).
* `Leave` is the abstract switch: set_jmp has saved the fiber and it is unlocked.

### Fiber-local storage (`FiberFlsProofs`)
`TypeCorrect`, and `Implements`: the arrays implement the store, for any number of
fibers and slots and any layout of the slab, with no hypothesis. The invariant
(`StoreInv`) is that no slot of the slab is given twice. A store to a word is then
one to a bit of one fiber, to a value of one fiber, or to none (`BitStored`,
`ValueStored`), and what an index out of range reaches is the first or last word of
its slot (`StraySpills`): the `Spill` of the store.

### The device (`FiberDeviceProofs`)
For any processes, files and readers:

* `LinksPutBack` (`LinksRestored`) and `TypeCorrect`, whatever the buckets. A directory
  has at least as many extra links as there are reads of it whose post handler may
  take one back (`LinksOK`), and, until two probes have overlapped, the one probe at
  work has made the last table and owns the only link (`Alone`).
* `CallsStaySafe` (`CallsSafe`), `ChainsHold` (`ChainsSound`) and `ReleaseComplete`
  (`GoneWithItsFile`), whatever the buckets too: until two updates of one chain have
  overlapped (`clashed`), the chains survive every interleaving of opens, releases and
  walks. The invariant (`DInv`) has a part that always holds: who holds what (`Life`: a
  process closes only on its way out, a release runs in a process that has closed
  and is in no call, and an unshared file is its opener's alone); that links and
  cursors lead to entries once added (`Pointers`) and away from the heads (`Ordered`),
  freed entries included, so that no walk goes round. The rest (`Tidy`) holds until a
  clash: the links of the chains agree (`Sound`), nothing is left behind (`NoneLeft`),
  and the walks are where they should be (`Walks`). That part is what freed entries
  make hard: a cursor may stand on an entry that another process has just freed. A
  walk from there is described by the sets of entries closed under `next` that it
  stays in (`From`): what it meets of its own process is not freed (`Clean`), and a
  release meets all that is left of its own (`Meets`). An update keeps both, for it
  moves links only past the entry that it frees or adds.

### The GSM cell (`GsmCellProofs`)
For any number of channels and calls and any order of events:

* `CellTypes`, `ChannelAgreement` and `CallAccounting` (`CallsAddUp`: every call that
  arrived was blocked, is over or holds a channel), from the types, the two
  properties themselves and the phase of the cell (`PhaseOK`: an INIT cell is
  empty, a running one is short of its calls; `BlockedOK`). The size of the set of
  busy channels is followed with the theorems on finite cardinalities.
* `ListHolds` (`WellLinked`) and `AbortsNever` (`NeverAborts`). The list needs ranks
  that fall along its links (`ListInv`): they make the walk of `deallocation` meet the node it looks for, whatever the length.

Where a walk is a recursive function, what it computes is followed without an
induction rule, which the provers cannot instantiate: a set of naturals that is
not empty has a least element (lemma `Least`), so a walk that failed would have a
first step at which it does.

### The calendar queue (`CalQueueProofs`)
For any unit, gaps, bounds and `MaxBuckets` a power of two, and so for calendars and
samples of sizes TLC does not reach (more than eight buckets, ten samples and more):

* `TypeCorrect` (`lastbucket` is a bucket until a width is negative, and a remainder
  of either sign after), `AlwaysPlaced` (`Placed`), `ResizedOnce` (`FitsAfterOne`), `AlwaysAligned`
  (`AlignedUntilMiss`), and of steps `NothingLost` (`Conserved`), `GetsTheEarliest`
  (`EarliestFromAligned`) and `StraysOnlyByMissing` (`StraysByMissing`).
* The invariant (`IInv`) adds to the properties that the number of buckets is one
  that doubling from two reaches, and the position inside them (`InShape`); that
  the time of the simulation is the queue's last priority (`InTime`), without which
  the next event might be scheduled before the position of the scan; and that the
  width is not negative and scans start in the bucket of the last event (`InQueue`).
  `AlignedUntilMiss` is not inductive without the last: `buckettop` and `lastbucket` have
  to belong to the same virtual bucket for the scan to find what is due.
* Loops. `LoopExists` says that a recursive function over `0..n` whose step keeps a
  family of sets has a value in each of them; put, drain, sum and copy are instances.
  A loop invariant is then a set, and no induction rule is needed.
* Counting. "No event is lost" is a statement about the number of positions
  (`Count`) whose event is in any set of priorities: an insertion adds one to it
  (`GrownCount`, a bijection of the positions), and a bucket copied adds those of the
  bucket (`LateIs`). Sampling takes some and puts them back; copying starts at none.
* The scan. From a right position no pending event is in an earlier virtual bucket
  than the scan, and two virtual buckets of one bucket are a multiple of the year
  apart (`ModApart`), so the first hit is in the scan's own year (`HitIs`) and nothing
  is before it (`PlaceFirst`). Samples got by the scan alone therefore come in order
  (`SamplesRise`), and the mean of their separations is not negative (`WidthUp`).

The proof found one thing in the model that no run could: `Virtual` divided by the
negative width of a calendar gone astray, which TLA+ leaves undefined. It now
truncates, as the C conversion does.

### What stays with TLC
* Liveness, `CallsReturn` and `AllDone`: fairness and `ENABLED` are out of the prover's
  reach. Every other property of a passing run is stated by a theorem.
* The violations: a theorem says what holds, and `calqueue_earliest`, `switch_clash`,
  `switch_deadlock` and `ult_alarm` show behaviours.
* The use of freed memory by the walks of releases and readers is not excluded by any
  theorem, because the code does it; what is excluded is that an ioctl works on a
  freed entry (`touched`) before two updates of a chain have overlapped (`clashed`).

## 5. Not modelled, and the plan

Not modelled for good: copying of ioctl arguments, module insertion, the statistics
(a clock's arithmetic that nothing else depends on), floating-point values of the
simulation, memory that is overrun (the tables of names, the user stacks), generated
and built files, the first prototypes, the first hash-table version (the final
module before its last corrections) and the interactive tests.

Known and recorded as hazards rather than as runs: `flsAlloc` on a full fiber sets
the word before its bitmap (`Fiber.c` 1044), which may be another fiber's value or
bit (`FlsStore` admits it as `Spill`); what a chain of `FiberDevice` comes to after two
updates have overlapped; and what the calendar queue does after a resize whose samples came out of order,
which makes the bucket width negative (`calqueue.c` 102), is not followed:
`StraysByMissing` says when it can happen.

What is left is models: the open and release of the second hash-table module;
creations that race in it; entries of `FiberDevice` that are allocated again.
