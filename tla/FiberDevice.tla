----------------------------- MODULE FiberDevice -----------------------------
(***************************************************************************)
(* The life of the device file and of the table `processi' behind it       *)
(* (Module/Fiber.c): open adds an entry for the process, release frees the *)
(* entries of the process that drops the last reference, and the ioctls of *)
(* the process, myread and the kprobe handlers of everybody walk the table *)
(* meanwhile.  Nothing excludes anything here: rcu_read_lock delays only   *)
(* those who wait for a grace period, and nobody does.                     *)
(*                                                                         *)
(* Processes open the device as Fiber_interface.c does, in a constructor,  *)
(* and close it in a destructor; they may fork, exec, be killed, and their *)
(* ids be used again.  What the calls do to the fibers of an entry is left *)
(* out (FiberSwitch, FiberFls).  A freed entry keeps what it held and is   *)
(* not allocated again.                                                    *)
(***************************************************************************)
EXTENDS Integers, FiniteSets

CONSTANTS
  Processes,   \* process ids
  Files,       \* open files; the entry an open adds is named by its file
  Readers,     \* threads reading /proc
  Last,        \* the buckets of processi are 0..Last
  Bucket,      \* Bucket[p]: hash of the process id
  NONE,
  MaxLinks,    \* bounds the extra links of a /proc directory
  MaxRare      \* bounds the forks, execs and reused ids; reads overlap only
               \* where there is none of them

Buckets == 0..Last
ASSUME Names ==
  /\ IsFiniteSet(Files) /\ IsFiniteSet(Readers)
  /\ Last \in Nat /\ Bucket \in [Processes -> Buckets]
  /\ NONE \notin Files \cup Processes \cup Nat \cup {"read", "readdir", "lookup"}
  /\ MaxLinks \in Nat /\ MaxRare \in Nat

Arrays  == 0..(Cardinality(Readers) + 1)   \* tables of /proc entries in use at once

VARIABLES
  alive,       \* alive[p]: "free", "alive", "closing" or "dying"
  users,       \* users[f]: the processes with a descriptor of file f
  fd,          \* fd[p]: IFACE_FIBER_DEV of process p
  call,        \* call[p]: the ioctl of a thread of p: its file and its cursor
  release,     \* release[p]: the locals of fib_release in process p
  processi, next, pprev,   \* the hash chains: heads, and links of the entries
  id, mem,     \* id[f], mem[f]: of the entry of file f
  probe,       \* probe[r]: the read or the probe of thread r
  new_tgid_base_stuff,
  nlink,       \* nlink[p]: the links of /proc/p beyond those it has
  touched,     \* history: an ioctl has worked on a freed entry
  clashed,     \* history: two updates of one chain have overlapped
  disturbed,   \* history: see LinksRestored
  inherited,   \* history: the files a fork has shared
  rare         \* how many of the events that MaxRare bounds have happened
vars == <<alive, users, fd, call, release, processi, next, pprev, id, mem,
          probe, new_tgid_base_stuff, nlink, touched, clashed, disturbed, inherited, rare>>
procs   == <<alive, users, fd, inherited, rare>>
table   == <<processi, next, pprev, id, mem>>
proc_fs == <<probe, new_tgid_base_stuff, nlink, disturbed>>

NoCall    == [file |-> NONE, node |-> NONE]
NoRelease == [at |-> "idle", bucket |-> 0, node |-> NONE, tmp |-> NONE]
NoProbe   == [at |-> "idle", kind |-> NONE, pid |-> NONE, node |-> NONE, dx |-> NONE]

Init ==
  /\ alive = [p \in Processes |-> "alive"]
  /\ users = [f \in Files |-> {}]
  /\ fd = [p \in Processes |-> NONE]
  /\ call = [p \in Processes |-> NoCall]
  /\ release = [p \in Processes |-> NoRelease]
  /\ processi = [b \in Buckets |-> NONE]
  /\ next = [f \in Files |-> NONE] /\ pprev = [f \in Files |-> NONE]
  /\ id = [f \in Files |-> NONE] /\ mem = [f \in Files |-> "none"]
  /\ probe = [r \in Readers |-> NoProbe]
  /\ new_tgid_base_stuff = NONE
  /\ nlink = [p \in Processes |-> 0]
  /\ touched = FALSE /\ clashed = FALSE /\ disturbed = FALSE /\ inherited = {} /\ rare = 0
-----------------------------------------------------------------------------
Rare == rare < MaxRare /\ rare' = rare + 1
Free == {f \in Files : mem[f] = "none"}

(* A chain is updated without a lock, from the load of a link to the store *)
(* that depends on it: in an open from the load of the head, in a release  *)
(* from tmp on, which covers what hash_del_rcu loads and stores.           *)
Updating(q) == (fd[q] # NONE /\ mem[fd[q]] = "new") \/ release[q].at = "free"
Stores(p)   == clashed' = (clashed \/ \E q \in Processes \ {p} : Bucket[q] = Bucket[p] /\ Updating(q))

(* fib_open: kzalloc of the entry, then hash_add_rcu, whose store into the *)
(* head of the chain comes after the load of what was there.               *)
fib_open(p) ==
  /\ alive[p] = "alive" /\ fd[p] = NONE /\ Free # {}
  /\ LET f == CHOOSE g \in Free : TRUE IN
       /\ mem' = [mem EXCEPT ![f] = "new"]
       /\ id'  = [id EXCEPT ![f] = p]
       /\ next' = [next EXCEPT ![f] = processi[Bucket[p]]]
       /\ fd'  = [fd EXCEPT ![p] = f]
  /\ UNCHANGED <<alive, users, inherited, rare, call, release, processi, pprev, proc_fs, touched, clashed>>

hash_add(p) ==
  LET f == fd[p] IN
  /\ f # NONE /\ mem[f] = "new"
  /\ processi' = [processi EXCEPT ![Bucket[p]] = f]
  /\ pprev' = IF next[f] = NONE THEN pprev ELSE [pprev EXCEPT ![next[f]] = f]
  /\ mem'   = [mem EXCEPT ![f] = "kept"]
  /\ users' = [users EXCEPT ![f] = {p}]
  /\ Stores(p)
  /\ UNCHANGED <<alive, fd, inherited, rare, call, release, next, id, proc_fs, touched>>

(* Whoever drops the last reference to a file runs fib_release.            *)
Dropped(p, f, us, cs) ==
  LET first == [at |-> "walk", bucket |-> 0, node |-> processi[0], tmp |-> NONE]
  IN  release' = IF us = {} /\ \A q \in Processes : cs[q].file # f
                 THEN [release EXCEPT ![p] = first] ELSE release

\* close_fiberlib, in exit, while other threads may be in a call.
close_fiberlib(p) ==
  LET f == fd[p] IN
  /\ alive[p] = "alive" /\ f # NONE /\ mem[f] # "new" /\ release[p] = NoRelease
  /\ users' = [users EXCEPT ![f] = @ \ {p}]
  /\ fd' = [fd EXCEPT ![p] = NONE]
  /\ alive' = [alive EXCEPT ![p] = "closing"]
  /\ Dropped(p, f, users'[f], call)
  /\ UNCHANGED <<inherited, rare, call, table, proc_fs, touched, clashed>>

Fork(p, q) ==
  /\ alive[p] = "alive" /\ alive[q] = "free" /\ fd[p] # NONE /\ mem[fd[p]] # "new"
  /\ alive' = [alive EXCEPT ![q] = "alive"]
  /\ fd'    = [fd EXCEPT ![q] = fd[p]]
  /\ users' = [f \in Files |-> IF p \in users[f] THEN users[f] \cup {q} ELSE users[f]]
  /\ inherited' = inherited \cup {f \in Files : p \in users[f]}
  /\ Rare
  /\ UNCHANGED <<call, release, table, proc_fs, touched, clashed>>

\* The descriptor survives an exec, the library's variable does not.
Exec(p) ==
  /\ alive[p] = "alive" /\ call[p] = NoCall /\ release[p] = NoRelease
  /\ fd[p] # NONE /\ mem[fd[p]] # "new"
  /\ fd' = [fd EXCEPT ![p] = NONE]
  /\ Rare
  /\ UNCHANGED <<alive, users, inherited, call, release, table, proc_fs, touched, clashed>>

Kill(p) ==
  /\ \/ alive[p] = "alive" /\ \E f \in Files : p \in users[f]
     \/ alive[p] = "closing"
  /\ call[p] = NoCall /\ release[p] = NoRelease
  /\ fd[p] # NONE => mem[fd[p]] # "new"
  /\ alive' = [alive EXCEPT ![p] = "dying"]
  /\ fd' = [fd EXCEPT ![p] = NONE]
  /\ UNCHANGED <<users, inherited, rare, call, release, table, proc_fs, touched, clashed>>

Exit(p) ==
  /\ alive[p] = "dying" /\ release[p] = NoRelease
  /\ \/ \E f \in Files :
          /\ p \in users[f]
          /\ users' = [users EXCEPT ![f] = @ \ {p}]
          /\ Dropped(p, f, users'[f], call)
          /\ UNCHANGED alive
     \/ /\ \A f \in Files : p \notin users[f]
        /\ alive' = [alive EXCEPT ![p] = "free"]
        /\ UNCHANGED <<users, release>>
  /\ UNCHANGED <<fd, inherited, rare, call, table, proc_fs, touched, clashed>>

\* The id is given to a process that has nothing to do with fibers.
Spawn(p) ==
  /\ alive[p] = "free"
  /\ alive' = [alive EXCEPT ![p] = "alive"]
  /\ Rare
  /\ UNCHANGED <<users, fd, inherited, call, release, table, proc_fs, touched, clashed>>
-----------------------------------------------------------------------------
(* fib_release walks every chain with a saved next pointer, and frees the  *)
(* entries whose id is current->tgid as it goes.                           *)
\* Mutant of Mine: the id is not looked at.
MineAll(p, n) == TRUE

Mine(p, n) == id[n] = p

ReleaseLook(p) ==
  LET w == release[p] IN
  /\ w.at = "walk" /\ w.node # NONE
  /\ release' = [release EXCEPT ![p] =
       IF Mine(p, w.node) THEN [w EXCEPT !.at = "free", !.tmp = next[w.node]]
       ELSE [w EXCEPT !.node = next[w.node]]]
  /\ UNCHANGED <<procs, call, table, proc_fs, touched, clashed>>

\* Mutant of ReleaseFree: the entry is freed but not taken off its chain.
ReleaseFreeLinked(p) ==
  LET w == release[p] IN
  /\ w.at = "free"
  /\ mem' = [mem EXCEPT ![w.node] = "freed"]
  /\ release' = [release EXCEPT ![p] = [w EXCEPT !.at = "walk", !.node = w.tmp, !.tmp = NONE]]
  /\ UNCHANGED <<procs, call, processi, next, pprev, id, proc_fs, touched, clashed>>

ReleaseFree(p) ==
  LET w == release[p]  n == w.node  b == Bucket[id[n]]
      before == {f \in Files : f = pprev[n]}  after == {f \in Files : f = next[n]} IN
  /\ w.at = "free"
  /\ processi' = IF before = {} THEN [processi EXCEPT ![b] = next[n]] ELSE processi
  /\ next'  = [f \in Files |-> IF f \in before THEN next[n] ELSE next[f]]
  /\ pprev' = [f \in Files |-> IF f \in after THEN pprev[n] ELSE pprev[f]]
  /\ mem'   = [mem EXCEPT ![n] = "freed"]
  /\ release' = [release EXCEPT ![p] = [w EXCEPT !.at = "walk", !.node = w.tmp, !.tmp = NONE]]
  /\ Stores(p)
  /\ UNCHANGED <<procs, call, id, proc_fs, touched>>

\* Mutant of ReleaseNext: the last bucket is not walked.
ReleaseNextShort(p) ==
  LET w == release[p] IN
  /\ w.at = "walk" /\ w.node = NONE
  /\ release' = [release EXCEPT ![p] =
       IF w.bucket + 1 >= Last THEN NoRelease
       ELSE [w EXCEPT !.bucket = @ + 1, !.node = processi[w.bucket + 1]]]
  /\ UNCHANGED <<procs, call, table, proc_fs, touched, clashed>>

ReleaseNext(p) ==
  LET w == release[p] IN
  /\ w.at = "walk" /\ w.node = NONE
  /\ release' = [release EXCEPT ![p] =
       IF w.bucket = Last THEN NoRelease
       ELSE [w EXCEPT !.bucket = @ + 1, !.node = processi[w.bucket + 1]]]
  /\ UNCHANGED <<procs, call, table, proc_fs, touched, clashed>>

(* fib_ioctl: the file is held for the time of the call; every handler     *)
(* walks the chain of its process to the end, whatever it has found.       *)
fib_ioctl(p) ==
  /\ alive[p] = "alive" /\ call[p] = NoCall
  /\ fd[p] # NONE /\ p \in users[fd[p]]
  /\ call' = [call EXCEPT ![p] = [file |-> fd[p], node |-> processi[Bucket[p]]]]
  /\ UNCHANGED <<procs, release, table, proc_fs, touched, clashed>>

CallStep(p) ==
  /\ call[p].node # NONE
  /\ call' = [call EXCEPT ![p].node = next[@]]
  /\ touched' = (touched \/ (id[call[p].node] = p /\ mem[call[p].node] = "freed"))
  /\ UNCHANGED <<procs, release, table, proc_fs, clashed>>

CallReturn(p) ==
  /\ call[p] # NoCall /\ call[p].node = NONE /\ release[p] = NoRelease
  /\ call' = [call EXCEPT ![p] = NoCall]
  /\ Dropped(p, call[p].file, users[call[p].file], call')
  /\ UNCHANGED <<procs, table, proc_fs, touched, clashed>>
-----------------------------------------------------------------------------
(* myread, and the kprobe handlers of proc_pident_readdir and _lookup for  *)
(* the directory of a process ("readdir", "lookup") or of its fibers, which *)
(* like myread only look at the entry ("read").  The walk of an empty      *)
(* chain changes nothing and is left out.                                  *)
Busy == {r \in Readers : probe[r].at # "idle"}

Probe(r, kind, p) ==
  /\ probe[r] = NoProbe /\ nlink[p] < MaxLinks /\ processi[Bucket[p]] # NONE
  /\ probe' = [probe EXCEPT ![r] = [at |-> "walk", kind |-> kind, pid |-> p,
                                    node |-> processi[Bucket[p]], dx |-> NONE]]
  /\ disturbed' = (disturbed \/ (kind # "read" /\ \E s \in Busy : probe[s].kind # "read"))
  /\ IF Busy = {} THEN UNCHANGED rare ELSE rare = 0 /\ rare' = MaxRare
  /\ UNCHANGED <<alive, users, fd, inherited, call, release, table,
                 new_tgid_base_stuff, nlink, touched, clashed>>

\* An entry of another process, or nothing to splice.
ProbePass(r) ==
  LET w == probe[r] IN
  /\ w.at = "walk" /\ w.node # NONE /\ (id[w.node] # w.pid \/ w.kind = "read")
  /\ probe' = [probe EXCEPT ![r].node = next[@]]
  /\ UNCHANGED <<procs, call, release, table, new_tgid_base_stuff, nlink, disturbed, touched, clashed>>

\* Pre_Handler_*: the new table is allocated; the pointer to it is global.
Unused == Arrays \ ({new_tgid_base_stuff} \cup {probe[r].dx : r \in Readers})

ProbeAlloc(r) ==
  LET w == probe[r] IN
  /\ w.at = "walk" /\ w.node # NONE /\ id[w.node] = w.pid /\ w.kind # "read"
  /\ new_tgid_base_stuff' = CHOOSE a \in Unused : TRUE
  /\ probe' = [probe EXCEPT ![r].at = "splice"]
  /\ disturbed' = (disturbed \/ w.dx # NONE)
  /\ UNCHANGED <<procs, call, release, table, nlink, touched, clashed>>

\* inc_nlink of a directory that is read, and the table handed to the kernel.
ProbeSplice(r) ==
  LET w == probe[r] IN
  /\ w.at = "splice"
  /\ nlink' = [nlink EXCEPT ![w.pid] = IF w.kind = "readdir" THEN @ + 1 ELSE @]
  /\ probe' = [probe EXCEPT ![r] = [w EXCEPT !.at = "walk", !.node = next[@],
                                             !.dx = new_tgid_base_stuff]]
  /\ UNCHANGED <<procs, call, release, table, new_tgid_base_stuff, disturbed, touched, clashed>>

\* Mutant of Undoes: lookups put a link back too, as readdir does.
UndoesLookup(w) == w.dx # NONE /\ w.dx = new_tgid_base_stuff

\* Mutant of Undoes: there is no post handler.
UndoesNever(w) == FALSE

\* Post_Handler_*: the link is put back if the table is still the last one made.
Undoes(w) == w.kind = "readdir" /\ w.dx # NONE /\ w.dx = new_tgid_base_stuff

ProbeEnd(r) ==
  LET w == probe[r] IN
  /\ w.at = "walk" /\ w.node = NONE
  /\ nlink' = [nlink EXCEPT ![w.pid] = IF Undoes(w) THEN @ - 1 ELSE @]
  /\ probe' = [probe EXCEPT ![r] = NoProbe]
  /\ UNCHANGED <<procs, call, release, table, new_tgid_base_stuff, disturbed, touched, clashed>>

Act(p) ==
  \/ hash_add(p) \/ Exit(p)
  \/ ReleaseLook(p) \/ ReleaseFree(p) \/ ReleaseNext(p)
  \/ CallStep(p) \/ CallReturn(p)
Look(r) == ProbePass(r) \/ ProbeAlloc(r) \/ ProbeSplice(r) \/ ProbeEnd(r)

Next ==
  \/ \E p \in Processes :
       \/ Act(p)
       \/ fib_open(p) \/ close_fiberlib(p) \/ fib_ioctl(p)
       \/ Exec(p) \/ Kill(p) \/ Spawn(p)
       \/ \E q \in Processes : Fork(p, q)
  \/ \E r \in Readers :
       \/ Look(r)
       \/ \E p \in Processes, kind \in {"read", "readdir", "lookup"} : Probe(r, kind, p)

Spec == Init /\ [][Next]_vars
-----------------------------------------------------------------------------
Node == Files \cup {NONE}

\* Every variable has its type, and no link is taken from a directory that
\* was not lent to it: drop_nlink only ever undoes an inc_nlink.
TypeOK ==
  /\ alive \in [Processes -> {"free", "alive", "closing", "dying"}]
  /\ users \in [Files -> SUBSET Processes] /\ fd \in [Processes -> Node]
  /\ call \in [Processes -> [file : Node, node : Node]]
  /\ release \in [Processes -> [at : {"idle", "walk", "free"}, bucket : Buckets,
                                node : Node, tmp : Node]]
  /\ processi \in [Buckets -> Node] /\ next \in [Files -> Node] /\ pprev \in [Files -> Node]
  /\ id \in [Files -> Processes \cup {NONE}]
  /\ mem \in [Files -> {"none", "new", "kept", "freed"}]
  /\ probe \in [Readers -> [at : {"idle", "walk", "splice"}, pid : Processes \cup {NONE},
                            kind : {"read", "readdir", "lookup", NONE}, node : Node,
                            dx : Arrays \cup {NONE}]]
  /\ new_tgid_base_stuff \in Arrays \cup {NONE}
  /\ nlink \in [Processes -> Nat]
  /\ touched \in BOOLEAN /\ clashed \in BOOLEAN
  /\ disturbed \in BOOLEAN /\ inherited \subseteq Files
  /\ rare \in 0..MaxRare

\* No ioctl works on a freed entry, though releases of other processes free
\* theirs under its walk: the open file keeps the entry of its opener unless a
\* fork shares the file, and a walk of the chain meets no older one of its id.
CallsSafe ==
  /\ ~clashed => ~touched
  /\ \A p \in Processes :
       call[p] # NoCall /\ call[p].file \notin inherited => mem[call[p].file] = "kept"

\* As long as no two updates of a chain overlap, for want of the lock that the
\* code does without, the chains hold exactly the entries that have been added
\* and not freed, each in the bucket of its id, the back links fit, and no entry
\* is freed twice: whatever walks and releases of several processes go on in one
\* bucket, some of them on entries that others have freed.
Reach(b) == {f \in Files : \A S \in SUBSET Files :
               /\ processi[b] # NONE => processi[b] \in S
               /\ \A g \in S : next[g] # NONE => next[g] \in S
               => f \in S}
ChainsSound ==
  ~clashed =>
    /\ \A b \in Buckets : Reach(b) = {f \in Files : mem[f] = "kept" /\ Bucket[id[f]] = b}
    /\ \A f, g \in Files :
         mem[f] = "kept" /\ mem[g] = "kept" => (next[f] = g <=> pprev[g] = f)
    /\ \A p \in Processes : release[p].at = "free" => mem[release[p].node] = "kept"

\* fib_release ("Rilasciare processo da struttura") leaves nothing behind, though
\* the entries its saved pointers lead to may be freed by others: an entry
\* outlives its file only when a fork has shared the file, so that another
\* process dropped the last reference to it, or updates of its chain overlapped.
GoneWithItsFile ==
  ~clashed =>
    \A f \in Files :
      mem[f] = "kept" /\ f \notin inherited
        => \/ users[f] # {} \/ \E p \in Processes : call[p].file = f
           \/ release[id[f]] # NoRelease

\* The link counts of /proc are back where they were when nothing is being
\* read, unless two probes have overlapped or one has met two entries of an id.
LinksRestored ==
  ~disturbed /\ Busy = {} => \A p \in Processes : nlink[p] = 0
=============================================================================
