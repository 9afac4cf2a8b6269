------------------------------ MODULE CalQueue ------------------------------
(***************************************************************************)
(* The calendar queue of the test bed: each fiber keeps its pending events *)
(* in one, and the simulation takes them from it as if in time order.      *)
(*                                                                         *)
(* Arithmetic is exact, where the code has doubles.  A priority is a       *)
(* number of units, Unit of them to 1.0; the width of a bucket is the      *)
(* fraction num / den; buckettop, always a whole number of half widths, is *)
(* that number (top).  A width that is 0 or not a number (num = 0) sends   *)
(* every priority to bucket 0 and makes every comparison with buckettop    *)
(* false, as the conversions of x86-64 do.  A negative width makes bucket  *)
(* numbers negative, lastbucket among them (C's % truncates), so the code  *)
(* works outside its array: the model records it (astray) and stops.  The two halves of calq[] that resize    *)
(* alternates between never overlap and are not told apart, and a payload  *)
(* is known by its priority alone.                                         *)
(***************************************************************************)
EXTENDS Integers, Sequences, FiniteSets, SequencesExt

CONSTANTS
  Unit,        \* units per 1.0
  Gaps,        \* an event is scheduled one of these after the last one got
  MaxBuckets,  \* MAXNBUCKETS, a power of two
  MaxPrio,     \* bound on the priorities
  MaxSize      \* bound on the events in the queue

ASSUME CalQueueAssumption ==
  /\ Unit \in Nat \ {0} /\ MaxPrio \in Nat /\ MaxSize \in Nat
  /\ MaxBuckets \in Nat \ {0, 1}
  /\ \A d, m \in 1..MaxBuckets : d > 1 /\ d * m = MaxBuckets => d % 2 = 0
  /\ Gaps \subseteq Nat

VARIABLES
  q,        \* the struct calqueue
  got,      \* the priority of the last event got: the time of the simulation
  missed    \* history: some get fell back on the direct search
vars == <<q, got, missed>>

Buckets(c) == 0..(c.nbuckets - 1)

\* The virtual bucket of a priority: (long)(priority / cwidth), truncated.
Virtual(p, num, den) ==
  CASE num > 0 -> (p * den) \div num
    [] num = 0 -> 0
    [] OTHER   -> -((p * den) \div (-num))

\* Mutant of Before: buckettop is a bucket late.
BeforeNext(c, p, t) == 2 * p * c.den < (t + 2) * c.num

\* p < buckettop, for a buckettop of t half widths.
Before(c, p, t) == 2 * p * c.den < t * c.num

\* Mutant of StartBucket: n % q->nbuckets is forgotten.
StartUnwrapped(n, v) == v

\* Where dequeueing begins in a calendar of n buckets: C's remainder has the
\* sign of v, so it is outside the calendar for most negative v.
StartBucket(n, v) == IF v >= 0 THEN v % n ELSE -((-v) % n)

\* An empty calendar of n buckets of width num / den, starting at priority p.
localinit(n, num, den, p) ==
  [calendar   |-> [i \in 0..(n - 1) |-> <<>>],
   nbuckets   |-> n,
   qsize      |-> 0,
   num        |-> num,
   den        |-> den,
   lastprio   |-> p,
   lastbucket |-> StartBucket(n, Virtual(p, num, den)),
   top        |-> 2 * Virtual(p, num, den) + 3,
   astray     |-> num < 0]

Init ==
  /\ q = localinit(2, Unit, 1, 0)
  /\ got = 0
  /\ missed = FALSE
-----------------------------------------------------------------------------
\* calqueue_put and calqueue_deq while resize_enabled is false.

\* Mutant of Sorted: a new event goes to the end of its bucket.
Appended(s, p) == Append(s, p)

\* How many events of a bucket the walk passes: up to the first later than p.
Passed(s, p) ==
  CHOOSE k \in 0..Len(s) :
    /\ \A j \in 1..k : s[j] <= p
    /\ k < Len(s) => s[k + 1] > p

\* The bucket with p in its place.
Sorted(s, p) == InsertAt(s, Passed(s, p) + 1, p)

Enqueue(c, p) ==
  [c EXCEPT !.calendar[Virtual(p, c.num, c.den) % c.nbuckets] = Sorted(@, p),
            !.qsize = @ + 1]

\* The queue after the events of s have been put, one by one.
PutAll(c, s) ==
  LET f[k \in 0..Len(s)] == IF k = 0 THEN c ELSE Enqueue(f[k - 1], s[k])
  IN  f[Len(s)]

\* The steps of the scan, from lastbucket on, that find an event due.
Hits(c) ==
  {d \in Buckets(c) :
     LET s == c.calendar[(c.lastbucket + d) % c.nbuckets]
     IN  s # <<>> /\ Before(c, Head(s), c.top + 2 * d)}

\* Mutant of Scanned: buckettop does not move with the scan.
ScannedStill(c) ==
  LET d == Min(Hits(c))
  IN  [bucket |-> (c.lastbucket + d) % c.nbuckets, top |-> c.top]

\* The scan's event comes from the first hit, and buckettop has moved with it.
Scanned(c) ==
  LET d == Min(Hits(c))
  IN  [bucket |-> (c.lastbucket + d) % c.nbuckets, top |-> c.top + 2 * d]

\* Mutant of Searched: the first bucket that is not empty is taken.
SearchedFirst(c) ==
  [bucket |-> Min({i \in Buckets(c) : c.calendar[i] # <<>>}), top |-> c.top]

\* The direct search takes the first bucket with the lowest head; buckettop
\* stays where the scan left it, one year on.
Searched(c) ==
  LET full   == {i \in Buckets(c) : c.calendar[i] # <<>>}
      lowest == Min({Head(c.calendar[i]) : i \in full})
  IN  [bucket |-> Min({i \in full : Head(c.calendar[i]) = lowest}),
       top    |-> IF c.num = 0 THEN c.top ELSE c.top + 2 * c.nbuckets]

Place(c) == IF Hits(c) # {} THEN Scanned(c) ELSE Searched(c)

Dequeue(c) ==
  LET at == Place(c)
  IN  [c EXCEPT !.lastbucket = at.bucket,
                !.top = at.top,
                !.lastprio = Head(c.calendar[at.bucket]),
                !.qsize = @ - 1,
                !.calendar[at.bucket] = Tail(@)]
-----------------------------------------------------------------------------
\* How many events new_width samples.
Samples(c) ==
  IF c.qsize <= 5 THEN c.qsize ELSE Min({5 + c.qsize \div 10, 25})

\* The queue after k events have been dequeued, resize_enabled being false.
Drained(c, n) ==
  LET f[k \in 0..n] == IF k = 0 THEN c ELSE Dequeue(f[k - 1])
  IN  f

\* The position of c, restored in b, the queue with the samples put back.
Restored(b, c) ==
  [b EXCEPT !.top = c.top, !.lastbucket = c.lastbucket, !.lastprio = c.lastprio]

SumOf(s) ==
  LET f[k \in 0..Len(s)] == IF k = 0 THEN 0 ELSE f[k - 1] + s[k]
  IN  f[Len(s)]

\* The new width, three times the mean of the sampled separations that are
\* below twice their average, and the queue with the samples put back.
new_width(c) ==
  IF c.qsize < 2
  THEN [num |-> Unit, den |-> 1, queue |-> c]
  ELSE LET n     == Samples(c)
           f     == Drained(c, n)
           temp  == [k \in 1..n |-> f[k].lastprio]
           seps  == [k \in 1..(n - 1) |-> temp[k + 1] - temp[k]]
           total == SumOf(seps)
           kept  == {k \in 1..(n - 1) : seps[k] * (n - 1) < 2 * total}
       IN  [num   |-> 3 * SumOf([k \in 1..(n - 1) |-> IF k \in kept THEN seps[k] ELSE 0]),
            den   |-> IF kept = {} THEN 1 ELSE Cardinality(kept),
            queue |-> Restored(PutAll(f[n], temp), c)]

\* Mutant of Copied: the loop stops before bucket 0.
CopiedShort(old, empty) ==
  LET f[k \in 0..old.nbuckets] ==
        IF k = 0 THEN empty ELSE PutAll(f[k - 1], old.calendar[old.nbuckets - k])
  IN  f[old.nbuckets - 1]

\* The events of old copied onto an empty calendar: the last bucket first.
Copied(old, empty) ==
  LET f[k \in 0..old.nbuckets] ==
        IF k = 0 THEN empty ELSE PutAll(f[k - 1], old.calendar[old.nbuckets - k])
  IN  f[old.nbuckets]

resize(c, n) ==
  LET w     == new_width(c)
      empty == localinit(n, w.num, w.den, w.queue.lastprio)
  IN  IF empty.astray THEN empty ELSE Copied(w.queue, empty)

\* Mutant of Crowded: the threshold is one too high.
CrowdedLate(c) == c.qsize > 2 * c.nbuckets + 1 /\ c.nbuckets < MaxBuckets

\* The thresholds localinit derives from the number of buckets.
Crowded(c) == c.qsize > 2 * c.nbuckets /\ c.nbuckets < MaxBuckets
Sparse(c) == c.qsize < c.nbuckets \div 2 - 2

put(c, p) ==
  LET d == Enqueue(c, p) IN IF Crowded(d) THEN resize(d, 2 * c.nbuckets) ELSE d

deq(c) ==
  LET d == Dequeue(c) IN IF Sparse(d) THEN resize(d, c.nbuckets \div 2) ELSE d
-----------------------------------------------------------------------------
\* ProcessEvent schedules an event some time after the one it processes.
calqueue_put ==
  \E g \in Gaps :
    /\ ~q.astray
    /\ q.qsize < MaxSize
    /\ got + g <= MaxPrio
    /\ q' = put(q, got + g)
    /\ UNCHANGED <<got, missed>>

calqueue_get ==
  /\ ~q.astray
  /\ q.qsize > 0
  /\ q' = deq(q)
  /\ got' = Dequeue(q).lastprio
  /\ missed' = (missed \/ Hits(q) = {})

Next == calqueue_put \/ calqueue_get

Spec == Init /\ [][Next]_vars
-----------------------------------------------------------------------------
\* The positions in a queue, the event at one, and how many there are of each.
Slots(c) == UNION {{i} \X DOMAIN c.calendar[i] : i \in Buckets(c)}
Event(c, z) == c.calendar[z[1]][z[2]]
Pending(c) == {Event(c, z) : z \in Slots(c)}
Copies(c) == [p \in 0..MaxPrio |-> Cardinality({z \in Slots(c) : Event(c, z) = p})]

\* The types of the queue's fields: lastbucket is a remainder, and one of the
\* buckets as long as no width was negative.
TypeOK ==
  /\ q.nbuckets \in 2..MaxBuckets
  /\ q.calendar \in [Buckets(q) -> Seq(0..MaxPrio)]
  /\ q.qsize \in 0..MaxSize
  /\ q.num \in Int /\ q.den \in Nat \ {0} /\ q.top \in Int
  /\ q.lastprio \in 0..MaxPrio /\ got \in 0..MaxPrio
  /\ q.lastbucket \in (1 - q.nbuckets)..(q.nbuckets - 1)
  /\ ~q.astray => q.lastbucket \in Buckets(q)
  /\ q.astray \in BOOLEAN /\ missed \in BOOLEAN

\* However the calendar has been resized, every event is in the bucket of its
\* priority, in order, and qsize counts them all: what a scan relies on.
Placed ==
  ~q.astray =>
    /\ \A i \in Buckets(q) :
         LET s == q.calendar[i]
         IN  \A k \in 1..Len(s) :
               /\ Virtual(s[k], q.num, q.den) % q.nbuckets = i
               /\ k > 1 => s[k - 1] <= s[k]
    /\ q.qsize = Cardinality(Slots(q))

\* The number of buckets fits the number of events.
Fits(c) ==
  /\ c.qsize <= 2 * c.nbuckets \/ c.nbuckets = MaxBuckets
  /\ c.nbuckets \div 2 - 2 <= c.qsize

\* One resize is enough: the calendar it leaves is neither too small nor too
\* big, so no put of its copying, which runs with resizing enabled, starts
\* another one halfway.
FitsAfterOne == ~q.astray => Fits(q)

\* A put adds its event and a get takes the one it returns, and nothing else
\* is lost or doubled, whatever sampling and copying the call went through.
Conserved ==
  [][~q'.astray =>
       \/ \E p \in {got + g : g \in Gaps} \cap (0..MaxPrio) :
            Copies(q') = [Copies(q) EXCEPT ![p] = @ + 1]
       \/ Copies(q') = [Copies(q) EXCEPT ![got'] = @ - 1]]_vars

\* buckettop belongs to the bucket of the last event got, and nothing pending
\* is before that event: where the next scan may start.
Aligned ==
  /\ q.num > 0 => q.top = 2 * Virtual(q.lastprio, q.num, q.den) + 3
  /\ \A p \in Pending(q) : q.lastprio <= p

\* Until a first direct search the calendar's position is right.
AlignedUntilMiss == ~missed /\ ~q.astray => Aligned

\* From a right position a get returns an event no other is before, found by
\* the scan or by the direct search.
EarliestFromAligned ==
  [][Aligned /\ q'.qsize < q.qsize => \A p \in Pending(q) : got' <= p]_vars

\* Sampling c falls back on the direct search for some event.
Misses(c) == \E k \in 0..(Samples(c) - 1) : Hits(Drained(c, Samples(c))[k]) = {}

\* From a right position a resize computes a negative width, and every bucket
\* number after it, only if its sampling fell back on the direct search.
StraysByMissing ==
  [][Aligned /\ ~q.astray /\ q'.astray =>
       \/ \E g \in Gaps : /\ got + g <= MaxPrio /\ q' = put(q, got + g)
                         /\ Misses(Enqueue(q, got + g))
       \/ q.qsize > 0 /\ q' = deq(q) /\ (Hits(q) = {} \/ Misses(Dequeue(q)))]_vars

\* "Directly search for minimum priority event" (calqueue.c:214): a get
\* returns the event of minimum priority, also after a direct search.
Earliest == [][q'.qsize < q.qsize => \A p \in Pending(q) : got' <= p]_vars
=============================================================================
