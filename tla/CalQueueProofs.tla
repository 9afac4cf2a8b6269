--------------------------- MODULE CalQueueProofs ---------------------------
(***************************************************************************)
(* What holds of the calendar queue for every width, number of buckets and *)
(* schedule of events: its types, that no event is lost or misfiled by a   *)
(* put, a get or a resize, and that the earliest event is got as long as   *)
(* the position of the calendar is right.                                  *)
(***************************************************************************)
EXTENDS CalQueue, SequenceTheorems, FiniteSetTheorems, WellFoundedInduction, TLAPS

Prios == 0..MaxPrio

\* A set of naturals has a least element.
LEMMA Least ==
  ASSUME NEW I \in SUBSET Nat, I # {}
  PROVE  \E m \in I : \A k \in I : m <= k
<1>1. PICK m \in I : \A k \in I : ~(<<k, m>> \in OpToRel(<, Nat))
  BY NatLessThanWellFounded, WFMin
<1>2. ASSUME NEW k \in I PROVE m <= k
  <2>1. k \in Nat /\ m \in Nat
    OBVIOUS
  <2>2. ~(k < m)
    BY <1>1, <2>1 DEF OpToRel
  <2> QED  BY <2>1, <2>2
<1> QED  BY <1>2

\* Min of a nonempty set of naturals is its least element.
LEMMA MinIs ==
  ASSUME NEW I \in SUBSET Nat, I # {}
  PROVE  Min(I) \in I /\ \A k \in I : Min(I) <= k
<1>1. \E m \in I : \A k \in I : m <= k
  BY Least
<1> QED  BY <1>1 DEF Min

\* Induction up to n, for a set of steps.
LEMMA UpTo ==
  ASSUME NEW n \in Nat, NEW G, 0 \in G, \A k \in 1..n : k - 1 \in G => k \in G
  PROVE  0..n \subseteq G
<1> SUFFICES ASSUME ~(0..n \subseteq G) PROVE FALSE
  OBVIOUS
<1> DEFINE bad == (0..n) \ G
<1>1. bad \in SUBSET Nat /\ bad # {}
  OBVIOUS
<1> HIDE DEF bad
<1>2. PICK m \in bad : \A k \in bad : m <= k
  BY <1>1, Least
<1>3. m \in 0..n /\ m \notin G
  BY DEF bad
<1>4. m # 0
  BY <1>3
<1>5. m \in 1..n /\ m - 1 \in 0..n /\ m - 1 < m
  BY <1>3, <1>4
<1>6. m - 1 \in G
  BY <1>2, <1>5 DEF bad
<1> QED  BY <1>3, <1>5, <1>6

\* f is the run of a loop of n steps from x: h[k] tells what step k does.
IsLoop(f, n, x, h) == f = [k \in 0..n |-> IF k = 0 THEN x ELSE h[k][f[k - 1]]]

\* A loop whose step k gives for each value of X[k - 1] one of X[k] has a run.
LEMMA LoopExists ==
  ASSUME NEW n \in Nat, NEW X, NEW x \in X[0], NEW h,
         \A k \in 1..n : \A y \in X[k - 1] : h[k][y] \in X[k]
  PROVE  \E f : IsLoop(f, n, x, h) /\ \A k \in 0..n : f[k] \in X[k]
<1> DEFINE Run(m, f) == /\ DOMAIN f = 0..m /\ f[0] = x
                        /\ \A k \in 1..m : f[k] = h[k][f[k - 1]]
                        /\ \A k \in 0..m : f[k] \in X[k]
           G == {m \in 0..n : \E f : Run(m, f)}
<1>1. 0 \in G
  <2> DEFINE f == [k \in 0..0 |-> x]
  <2>1. Run(0, f)
    OBVIOUS
  <2>2. 0 \in 0..n
    OBVIOUS
  <2> HIDE DEF f, Run
  <2> QED  BY <2>1, <2>2
<1>2. ASSUME NEW m \in 1..n, m - 1 \in G PROVE m \in G
  <2>1. PICK f : Run(m - 1, f)
    BY <1>2
  <2> DEFINE g == [k \in 0..m |-> IF k = m THEN h[m][f[m - 1]] ELSE f[k]]
  <2>2. f[m - 1] \in X[m - 1] /\ h[m][f[m - 1]] \in X[m]
    BY <2>1
  <2>3. DOMAIN g = 0..m /\ g[0] = x /\ g[m] = h[m][f[m - 1]]
    BY <2>1
  <2>4. \A k \in 0..(m - 1) : g[k] = f[k]
    OBVIOUS
  <2>5. \A k \in 1..m : g[k] = h[k][g[k - 1]]
    <3> SUFFICES ASSUME NEW k \in 1..m PROVE g[k] = h[k][g[k - 1]]
      OBVIOUS
    <3>1. g[k - 1] = f[k - 1]
      BY <2>4
    <3>2. CASE k = m
      BY <2>3, <3>1, <3>2
    <3>3. CASE k # m
      <4>1. k \in 1..(m - 1) /\ g[k] = f[k]
        BY <2>4, <3>3
      <4> QED  BY <2>1, <3>1, <4>1
    <3> QED  BY <3>2, <3>3
  <2>6. \A k \in 0..m : g[k] \in X[k]
    <3> SUFFICES ASSUME NEW k \in 0..m PROVE g[k] \in X[k]
      OBVIOUS
    <3>1. CASE k = m
      BY <2>2, <2>3, <3>1
    <3>2. CASE k # m
      <4>1. k \in 0..(m - 1) /\ g[k] = f[k]
        BY <2>4, <3>2
      <4> QED  BY <2>1, <4>1
    <3> QED  BY <3>1, <3>2
  <2> HIDE DEF g
  <2>7. Run(m, g)
    BY <2>3, <2>5, <2>6
  <2> QED  BY <2>7
<1>3. n \in G
  <2> HIDE DEF G
  <2>1. 0..n \subseteq G
    BY <1>1, <1>2, UpTo
  <2> QED  BY <2>1
<1>4. PICK f : Run(n, f)
  BY <1>3
<1> DEFINE e == [k \in 0..n |-> IF k = 0 THEN x ELSE h[k][f[k - 1]]]
<1>5. \A k \in 0..n : f[k] = e[k]
  BY <1>4
<1>6. e = [k \in 0..n |-> IF k = 0 THEN x ELSE h[k][e[k - 1]]]
  <2> SUFFICES ASSUME NEW k \in 0..n, k # 0 PROVE h[k][f[k - 1]] = h[k][e[k - 1]]
    OBVIOUS
  <2>1. k - 1 \in 0..n
    OBVIOUS
  <2> QED  BY <1>5, <2>1
<1>7. \A k \in 0..n : e[k] \in X[k]
  BY <1>4, <1>5
<1> HIDE DEF e
<1> QED  BY <1>6, <1>7 DEF IsLoop
-----------------------------------------------------------------------------
(* Virtual buckets. *)

\* Division and remainder, for a positive divisor.
LEMMA DivMod ==
  ASSUME NEW a \in Int, NEW n \in Nat \ {0}
  PROVE  /\ a \div n \in Int /\ a % n \in 0..(n - 1)
         /\ a = n * (a \div n) + (a % n)
OBVIOUS

\* Numbers with one remainder are a multiple of the divisor apart.
LEMMA ModApart ==
  ASSUME NEW a \in Int, NEW b \in Int, NEW n \in Nat \ {0}, a % n = b % n, a < b
  PROVE  a + n <= b
<1> DEFINE x == a \div n
           y == b \div n
<1>1. /\ x \in Int /\ y \in Int /\ a % n \in Int
      /\ a = n * x + (a % n) /\ b = n * y + (b % n)
  BY DivMod
<1> HIDE DEF x, y
<1>2. n * x < n * y /\ n * x \in Int /\ n * y \in Int
  BY <1>1
<1>3. x < y
  <2> SUFFICES ASSUME y <= x PROVE FALSE
    BY <1>1
  <2>1. PICK e \in Nat : x = y + e
    BY <1>1
  <2>2. n * x = n * y + n * e /\ n * e \in Nat
    BY <1>1, <2>1
  <2> QED  BY <1>2, <2>2
<1>4. PICK e \in Nat : y = x + 1 + e
  BY <1>1, <1>3
<1>5. n * y = n * x + n + n * e /\ n * e \in Nat
  BY <1>1, <1>4
<1> QED  BY <1>1, <1>2, <1>5

\* A remainder is determined by any representation.
LEMMA ModIs ==
  ASSUME NEW a \in Int, NEW n \in Nat \ {0}, NEW k \in Int, NEW r \in 0..(n - 1), a = n * k + r
  PROVE  a % n = r
<1> DEFINE x == a \div n
           s == a % n
<1>1. /\ x \in Int /\ s \in 0..(n - 1) /\ a = n * x + s
  BY DivMod
<1> HIDE DEF x, s
<1>2. x = k
  <2>1. CASE x < k
    <3>1. PICK e \in Nat : k = x + 1 + e
      BY <1>1, <2>1
    <3>2. n * k = n * x + n + n * e /\ n * e \in Nat /\ n * x \in Int
      BY <1>1, <3>1
    <3> QED  BY <1>1, <3>2
  <2>2. CASE k < x
    <3>1. PICK e \in Nat : x = k + 1 + e
      BY <1>1, <2>2
    <3>2. n * x = n * k + n + n * e /\ n * e \in Nat /\ n * k \in Int
      BY <1>1, <3>1
    <3> QED  BY <1>1, <3>2
  <2> QED  BY <1>1, <2>1, <2>2
<1>3. s = r
  <2>1. n * x = n * k /\ n * k \in Int
    BY <1>1, <1>2
  <2> QED  BY <1>1, <2>1
<1> QED  BY <1>3 DEF s

\* Going on from a bucket.
LEMMA ModPlus ==
  ASSUME NEW a \in Int, NEW d \in Int, NEW n \in Nat \ {0}
  PROVE  ((a % n) + d) % n = (a + d) % n
<1> DEFINE x == a \div n
           r == a % n
           y == (r + d) \div n
           s == (r + d) % n
<1>1. x \in Int /\ r \in Int /\ a = n * x + r
  BY DivMod
<1>2. y \in Int /\ s \in 0..(n - 1) /\ r + d = n * y + s
  <2> HIDE DEF r
  <2> QED  BY <1>1, DivMod
<1> HIDE DEF x, r, y, s
<1>3. a + d = n * (x + y) + s
  <2>1. n * (x + y) = n * x + n * y /\ n * x \in Int /\ n * y \in Int
    BY <1>1, <1>2
  <2> QED  BY <1>1, <1>2, <2>1
<1>4. (a + d) % n = s
  <2>1. a + d \in Int /\ x + y \in Int
    BY <1>1, <1>2
  <2> QED  BY ONLY <1>2, <1>3, <2>1, n \in Nat \ {0}, ModIs
<1> QED  BY <1>4 DEF s, r

LEMMA VirtualType ==
  ASSUME NEW p \in Nat, NEW num \in Int, NEW den \in Nat \ {0}
  PROVE  /\ Virtual(p, num, den) \in Int
         /\ num >= 0 => Virtual(p, num, den) >= 0
<1>1. p * den \in Int /\ p * den >= 0
  OBVIOUS
<1>2. CASE num > 0
  <2>1. (p * den) \div num \in Int /\ (p * den) \div num >= 0
    BY <1>1, <1>2, DivMod
  <2> QED  BY <1>2, <2>1 DEF Virtual
<1>3. CASE num = 0
  BY <1>3 DEF Virtual
<1>4. CASE num < 0
  <2>1. (p * den) \div (-num) \in Int
    BY <1>1, <1>4, DivMod
  <2> QED  BY <1>4, <2>1 DEF Virtual
<1> QED  BY <1>2, <1>3, <1>4

\* The virtual bucket of p ends at or before p, and the next one begins after it.
LEMMA VirtualIs ==
  ASSUME NEW p \in Nat, NEW num \in Nat \ {0}, NEW den \in Nat \ {0}
  PROVE  /\ Virtual(p, num, den) \in Int
         /\ num * Virtual(p, num, den) <= p * den
         /\ p * den < num * (Virtual(p, num, den) + 1)
<1> DEFINE a == p * den
           v == a \div num
<1>1. a \in Int
  OBVIOUS
<1>2. Virtual(p, num, den) = v
  BY DEF Virtual
<1>3. v \in Int /\ a % num \in 0..(num - 1) /\ a = num * v + (a % num)
  <2> HIDE DEF a
  <2> QED  BY <1>1, DivMod
<1> HIDE DEF v, a
<1>4. num * (v + 1) = num * v + num /\ num * v \in Int
  BY <1>3
<1>5. num * v <= a /\ a < num * (v + 1)
  BY <1>1, <1>3, <1>4
<1> QED  BY <1>2, <1>3, <1>5 DEF a

\* Multiplying by a positive number keeps the order, both ways.
LEMMA TimesLess ==
  ASSUME NEW a \in Int, NEW b \in Int, NEW n \in Nat \ {0}
  PROVE  a <= b <=> n * a <= n * b
<1>1. ASSUME a <= b PROVE n * a <= n * b
  <2>1. PICK e \in Nat : b = a + e
    BY <1>1
  <2>2. n * b = n * a + n * e /\ n * e \in Nat /\ n * a \in Int
    BY <2>1
  <2> QED  BY <2>2
<1>2. ASSUME b < a PROVE n * b < n * a
  <2>1. PICK e \in Nat : a = b + 1 + e
    BY <1>2
  <2>2. n * a = n * b + n + n * e /\ n * e \in Nat /\ n * b \in Int
    BY <2>1
  <2> QED  BY <2>2
<1>3. n * a \in Int /\ n * b \in Int
  OBVIOUS
<1> QED  BY <1>1, <1>2, <1>3

\* Later events are in no earlier virtual bucket.
LEMMA VirtualUp ==
  ASSUME NEW p \in Nat, NEW r \in Nat, NEW num \in Nat \ {0}, NEW den \in Nat \ {0}, p <= r
  PROVE  Virtual(p, num, den) <= Virtual(r, num, den)
<1> DEFINE v == Virtual(p, num, den)
           w == Virtual(r, num, den)
<1>1. /\ v \in Int /\ w \in Int /\ num * v <= p * den /\ r * den < num * (w + 1)
  BY VirtualIs
<1>2. p * den <= r * den /\ p * den \in Int /\ r * den \in Int
  BY TimesLess
<1> HIDE DEF v, w
<1>3. num * v < num * (w + 1) /\ num * v \in Int /\ num * (w + 1) \in Int
  BY <1>1, <1>2
<1>4. ~(w + 1 <= v)
  BY <1>1, <1>3, TimesLess
<1> QED  BY <1>1, <1>4 DEF v, w
-----------------------------------------------------------------------------
(* Insertion in a bucket. *)

\* Priorities are numbers.
LEMMA PriosAre == Prios \subseteq Nat /\ MaxPrio \in Nat
BY CalQueueAssumption DEF Prios

LEMMA EventsAre ==
  ASSUME NEW s \in Seq(Prios)
  PROVE  /\ Len(s) \in Nat /\ DOMAIN s = 1..Len(s)
         /\ \A j \in 1..Len(s) : s[j] \in Prios /\ s[j] \in Int
<1>1. Len(s) \in Nat /\ DOMAIN s = 1..Len(s) /\ s \in [1..Len(s) -> Prios]
  BY LenProperties
<1>2. \A j \in 1..Len(s) : s[j] \in Prios
  BY <1>1
<1>3. \A j \in 1..Len(s) : s[j] \in Int
  <2>1. Prios \subseteq Nat
    BY PriosAre
  <2>2. \A x \in Prios : x \in Int
    BY ONLY <2>1
  <2> QED  BY ONLY <1>2, <2>2
<1> QED  BY <1>1, <1>2, <1>3

\* t is s with p put after its first k events.
Wider(s, t, k, p) ==
  /\ Len(t) = Len(s) + 1
  /\ \A j \in 1..k : t[j] = s[j]
  /\ t[k + 1] = p
  /\ \A j \in (k + 1)..Len(s) : t[j + 1] = s[j]

\* The walk stops somewhere, at the first event later than p or at the end.
LEMMA PassedIs ==
  ASSUME NEW s \in Seq(Prios), NEW p \in Prios
  PROVE  /\ Passed(s, p) \in 0..Len(s)
         /\ \A j \in 1..Passed(s, p) : s[j] <= p
         /\ Passed(s, p) < Len(s) => s[Passed(s, p) + 1] > p
<1> DEFINE Stop(k) == /\ \A j \in 1..k : s[j] <= p
                      /\ k < Len(s) => s[k + 1] > p
           later == {j \in 1..Len(s) : s[j] > p}
<1>1. Len(s) \in Nat /\ p \in Int /\ \A j \in 1..Len(s) : s[j] \in Int
  BY EventsAre, PriosAre
<1>2. CASE later = {}
  <2>1. \A j \in 1..Len(s) : s[j] <= p
    BY <1>1, <1>2
  <2>2. Len(s) \in 0..Len(s)
    BY <1>1
  <2>3. Stop(Len(s))
    BY <1>1, <2>1
  <2> QED  BY <2>2, <2>3 DEF Passed
<1>3. CASE later # {}
  <2>1. PICK m \in later : \A j \in later : m <= j
    <3>1. later \in SUBSET Nat
      BY <1>1
    <3> HIDE DEF later
    <3> QED  BY <1>3, <3>1, Least
  <2>2. m - 1 \in 0..Len(s) /\ m - 1 < Len(s) /\ s[(m - 1) + 1] > p
    BY <1>1
  <2>3. ASSUME NEW j \in 1..(m - 1) PROVE s[j] <= p
    <3>1. j \in 1..Len(s) /\ j < m /\ m \in Int
      BY <1>1, <2>2
    <3>2. j \notin later
      <4> HIDE DEF later
      <4> QED  BY <2>1, <3>1
    <3> QED  BY <1>1, <3>1, <3>2
  <2>4. Stop(m - 1)
    BY <2>2, <2>3
  <2> QED  BY <2>2, <2>4 DEF Passed
<1> QED  BY <1>2, <1>3

\* The event is put where the walk stopped.
LEMMA SortedIs ==
  ASSUME NEW s \in Seq(Prios), NEW p \in Prios
  PROVE  Sorted(s, p) \in Seq(Prios) /\ Wider(s, Sorted(s, p), Passed(s, p), p)
<1> PICK k : k = Passed(s, p)
  OBVIOUS
<1>1. k \in 0..Len(s) /\ Len(s) \in Nat
  BY PassedIs
<1> DEFINE x == SubSeq(s, 1, k)
           y == SubSeq(s, k + 1, Len(s))
           xp == x \o <<p>>
<1>2. /\ x \in Seq(Prios) /\ Len(x) = k
      /\ \A j \in 1..k : x[j] = s[j]
  <2>1. \A i \in 1..k : s[i] \in Prios
    BY <1>1
  <2>2. /\ x \in Seq(Prios) /\ Len(x) = IF 1 <= k THEN k - 1 + 1 ELSE 0
        /\ \A i \in 1..(k - 1 + 1) : x[i] = s[1 + i - 1]
    BY ONLY <1>1, <2>1, SubSeqProperties
  <2> HIDE DEF x
  <2> QED  BY <1>1, <2>2
<1>3. /\ y \in Seq(Prios) /\ Len(y) = Len(s) - k
      /\ \A j \in 1..(Len(s) - k) : y[j] = s[k + j]
  <2>1. \A i \in (k + 1)..Len(s) : s[i] \in Prios
    BY <1>1
  <2>2. /\ y \in Seq(Prios)
        /\ Len(y) = IF k + 1 <= Len(s) THEN Len(s) - (k + 1) + 1 ELSE 0
        /\ \A i \in 1..(Len(s) - (k + 1) + 1) : y[i] = s[(k + 1) + i - 1]
    BY ONLY <1>1, <2>1, SubSeqProperties
  <2> HIDE DEF y
  <2> QED  BY <1>1, <2>2
<1>4. Sorted(s, p) = xp \o y
  <2>1. (k + 1) - 1 = k
    BY <1>1
  <2>2. InsertAt(s, k + 1, p) = SubSeq(s, 1, (k + 1) - 1) \o <<p>> \o SubSeq(s, k + 1, Len(s))
    BY DEF InsertAt
  <2> QED  BY <2>1, <2>2 DEF Sorted
<1>5. <<p>> \in Seq(Prios) /\ Len(<<p>>) = 1 /\ <<p>>[1] = p
  OBVIOUS
<1> HIDE DEF x, y
<1>6. /\ xp \in Seq(Prios) /\ Len(xp) = k + 1
      /\ \A j \in 1..(k + 1) : xp[j] = IF j <= k THEN x[j] ELSE <<p>>[j - k]
  BY ONLY <1>2, <1>5, ConcatProperties
<1> DEFINE r == xp \o y
<1> HIDE DEF xp
<1>7. /\ r \in Seq(Prios) /\ Len(r) = Len(s) + 1
      /\ \A j \in 1..(Len(s) + 1) : r[j] = IF j <= k + 1 THEN xp[j] ELSE y[j - (k + 1)]
  <2>1. /\ r \in Seq(Prios) /\ Len(r) = Len(xp) + Len(y)
        /\ \A j \in 1..(Len(xp) + Len(y)) : r[j] = IF j <= Len(xp) THEN xp[j] ELSE y[j - Len(xp)]
    BY ONLY <1>3, <1>6, ConcatProperties
  <2>2. Len(xp) + Len(y) = Len(s) + 1 /\ Len(xp) = k + 1
    BY <1>1, <1>3, <1>6
  <2> HIDE DEF r
  <2> QED  BY ONLY <2>1, <2>2
<1> HIDE DEF r
<1>8. \A j \in 1..k : r[j] = s[j]
  BY <1>1, <1>2, <1>6, <1>7
<1>9. r[k + 1] = p
  BY <1>1, <1>5, <1>6, <1>7
<1>10. ASSUME NEW j \in (k + 1)..Len(s) PROVE r[j + 1] = s[j]
  <2>1. /\ j + 1 \in 1..(Len(s) + 1) /\ ~(j + 1 <= k + 1) /\ j - k \in 1..(Len(s) - k)
        /\ (j + 1) - (k + 1) = j - k /\ k + (j - k) = j
    BY <1>1
  <2>2. r[j + 1] = y[j - k]
    <3>1. r[j + 1] = IF j + 1 <= k + 1 THEN xp[j + 1] ELSE y[(j + 1) - (k + 1)]
      BY <1>7, <2>1
    <3>2. r[j + 1] = y[(j + 1) - (k + 1)]
      BY ONLY <2>1, <3>1
    <3> QED  BY ONLY <2>1, <3>2
  <2> QED  BY <1>3, <2>1, <2>2
<1>11. Wider(s, r, k, p)
  BY <1>1, <1>7, <1>8, <1>9, <1>10 DEF Wider
<1> QED  BY <1>4, <1>7, <1>11 DEF r

\* No event of a bucket is before one that stands earlier in it.
InOrder(s) == \A j, k \in 1..Len(s) : j <= k => s[j] <= s[k]

\* An insertion keeps a bucket in order, if p belongs there.
LEMMA SortedInOrder ==
  ASSUME NEW s \in Seq(Prios), NEW p \in Prios, InOrder(s)
  PROVE  InOrder(Sorted(s, p))
<1> PICK k : k = Passed(s, p)
  OBVIOUS
<1> PICK t : t = Sorted(s, p)
  OBVIOUS
<1>1. /\ t \in Seq(Prios) /\ Wider(s, t, k, p) /\ k \in 0..Len(s) /\ Len(s) \in Nat
      /\ \A j \in 1..k : s[j] <= p
      /\ k < Len(s) => s[k + 1] > p
  BY SortedIs, PassedIs, EventsAre
<1>2. \A j \in 1..Len(s) : s[j] \in Int
  BY EventsAre
<1>3. p \in Int
  BY PriosAre
<1>4. \A j \in (k + 1)..Len(s) : s[j] >= p
  <2> SUFFICES ASSUME NEW j \in (k + 1)..Len(s) PROVE s[j] >= p
    OBVIOUS
  <2>1. k + 1 \in 1..Len(s) /\ j \in 1..Len(s) /\ k + 1 <= j /\ k < Len(s)
    BY <1>1
  <2>2. s[k + 1] <= s[j] /\ s[k + 1] > p
    BY <1>1, <2>1 DEF InOrder
  <2> QED  BY <1>2, <1>3, <2>1, <2>2
<1>5. Len(t) = Len(s) + 1
  BY <1>1 DEF Wider
<1>6. ASSUME NEW j \in 1..Len(t), j <= k PROVE t[j] = s[j] /\ j \in 1..Len(s) /\ s[j] <= p
  BY <1>1, <1>5, <1>6 DEF Wider
<1>7. ASSUME NEW j \in 1..Len(t), j > k + 1
      PROVE  j - 1 \in (k + 1)..Len(s) /\ j - 1 \in 1..Len(s) /\ t[j] = s[j - 1] /\ s[j - 1] >= p
  <2>1. j - 1 \in (k + 1)..Len(s) /\ (j - 1) + 1 = j
    BY <1>1, <1>5, <1>7
  <2> QED  BY <1>1, <1>4, <2>1 DEF Wider
<1>8. t[k + 1] = p
  BY <1>1 DEF Wider
<1>9. ASSUME NEW i \in 1..Len(t), NEW j \in 1..Len(t), i <= j PROVE t[i] <= t[j]
  <2>1. CASE j <= k
    BY <1>1, <1>6, <1>9, <2>1 DEF InOrder
  <2>2. CASE i > k + 1
    <3>1. i - 1 <= j - 1 /\ j > k + 1
      BY <1>1, <1>9, <2>2
    <3> QED  BY <1>7, <2>2, <3>1 DEF InOrder
  <2>3. CASE j > k /\ i <= k + 1
    <3>1. t[i] <= p /\ t[i] \in Int
      <4>1. CASE i <= k
        BY <1>2, <1>6, <4>1
      <4>2. CASE i = k + 1
        BY <1>3, <1>8, <4>2
      <4> QED  BY <1>1, <2>3, <4>1, <4>2
    <3>2. p <= t[j] /\ t[j] \in Int
      <4>1. CASE j = k + 1
        BY <1>3, <1>8, <4>1
      <4>2. CASE j > k + 1
        BY <1>2, <1>7, <4>2
      <4> QED  BY <1>1, <2>3, <4>1, <4>2
    <3> QED  BY <1>3, <3>1, <3>2
  <2> QED  BY <1>1, <2>1, <2>2, <2>3
<1> QED  BY <1>9 DEF InOrder
-----------------------------------------------------------------------------
(* Counting events. *)

\* The positions whose event is in P, and how many they are.
Among(c, P) == {z \in Slots(c) : Event(c, z) \in P}
Count(c, P) == Cardinality(Among(c, P))
One(p, P)   == IF p \in P THEN 1 ELSE 0

LEMMA AmongIs ==
  ASSUME NEW c, NEW P, NEW z, \A i \in Buckets(c) : c.calendar[i] \in Seq(Prios)
  PROVE  z \in Among(c, P) <=>
           \E i \in Buckets(c) : \E j \in 1..Len(c.calendar[i]) :
             z = <<i, j>> /\ c.calendar[i][j] \in P
<1>1. \A i \in Buckets(c) : DOMAIN c.calendar[i] = 1..Len(c.calendar[i])
  OBVIOUS
<1> QED  BY <1>1 DEF Among, Slots, Event

\* d is c with p put in bucket b after its first k events.
Grown(c, d, b, k, p) ==
  /\ d.nbuckets = c.nbuckets /\ b \in Buckets(c)
  /\ \A i \in Buckets(c) :
       /\ c.calendar[i] \in Seq(Prios) /\ d.calendar[i] \in Seq(Prios)
       /\ i # b => d.calendar[i] = c.calendar[i]
  /\ k \in 0..Len(c.calendar[b])
  /\ Wider(c.calendar[b], d.calendar[b], k, p)

\* An insertion adds one event, the one inserted, and no other.
LEMMA GrownCount ==
  ASSUME NEW c, NEW d, NEW b, NEW k, NEW p, Grown(c, d, b, k, p), NEW P
  PROVE  /\ IsFiniteSet(Among(c, P)) <=> IsFiniteSet(Among(d, P))
         /\ IsFiniteSet(Among(c, P)) => Count(d, P) = Count(c, P) + One(p, P)
<1> PICK s, t : s = c.calendar[b] /\ t = d.calendar[b]
  OBVIOUS
<1> PICK L \in Nat : L = Len(s)
  BY DEF Grown
<1>1. /\ b \in Buckets(c) /\ Buckets(d) = Buckets(c)
      /\ \A i \in Buckets(c) : c.calendar[i] \in Seq(Prios) /\ d.calendar[i] \in Seq(Prios)
      /\ \A i \in Buckets(c) : i # b => d.calendar[i] = c.calendar[i]
      /\ k \in 0..L /\ Len(t) = L + 1 /\ t[k + 1] = p
      /\ \A j \in 1..k : t[j] = s[j]
      /\ \A j \in (k + 1)..L : t[j + 1] = s[j]
  BY DEF Grown, Wider, Buckets
<1> DEFINE S == Among(c, P)
           n == <<b, k + 1>>
           T == Among(d, P) \ {n}
           f == [z \in S |-> IF z[1] = b /\ z[2] > k THEN <<b, z[2] + 1>> ELSE z]
<1>2. \A z : z \in S <=>
        \E i \in Buckets(c) : \E j \in 1..Len(c.calendar[i]) : z = <<i, j>> /\ c.calendar[i][j] \in P
  BY <1>1, AmongIs
<1>3. \A z : z \in Among(d, P) <=>
        \E i \in Buckets(c) : \E j \in 1..Len(d.calendar[i]) : z = <<i, j>> /\ d.calendar[i][j] \in P
  <2>1. \A i \in Buckets(d) : d.calendar[i] \in Seq(Prios)
    BY <1>1
  <2>2. \A z : z \in Among(d, P) <=>
          \E i \in Buckets(d) : \E j \in 1..Len(d.calendar[i]) : z = <<i, j>> /\ d.calendar[i][j] \in P
    BY <2>1, AmongIs
  <2> QED  BY <1>1, <2>2
<1>4. n \in Among(d, P) <=> p \in P
  BY <1>1, <1>3
<1>5. ASSUME NEW j \in 1..L
      PROVE  /\ j <= k => j \in 1..(L + 1) /\ t[j] = s[j]
             /\ j > k => j + 1 \in 1..(L + 1) /\ t[j + 1] = s[j] /\ j + 1 # k + 1
  BY <1>1
<1>6. ASSUME NEW j \in 1..(L + 1), j # k + 1
      PROVE  /\ j <= k => j \in 1..L /\ t[j] = s[j]
             /\ j > k => j - 1 \in 1..L /\ j - 1 > k /\ t[j] = s[j - 1]
  <2>1. CASE j <= k
    BY <1>1, <2>1
  <2>2. CASE j > k
    <3>1. j - 1 \in (k + 1)..L /\ (j - 1) + 1 = j
      BY <1>1, <1>6, <2>2
    <3>2. t[(j - 1) + 1] = s[j - 1]
      BY <1>1, <3>1
    <3> QED  BY <1>1, <2>2, <3>1, <3>2
  <2> QED  BY <1>1, <2>1, <2>2
<1>7. ASSUME NEW z \in S PROVE f[z] \in T
  <2> SUFFICES ASSUME NEW i \in Buckets(c), NEW j \in 1..Len(c.calendar[i]),
                      z = <<i, j>>, c.calendar[i][j] \in P
               PROVE  f[z] \in T
    BY <1>2
  <2>1. CASE i # b
    <3>1. z \in Among(d, P) /\ z # n /\ f[z] = z
      BY <1>1, <1>3, <2>1
    <3> QED  BY <3>1
  <2>2. CASE i = b /\ j <= k
    <3>1. j \in 1..L /\ j \in 1..(L + 1) /\ t[j] = s[j] /\ j # k + 1
      BY <1>1, <1>5, <2>2
    <3>2. z \in Among(d, P)
      BY <1>1, <1>3, <2>2, <3>1
    <3>3. z # n /\ z[2] = j
      BY <3>1
    <3>4. f[z] = z
      BY <1>1, <2>2, <3>1, <3>3
    <3> QED  BY <3>2, <3>3, <3>4
  <2>3. CASE i = b /\ j > k
    <3>1. <<b, j + 1>> \in Among(d, P) /\ <<b, j + 1>> # n
      <4>1. j \in 1..L /\ j + 1 \in 1..(L + 1) /\ t[j + 1] = s[j] /\ j + 1 # k + 1
        BY <1>1, <1>5, <2>3
      <4>2. <<b, j + 1>> \in Among(d, P)
        BY <1>1, <1>3, <2>3, <4>1
      <4> QED  BY <4>1, <4>2
    <3>2. f[z] = <<b, j + 1>>
      BY <2>3
    <3> QED  BY <3>1, <3>2
  <2>4. k \in Int /\ j \in Int
    BY <1>1
  <2> QED  BY <2>1, <2>2, <2>3, <2>4
<1>8. ASSUME NEW y \in S, NEW z \in S, f[y] = f[z] PROVE y = z
  <2>1. PICK i \in Buckets(c), j \in Nat : y = <<i, j>>
    BY <1>2
  <2>2. PICK l \in Buckets(c), m \in Nat : z = <<l, m>>
    BY <1>2
  <2>3. k \in Int
    BY <1>1
  <2> QED  BY <1>8, <2>1, <2>2, <2>3
<1>9. ASSUME NEW z \in T PROVE \E y \in S : f[y] = z
  <2>1. PICK i \in Buckets(c) : \E j \in 1..Len(d.calendar[i]) : z = <<i, j>> /\ d.calendar[i][j] \in P
    BY <1>3
  <2>2. PICK j \in 1..Len(d.calendar[i]) : z = <<i, j>> /\ d.calendar[i][j] \in P
    BY <2>1
  <2>3. CASE i # b
    <3>1. z \in S /\ f[z] = z
      BY <1>1, <1>2, <2>2, <2>3
    <3> QED  BY <3>1
  <2>4. CASE i = b /\ j <= k
    <3>1. j \in 1..(L + 1) /\ j # k + 1
      BY <1>1, <2>2, <2>4
    <3>2. j \in 1..L /\ t[j] = s[j] /\ s[j] \in P
      BY <1>6, <2>2, <2>4, <3>1
    <3>3. z \in S
      BY <1>2, <2>2, <2>4, <3>2
    <3>4. f[z] = z
      BY <1>1, <2>2, <2>4, <3>3
    <3> QED  BY <3>3, <3>4
  <2>5. CASE i = b /\ j > k
    <3>1. j \in 1..(L + 1) /\ j # k + 1
      BY <1>1, <2>2, <2>5
    <3>2. j - 1 \in 1..L /\ j - 1 > k /\ s[j - 1] \in P /\ (j - 1) + 1 = j
      <4>1. j - 1 \in 1..L /\ j - 1 > k /\ t[j] = s[j - 1]
        BY <1>6, <2>5, <3>1
      <4>2. t[j] \in P /\ (j - 1) + 1 = j
        BY <1>1, <2>2, <2>5
      <4> QED  BY <4>1, <4>2
    <3>3. <<b, j - 1>> \in S
      BY <1>1, <1>2, <3>2
    <3>4. f[<<b, j - 1>>] = z
      BY <2>2, <2>5, <3>2, <3>3
    <3> QED  BY <3>3, <3>4
  <2>6. k \in Int /\ j \in Int
    BY <1>1
  <2> QED  BY <2>3, <2>4, <2>5, <2>6
<1> HIDE DEF S, T
<1>10. f \in Bijection(S, T)
  <2>1. f \in [S -> T]
    BY <1>7
  <2> HIDE DEF f
  <2> QED  BY <1>8, <1>9, <2>1 DEF Bijection, Injection, Surjection, IsInjective
<1> HIDE DEF f
<1>11. ExistsBijection(S, T)
  BY <1>10 DEF ExistsBijection
<1>12. ASSUME IsFiniteSet(S)
       PROVE  IsFiniteSet(Among(d, P)) /\ Count(d, P) = Count(c, P) + One(p, P)
  <2>1. IsFiniteSet(T) /\ Cardinality(T) = Cardinality(S) /\ Cardinality(S) \in Nat
    BY <1>11, <1>12, FS_Bijection, FS_CardinalityType
  <2>2. CASE p \in P
    <3>1. Among(d, P) = T \cup {n} /\ n \notin T
      BY <1>4, <2>2 DEF T
    <3>2. IsFiniteSet(Among(d, P)) /\ Cardinality(Among(d, P)) = Cardinality(T) + 1
      BY <2>1, <3>1, FS_AddElement
    <3> QED  BY <2>1, <2>2, <3>2 DEF Count, One, S
  <2>3. CASE p \notin P
    <3>1. Among(d, P) = T
      BY <1>4, <2>3 DEF T
    <3> QED  BY <2>1, <2>3, <3>1 DEF Count, One, S
  <2> QED  BY <2>2, <2>3
<1>13. ASSUME IsFiniteSet(Among(d, P)) PROVE IsFiniteSet(S)
  <2>1. IsFiniteSet(T)
    BY <1>13, FS_Subset DEF T
  <2>2. f \in Injection(S, T)
    BY <1>10 DEF Bijection
  <2> QED  BY <2>1, <2>2, FS_Injection
<1> QED  BY <1>12, <1>13 DEF S
-----------------------------------------------------------------------------
(* Queues. *)

\* n buckets, of a width num / den that is not negative.
Widths(n, num, den) == n \in Nat \ {0} /\ num \in Nat /\ den \in Nat \ {0}

Calendars(n, num, den) ==
  [calendar : [0..(n - 1) -> Seq(Prios)], nbuckets : {n}, qsize : Nat, num : {num}, den : {den},
   lastprio : Prios, lastbucket : 0..(n - 1), top : Int, astray : {FALSE}]

\* Every bucket holds the events of its number, in order.
Filed(c) ==
  \A i \in Buckets(c) :
    /\ InOrder(c.calendar[i])
    /\ \A k \in 1..Len(c.calendar[i]) :
         Virtual(c.calendar[i][k], c.num, c.den) % c.nbuckets = i

Counted(c) == IsFiniteSet(Slots(c)) /\ c.qsize = Cardinality(Slots(c))

\* The queues of n buckets of one width between two calls: scans start in the
\* bucket of the last event got.
Queues(n, num, den) ==
  {c \in Calendars(n, num, den) :
     Filed(c) /\ Counted(c) /\ c.lastbucket = Virtual(c.lastprio, num, den) % n}

Tidy(c, n, num, den) ==
  /\ c.calendar \in [0..(n - 1) -> Seq(Prios)] /\ c.nbuckets = n /\ c.num = num /\ c.den = den
  /\ c.qsize \in Nat /\ c.lastprio \in Prios /\ c.lastbucket \in 0..(n - 1) /\ c.top \in Int
  /\ ~c.astray /\ Buckets(c) = 0..(n - 1) /\ Filed(c) /\ Counted(c)
  /\ c.lastbucket = Virtual(c.lastprio, num, den) % n
  /\ \A i \in Buckets(c) : c.calendar[i] \in Seq(Prios)

LEMMA QueueIs ==
  ASSUME NEW n, NEW num, NEW den, NEW c \in Queues(n, num, den)
  PROVE  Tidy(c, n, num, den)
BY DEF Queues, Calendars, Buckets, Tidy

\* The bucket of a priority.
LEMMA BucketIs ==
  ASSUME NEW n, NEW num, NEW den, Widths(n, num, den), NEW p \in Prios
  PROVE  Virtual(p, num, den) \in Int /\ Virtual(p, num, den) % n \in 0..(n - 1)
<1>1. Virtual(p, num, den) \in Int
  BY VirtualType, PriosAre DEF Widths
<1> PICK v : v = Virtual(p, num, den)
  OBVIOUS
<1>2. v % n \in 0..(n - 1)
  BY <1>1, DivMod DEF Widths
<1> QED  BY <1>1, <1>2

\* The slots of a queue hold all of its events.
LEMMA SlotsAre ==
  ASSUME NEW c, \A i \in Buckets(c) : c.calendar[i] \in Seq(Prios)
  PROVE  /\ Slots(c) = Among(c, Prios)
         /\ \A P : Among(c, P) \subseteq Slots(c)
<1>1. \A z \in Slots(c) : Event(c, z) \in Prios
  <2> SUFFICES ASSUME NEW i \in Buckets(c), NEW j \in DOMAIN c.calendar[i]
               PROVE  Event(c, <<i, j>>) \in Prios
    BY DEF Slots
  <2>1. j \in 1..Len(c.calendar[i])
    BY EventsAre
  <2> QED  BY <2>1, EventsAre DEF Event
<1> QED  BY <1>1 DEF Among

\* A count is a number, and nothing is counted only where no event is.
LEMMA CountIs ==
  ASSUME NEW n, NEW num, NEW den, NEW c \in Queues(n, num, den), NEW P
  PROVE  /\ IsFiniteSet(Among(c, P)) /\ Count(c, P) \in Nat
         /\ (Count(c, P) = 0 <=> Among(c, P) = {})
         /\ Count(c, Prios) = c.qsize
<1>1. IsFiniteSet(Among(c, P))
  BY QueueIs, SlotsAre, FS_Subset DEF Counted, Tidy
<1>2. Slots(c) = Among(c, Prios)
  BY QueueIs, SlotsAre DEF Tidy
<1>3. Cardinality(Slots(c)) = c.qsize
  <2>1. Counted(c)
    BY QueueIs DEF Tidy
  <2> QED  BY <2>1 DEF Counted
<1>4. Count(c, P) \in Nat /\ (Count(c, P) = 0 <=> Among(c, P) = {})
  BY <1>1, FS_CardinalityType, FS_EmptySet DEF Count
<1> QED  BY <1>1, <1>2, <1>3, <1>4 DEF Count

\* The fields of a queue an event is put in.
LEMMA EnqueueIs ==
  ASSUME NEW n, NEW num, NEW den, NEW c \in Queues(n, num, den), Widths(n, num, den), NEW p \in Prios,
         NEW b, b = Virtual(p, num, den) % n
  PROVE  /\ Enqueue(c, p) \in Calendars(n, num, den)
         /\ Enqueue(c, p).calendar = [c.calendar EXCEPT ![b] = Sorted(c.calendar[b], p)]
         /\ Enqueue(c, p).qsize = c.qsize + 1 /\ Enqueue(c, p).top = c.top
         /\ Enqueue(c, p).lastprio = c.lastprio /\ Enqueue(c, p).lastbucket = c.lastbucket
<1>1. b \in 0..(n - 1)
  BY BucketIs
<1>2. /\ c \in Calendars(n, num, den) /\ c.calendar \in [0..(n - 1) -> Seq(Prios)]
      /\ c.nbuckets = n /\ c.num = num /\ c.den = den /\ c.qsize \in Nat
  <2>1. c \in Calendars(n, num, den)
    BY DEF Queues
  <2>2. /\ c.calendar \in [0..(n - 1) -> Seq(Prios)]
        /\ c.nbuckets = n /\ c.num = num /\ c.den = den /\ c.qsize \in Nat
    BY <2>1 DEF Calendars
  <2> QED  BY <2>1, <2>2
<1> DEFINE s == Sorted(c.calendar[b], p)
           new == [c.calendar EXCEPT ![b] = s]
<1>3. s \in Seq(Prios)
  BY <1>1, <1>2, SortedIs
<1>4. Enqueue(c, p) = [c EXCEPT !.calendar = new, !.qsize = c.qsize + 1]
  BY <1>2 DEF Enqueue, Calendars
<1>5. new \in [0..(n - 1) -> Seq(Prios)] /\ c.qsize + 1 \in Nat
  <2> HIDE DEF s
  <2> QED  BY <1>1, <1>2, <1>3
<1> HIDE DEF new
<1>6. [c EXCEPT !.calendar = new, !.qsize = c.qsize + 1] \in Calendars(n, num, den)
  BY <1>2, <1>5 DEF Calendars
<1> QED  BY <1>2, <1>4, <1>6 DEF Calendars, new

\* Where a scan starts, and what was got last.
SamePlace(d, c) == d.top = c.top /\ d.lastprio = c.lastprio /\ d.lastbucket = c.lastbucket

\* A put adds its event, in its place.
LEMMA EnqueueAdds ==
  ASSUME NEW n, NEW num, NEW den, NEW c \in Queues(n, num, den), Widths(n, num, den), NEW p \in Prios
  PROVE  /\ Enqueue(c, p) \in Queues(n, num, den)
         /\ Enqueue(c, p).qsize = c.qsize + 1 /\ SamePlace(Enqueue(c, p), c)
         /\ \A P : Count(Enqueue(c, p), P) = Count(c, P) + One(p, P)
<1> PICK b : b = Virtual(p, num, den) % n
  OBVIOUS
<1> PICK s : s = c.calendar[b]
  OBVIOUS
<1> PICK k : k = Passed(s, p)
  OBVIOUS
<1> PICK t : t = Sorted(s, p)
  OBVIOUS
<1> PICK d : d = Enqueue(c, p)
  OBVIOUS
<1>1. /\ d \in Calendars(n, num, den) /\ d.calendar = [c.calendar EXCEPT ![b] = t]
      /\ d.qsize = c.qsize + 1 /\ SamePlace(d, c)
  BY EnqueueIs DEF SamePlace
<1>2. /\ c.calendar \in [0..(n - 1) -> Seq(Prios)] /\ Buckets(c) = 0..(n - 1)
      /\ c.nbuckets = n /\ c.num = num /\ c.den = den
      /\ Filed(c) /\ Counted(c) /\ c.lastbucket = Virtual(c.lastprio, num, den) % n
  <2>1. Tidy(c, n, num, den)
    BY QueueIs
  <2> QED  BY <2>1 DEF Tidy
<1>3. /\ d.calendar \in [0..(n - 1) -> Seq(Prios)] /\ Buckets(d) = 0..(n - 1)
      /\ d.nbuckets = n /\ d.num = num /\ d.den = den
  BY <1>1 DEF Calendars, Buckets
<1>4. b \in 0..(n - 1)
  BY BucketIs
<1>5. s \in Seq(Prios)
  BY <1>2, <1>4
<1>6. /\ k \in 0..Len(s) /\ t \in Seq(Prios) /\ Wider(s, t, k, p)
  BY <1>5, PassedIs, SortedIs
<1>7. d.calendar[b] = t /\ \A i \in 0..(n - 1) : i # b => d.calendar[i] = c.calendar[i]
  BY <1>1, <1>2, <1>4
<1>8. Grown(c, d, b, k, p)
  <2>1. \A i \in Buckets(c) : /\ c.calendar[i] \in Seq(Prios) /\ d.calendar[i] \in Seq(Prios)
                              /\ i # b => d.calendar[i] = c.calendar[i]
    BY <1>2, <1>3, <1>7
  <2> QED  BY <1>2, <1>3, <1>4, <1>6, <1>7, <2>1 DEF Grown
<1>9. \A P : IsFiniteSet(Among(d, P)) /\ Count(d, P) = Count(c, P) + One(p, P)
  BY <1>8, GrownCount, CountIs
<1>10. Counted(d)
  <2>1. Slots(d) = Among(d, Prios)
    BY <1>3, SlotsAre
  <2>2. Count(d, Prios) = c.qsize + 1
    BY <1>9, CountIs DEF One
  <2> QED  BY <1>1, <1>9, <2>1, <2>2 DEF Counted, Count
<1>11. Filed(d)
  <2> SUFFICES ASSUME NEW i \in 0..(n - 1)
               PROVE  /\ InOrder(d.calendar[i])
                      /\ \A j \in 1..Len(d.calendar[i]) : Virtual(d.calendar[i][j], num, den) % n = i
    BY <1>3 DEF Filed
  <2>1. /\ InOrder(c.calendar[i])
        /\ \A j \in 1..Len(c.calendar[i]) : Virtual(c.calendar[i][j], num, den) % n = i
    BY <1>2 DEF Filed
  <2>2. CASE i # b
    BY <1>7, <2>1, <2>2
  <2>3. CASE i = b
    <3>1. InOrder(t)
      BY <1>5, <2>1, <2>3, SortedInOrder
    <3>2. ASSUME NEW j \in 1..Len(t) PROVE t[j] = p \/ \E l \in 1..Len(s) : t[j] = s[l]
      <4>1. Len(s) \in Nat /\ Len(t) = Len(s) + 1
        BY <1>5, <1>6, EventsAre DEF Wider
      <4>2. CASE j <= k
        <5>1. j \in 1..k /\ j \in 1..Len(s)
          BY <1>6, <4>1, <4>2
        <5> QED  BY <1>6, <5>1 DEF Wider
      <4>3. CASE j = k + 1
        BY <1>6, <4>3 DEF Wider
      <4>4. CASE j > k + 1
        <5>1. j - 1 \in (k + 1)..Len(s) /\ j - 1 \in 1..Len(s) /\ (j - 1) + 1 = j
          BY <1>6, <4>1, <4>4
        <5>2. t[(j - 1) + 1] = s[j - 1]
          BY <1>6, <5>1 DEF Wider
        <5> QED  BY ONLY <5>1, <5>2
      <4>5. k \in Int /\ j \in Int
        BY <1>6, <4>1
      <4> QED  BY ONLY <4>2, <4>3, <4>4, <4>5
    <3>3. \A j \in 1..Len(t) : Virtual(t[j], num, den) % n = b
      BY <2>1, <2>3, <3>2
    <3> QED  BY <1>7, <2>3, <3>1, <3>3
  <2> QED  BY <2>2, <2>3
<1>12. d.lastbucket = Virtual(d.lastprio, num, den) % n
  BY <1>1, <1>2 DEF SamePlace
<1>13. d \in Queues(n, num, den)
  BY <1>1, <1>10, <1>11, <1>12 DEF Queues
<1> QED  BY <1>1, <1>9, <1>13

\* A get takes an event that is first in its bucket: the one of Place.
LEMMA PlaceIs ==
  ASSUME NEW n, NEW num, NEW den, NEW c \in Queues(n, num, den), Widths(n, num, den), c.qsize > 0
  PROVE  /\ Place(c).bucket \in 0..(n - 1) /\ c.calendar[Place(c).bucket] # <<>>
         /\ Place(c).top \in Int
<1>1. /\ c.calendar \in [0..(n - 1) -> Seq(Prios)] /\ Buckets(c) = 0..(n - 1)
      /\ c.nbuckets = n /\ c.num = num /\ c.den = den
      /\ c.top \in Int /\ c.lastbucket \in 0..(n - 1) /\ Counted(c)
  <2>1. Tidy(c, n, num, den)
    BY QueueIs
  <2> QED  BY <2>1 DEF Tidy
<1>2. CASE Hits(c) # {}
  <2>1. Hits(c) \in SUBSET Nat
    BY <1>1 DEF Hits
  <2> PICK d : d = Min(Hits(c))
    OBVIOUS
  <2>2. d \in Hits(c) /\ d \in Nat
    BY <1>2, <2>1, MinIs
  <2> PICK b : b = (c.lastbucket + d) % c.nbuckets
    OBVIOUS
  <2>3. c.calendar[b] # <<>>
    BY <2>2 DEF Hits
  <2>4. b \in 0..(n - 1)
    <3>1. c.lastbucket + d \in Int /\ n \in Nat \ {0}
      BY <1>1, <2>2 DEF Widths
    <3>2. (c.lastbucket + d) % n \in 0..(n - 1)
      BY ONLY <3>1, DivMod
    <3> QED  BY <1>1, <3>2
  <2>5. Place(c) = [bucket |-> b, top |-> c.top + 2 * d]
    BY <1>2 DEF Place, Scanned
  <2>6. c.top + 2 * d \in Int
    BY <1>1, <2>2
  <2> QED  BY <2>3, <2>4, <2>5, <2>6
<1>3. CASE Hits(c) = {}
  <2> DEFINE full == {i \in Buckets(c) : c.calendar[i] # <<>>}
             heads == {Head(c.calendar[i]) : i \in full}
             firsts == {i \in full : Head(c.calendar[i]) = Min(heads)}
  <2>1. full # {}
    <3>1. Slots(c) # {}
      BY <1>1, FS_EmptySet DEF Counted
    <3>2. PICK i \in Buckets(c) : DOMAIN c.calendar[i] # {}
      BY <3>1 DEF Slots
    <3>3. c.calendar[i] # <<>>
      BY <3>2
    <3> QED  BY <3>3
  <2>2. \A i \in full : i \in Nat /\ Head(c.calendar[i]) \in Nat
    <3> SUFFICES ASSUME NEW i \in full PROVE i \in Nat /\ Head(c.calendar[i]) \in Nat
      OBVIOUS
    <3>1. i \in 0..(n - 1) /\ c.calendar[i] \in Seq(Prios) /\ c.calendar[i] # <<>>
      BY <1>1
    <3>2. Head(c.calendar[i]) \in Prios
      BY <3>1, HeadTailProperties
    <3>3. i \in Nat
      BY <3>1 DEF Widths
    <3>4. Head(c.calendar[i]) \in Nat
      BY <3>2, PriosAre
    <3> QED  BY <3>3, <3>4
  <2>3. heads \in SUBSET Nat /\ heads # {}
    BY <2>1, <2>2
  <2>4. Min(heads) \in heads
    <3> HIDE DEF heads
    <3> QED  BY <2>3, MinIs
  <2>5. firsts \in SUBSET Nat /\ firsts # {}
    BY <2>2, <2>4
  <2>6. Min(firsts) \in firsts
    <3> HIDE DEF firsts
    <3> QED  BY <2>5, MinIs
  <2>7. Place(c).bucket = Min(firsts)
    BY <1>3 DEF Place, Searched
  <2>8. Place(c).top = IF c.num = 0 THEN c.top ELSE c.top + 2 * c.nbuckets
    BY <1>3 DEF Place, Searched
  <2>9. Place(c).top \in Int
    BY <1>1, <2>8 DEF Widths
  <2> QED  BY <1>1, <2>6, <2>7, <2>9
<1> QED  BY <1>2, <1>3

\* The queue without that event.
LEMMA DequeueTakes ==
  ASSUME NEW n, NEW num, NEW den, NEW c \in Queues(n, num, den), Widths(n, num, den), c.qsize > 0
  PROVE  /\ Dequeue(c) \in Queues(n, num, den)
         /\ Dequeue(c).qsize = c.qsize - 1 /\ Dequeue(c).top = Place(c).top
         /\ Dequeue(c).lastprio \in Prios
         /\ Dequeue(c).lastprio = Head(c.calendar[Place(c).bucket])
         /\ \A P : Count(c, P) = Count(Dequeue(c), P) + One(Dequeue(c).lastprio, P)
<1> PICK b : b = Place(c).bucket
  OBVIOUS
<1> PICK s : s = c.calendar[b]
  OBVIOUS
<1> PICK d : d = Dequeue(c)
  OBVIOUS
<1>1. b \in 0..(n - 1) /\ s # <<>> /\ Place(c).top \in Int
  BY PlaceIs
<1>2. /\ c.calendar \in [0..(n - 1) -> Seq(Prios)] /\ Buckets(c) = 0..(n - 1)
      /\ c.nbuckets = n /\ c.num = num /\ c.den = den /\ c.qsize \in Nat
      /\ Filed(c) /\ Counted(c)
  <2>1. Tidy(c, n, num, den)
    BY QueueIs
  <2> QED  BY <2>1 DEF Tidy
<1>3. /\ s \in Seq(Prios) /\ Head(s) \in Prios /\ Head(s) = s[1] /\ Tail(s) \in Seq(Prios)
      /\ Len(s) \in Nat /\ Len(s) = Len(Tail(s)) + 1
      /\ \A j \in 1..Len(Tail(s)) : Tail(s)[j] = s[j + 1]
  <2>1. s \in Seq(Prios) /\ Len(s) \in Nat
    BY <1>1, <1>2, EventsAre
  <2>2. Head(s) = s[1]
    BY <1>1, <2>1
  <2> QED  BY <1>1, <2>1, <2>2, HeadTailProperties
<1>4. /\ d \in Calendars(n, num, den) /\ d.calendar = [c.calendar EXCEPT ![b] = Tail(s)]
      /\ d.qsize = c.qsize - 1 /\ d.top = Place(c).top /\ d.lastbucket = b /\ d.lastprio = Head(s)
  <2>1. c \in Calendars(n, num, den)
    BY DEF Queues
  <2> DEFINE new == [c.calendar EXCEPT ![b] = Tail(s)]
             e == [c EXCEPT !.lastbucket = b, !.top = Place(c).top, !.lastprio = Head(s),
                            !.qsize = c.qsize - 1, !.calendar = new]
  <2>2. d = e
    BY <2>1 DEF Dequeue, Calendars
  <2>3. new \in [0..(n - 1) -> Seq(Prios)] /\ c.qsize - 1 \in Nat
    BY <1>1, <1>2, <1>3
  <2> HIDE DEF new
  <2>4. e \in Calendars(n, num, den)
    BY <1>1, <1>3, <2>1, <2>3 DEF Calendars
  <2>5. /\ e.calendar = new /\ e.qsize = c.qsize - 1 /\ e.top = Place(c).top
        /\ e.lastbucket = b /\ e.lastprio = Head(s)
    BY <2>1 DEF Calendars
  <2> QED  BY <2>2, <2>4, <2>5 DEF new
<1>5. /\ d.calendar \in [0..(n - 1) -> Seq(Prios)] /\ Buckets(d) = 0..(n - 1)
      /\ d.nbuckets = n /\ d.num = num /\ d.den = den
  BY <1>4 DEF Calendars, Buckets
<1>6. d.calendar[b] = Tail(s) /\ \A i \in 0..(n - 1) : i # b => d.calendar[i] = c.calendar[i]
  BY <1>1, <1>2, <1>4
<1>7. Grown(d, c, b, 0, Head(s))
  <2>1. \A i \in Buckets(d) : /\ d.calendar[i] \in Seq(Prios) /\ c.calendar[i] \in Seq(Prios)
                              /\ i # b => c.calendar[i] = d.calendar[i]
    BY <1>2, <1>5, <1>6
  <2>2. Len(Tail(s)) \in Nat
    BY <1>3, EventsAre
  <2>3. Wider(Tail(s), s, 0, Head(s))
    BY <1>3, <2>2 DEF Wider
  <2> QED  BY <1>1, <1>2, <1>5, <1>6, <2>1, <2>2, <2>3 DEF Grown
<1>8. \A P : IsFiniteSet(Among(d, P)) /\ Count(c, P) = Count(d, P) + One(Head(s), P)
  BY <1>7, GrownCount, CountIs
<1>9. Counted(d)
  <2>1. Slots(d) = Among(d, Prios)
    BY <1>5, SlotsAre
  <2>2. Count(c, Prios) = Count(d, Prios) + 1 /\ Count(c, Prios) = c.qsize
    BY <1>3, <1>8, CountIs DEF One
  <2>3. Count(d, Prios) \in Nat
    BY <1>8, FS_CardinalityType DEF Count
  <2> QED  BY <1>2, <1>4, <1>8, <2>1, <2>2, <2>3 DEF Counted, Count
<1>10. Filed(d)
  <2> SUFFICES ASSUME NEW i \in 0..(n - 1)
               PROVE  /\ InOrder(d.calendar[i])
                      /\ \A j \in 1..Len(d.calendar[i]) : Virtual(d.calendar[i][j], num, den) % n = i
    BY <1>5 DEF Filed
  <2>1. /\ InOrder(c.calendar[i])
        /\ \A j \in 1..Len(c.calendar[i]) : Virtual(c.calendar[i][j], num, den) % n = i
    BY <1>2 DEF Filed
  <2>2. CASE i # b
    BY <1>6, <2>1, <2>2
  <2>3. CASE i = b
    <3>1. \A j \in 1..Len(Tail(s)) : j + 1 \in 1..Len(s) /\ Tail(s)[j] = s[j + 1]
      BY <1>3, EventsAre
    <3>2. InOrder(Tail(s))
      BY <2>1, <2>3, <3>1 DEF InOrder
    <3>3. ASSUME NEW j \in 1..Len(Tail(s)) PROVE Virtual(Tail(s)[j], num, den) % n = b
      <4>1. \A l \in 1..Len(s) : Virtual(s[l], num, den) % n = b
        BY <2>1, <2>3
      <4>2. j + 1 \in 1..Len(s) /\ Tail(s)[j] = s[j + 1]
        BY <3>1
      <4> QED  BY ONLY <4>1, <4>2
    <3> QED  BY <1>6, <2>3, <3>2, <3>3
  <2> QED  BY <2>2, <2>3
<1>11. d.lastbucket = Virtual(d.lastprio, num, den) % n
  <2>1. 1 \in 1..Len(s)
    BY <1>3, EventsAre
  <2> QED  BY <1>1, <1>2, <1>3, <1>4, <2>1 DEF Filed
<1>12. d \in Queues(n, num, den)
  BY <1>4, <1>9, <1>10, <1>11 DEF Queues
<1> QED  BY <1>3, <1>4, <1>8, <1>12
-----------------------------------------------------------------------------
(* The loops of a resize. *)

\* How many of the first k events of s are in P.
InFirst(s, k, P) == Cardinality({j \in 1..k : s[j] \in P})

LEMMA InFirstIs ==
  ASSUME NEW s, NEW P
  PROVE  /\ InFirst(s, 0, P) = 0
         /\ \A k \in Nat : InFirst(s, k, P) \in Nat
         /\ \A k \in Nat \ {0} : InFirst(s, k, P) = InFirst(s, k - 1, P) + One(s[k], P)
<1> DEFINE S(k) == {j \in 1..k : s[j] \in P}
<1>1. ASSUME NEW k \in Nat PROVE IsFiniteSet(S(k)) /\ Cardinality(S(k)) \in Nat
  <2>1. IsFiniteSet(1..k) /\ S(k) \subseteq 1..k
    BY FS_Interval
  <2>2. IsFiniteSet(S(k))
    BY <2>1, FS_Subset
  <2> QED  BY <2>2, FS_CardinalityType
<1>2. S(0) = {}
  OBVIOUS
<1>3. ASSUME NEW k \in Nat \ {0} PROVE Cardinality(S(k)) = Cardinality(S(k - 1)) + One(s[k], P)
  <2>1. IsFiniteSet(S(k - 1)) /\ Cardinality(S(k - 1)) \in Nat /\ k \notin S(k - 1)
    BY <1>1
  <2>2. CASE s[k] \in P
    <3>1. S(k) = S(k - 1) \cup {k}
      BY <2>2
    <3> HIDE DEF S
    <3> QED  BY <2>1, <2>2, <3>1, FS_AddElement DEF One
  <2>3. CASE s[k] \notin P
    <3>1. S(k) = S(k - 1)
      BY <2>3
    <3> HIDE DEF S
    <3> QED  BY <2>1, <2>3, <3>1 DEF One
  <2> QED  BY <2>2, <2>3
<1> QED  BY <1>1, <1>2, <1>3, FS_EmptySet DEF InFirst

\* A sum stays in a set that is closed under addition.
LEMMA SumIs ==
  ASSUME NEW S, 0 \in S, \A a, b \in S : a + b \in S, NEW s \in Seq(S)
  PROVE  SumOf(s) \in S
<1> DEFINE m == Len(s)
           F(f) == [k \in 0..m |-> IF k = 0 THEN 0 ELSE f[k - 1] + s[k]]
           g == CHOOSE f : f = F(f)
           X == [k \in 0..m |-> S]
           h == [k \in 1..m |-> [y \in S |-> y + s[k]]]
<1>1. m \in Nat /\ \A k \in 1..m : s[k] \in S
  BY LenProperties
<1> HIDE DEF m
<1>2. /\ 0 \in X[0]
      /\ \A k \in 1..m : \A y \in X[k - 1] : h[k][y] \in X[k]
  BY <1>1
<1>3. PICK f : IsLoop(f, m, 0, h) /\ \A k \in 0..m : f[k] \in X[k]
  <2> HIDE DEF X, h
  <2> QED  BY <1>1, <1>2, LoopExists
<1>4. f = F(f)
  <2>1. ASSUME NEW k \in 0..m, k # 0 PROVE h[k][f[k - 1]] = f[k - 1] + s[k]
    <3>1. k \in 1..m /\ k - 1 \in 0..m
      BY <1>1, <2>1
    <3>2. f[k - 1] \in S
      BY <1>3, <3>1
    <3> QED  BY <3>1, <3>2
  <2> HIDE DEF h, X
  <2>2. \A k \in 0..m : (IF k = 0 THEN 0 ELSE h[k][f[k - 1]]) = (IF k = 0 THEN 0 ELSE f[k - 1] + s[k])
    BY <2>1
  <2>3. [k \in 0..m |-> IF k = 0 THEN 0 ELSE h[k][f[k - 1]]] = F(f)
    BY <2>2
  <2> QED  BY <1>3, <2>3 DEF IsLoop
<1>5. g = F(g)
  <2> HIDE DEF F
  <2> QED  BY <1>4
<1> HIDE DEF g
<1> DEFINE G == {k \in 0..m : g[k] \in S}
<1>6. 0 \in G
  BY <1>1, <1>5
<1>7. ASSUME NEW k \in 1..m, k - 1 \in G PROVE k \in G
  <2>1. k \in 0..m /\ k # 0
    BY <1>1
  <2>2. g[k] = g[k - 1] + s[k]
    BY <1>5, <2>1
  <2> QED  BY <1>1, <1>7, <2>1, <2>2
<1>8. g[m] \in S
  <2>1. 0..m \subseteq G
    <3> HIDE DEF G
    <3> QED  BY <1>1, <1>6, <1>7, UpTo
  <2> QED  BY <1>1, <2>1
<1> QED  BY <1>8 DEF SumOf, g, m

\* Putting the events of s adds them, and does not move the position.
LEMMA PutAllAdds ==
  ASSUME NEW n, NEW num, NEW den, NEW c \in Queues(n, num, den), Widths(n, num, den),
         NEW s \in Seq(Prios)
  PROVE  /\ PutAll(c, s) \in Queues(n, num, den)
         /\ PutAll(c, s).qsize = c.qsize + Len(s) /\ SamePlace(PutAll(c, s), c)
         /\ \A P : Count(PutAll(c, s), P) = Count(c, P) + InFirst(s, Len(s), P)
<1> DEFINE m == Len(s)
           F(f) == [k \in 0..m |-> IF k = 0 THEN c ELSE Enqueue(f[k - 1], s[k])]
           g == CHOOSE f : f = F(f)
           After(d, k) == /\ d \in Queues(n, num, den)
                          /\ d.qsize = c.qsize + k /\ SamePlace(d, c)
                          /\ \A P : Count(d, P) = Count(c, P) + InFirst(s, k, P)
           X == [k \in 0..m |-> {d \in Queues(n, num, den) : After(d, k)}]
           h == [k \in 1..m |-> [y \in X[k - 1] |-> Enqueue(y, s[k])]]
<1>1. m \in Nat /\ (\A k \in 1..m : s[k] \in Prios) /\ c.qsize \in Nat
  BY EventsAre, QueueIs DEF Tidy
<1> HIDE DEF m
<1>2. After(c, 0)
  <2>1. \A P : Count(c, P) \in Nat /\ InFirst(s, 0, P) = 0
    BY CountIs, InFirstIs
  <2> QED  BY <1>1, <2>1 DEF SamePlace
<1>3. ASSUME NEW k \in 1..m, NEW d, After(d, k - 1) PROVE After(Enqueue(d, s[k]), k)
  <2> DEFINE e == Enqueue(d, s[k])
  <2>1. /\ e \in Queues(n, num, den) /\ e.qsize = d.qsize + 1 /\ SamePlace(e, d)
        /\ \A P : Count(e, P) = Count(d, P) + One(s[k], P)
    BY <1>1, <1>3, EnqueueAdds
  <2>2. k \in Nat \ {0}
    BY <1>1
  <2> HIDE DEF e
  <2>3. e.qsize = c.qsize + k
    BY <1>1, <1>3, <2>1, <2>2
  <2>4. SamePlace(e, c)
    BY <1>3, <2>1 DEF SamePlace
  <2>5. ASSUME NEW P PROVE Count(e, P) = Count(c, P) + InFirst(s, k, P)
    <3>1. /\ Count(e, P) = Count(d, P) + One(s[k], P)
          /\ Count(d, P) = Count(c, P) + InFirst(s, k - 1, P)
          /\ InFirst(s, k, P) = InFirst(s, k - 1, P) + One(s[k], P)
      BY <1>3, <2>1, <2>2, InFirstIs
    <3>2. Count(c, P) \in Nat /\ InFirst(s, k - 1, P) \in Nat /\ One(s[k], P) \in Nat
      <4>1. k - 1 \in Nat
        BY <2>2
      <4> QED  BY <4>1, CountIs, InFirstIs DEF One
    <3> QED  BY <3>1, <3>2
  <2>6. After(e, k)
    BY <2>1, <2>3, <2>4, <2>5
  <2> QED  BY <2>6 DEF e
<1> HIDE DEF After
<1>4. \A k \in 1..m : k \in 0..m /\ k - 1 \in 0..m /\ k # 0
  BY <1>1
<1>5. \A d, k : After(d, k) => d \in Queues(n, num, den)
  BY DEF After
<1>6. /\ c \in X[0]
      /\ \A k \in 1..m : \A y \in X[k - 1] : h[k][y] \in X[k]
  BY <1>1, <1>2, <1>3, <1>4, <1>5
<1>7. PICK f : IsLoop(f, m, c, h) /\ \A k \in 0..m : f[k] \in X[k]
  <2> HIDE DEF X, h
  <2> QED  BY <1>1, <1>6, LoopExists
<1>8. f = F(f)
  <2>1. ASSUME NEW k \in 0..m, k # 0 PROVE h[k][f[k - 1]] = Enqueue(f[k - 1], s[k])
    <3>1. k \in 1..m /\ k - 1 \in 0..m
      BY <1>1, <2>1
    <3>2. f[k - 1] \in X[k - 1]
      BY <1>7, <3>1
    <3> QED  BY <3>1, <3>2
  <2> HIDE DEF h, X
  <2>2. \A k \in 0..m : (IF k = 0 THEN c ELSE h[k][f[k - 1]]) = (IF k = 0 THEN c ELSE Enqueue(f[k - 1], s[k]))
    BY <2>1
  <2>3. [k \in 0..m |-> IF k = 0 THEN c ELSE h[k][f[k - 1]]] = F(f)
    BY <2>2
  <2> QED  BY <1>7, <2>3 DEF IsLoop
<1>9. g = F(g)
  <2> HIDE DEF F
  <2> QED  BY <1>8
<1> HIDE DEF g
<1> DEFINE G == {k \in 0..m : After(g[k], k)}
<1>10. 0 \in G
  BY <1>1, <1>2, <1>9
<1>11. ASSUME NEW k \in 1..m, k - 1 \in G PROVE k \in G
  <2>1. g[k] = Enqueue(g[k - 1], s[k])
    BY <1>4, <1>9
  <2> QED  BY <1>3, <1>4, <1>11, <2>1
<1>12. After(g[m], m)
  <2>1. 0..m \subseteq G
    <3> HIDE DEF G
    <3> QED  BY <1>1, <1>10, <1>11, UpTo
  <2> QED  BY <1>1, <2>1
<1>13. PutAll(c, s) = g[m]
  BY DEF PutAll, g, m
<1> QED  BY <1>12, <1>13 DEF After, m

\* f is the run of m gets from c.
Draining(c, m, f, n, num, den) ==
  /\ f[0] = c /\ \A k \in 1..m : f[k] = Dequeue(f[k - 1])
  /\ \A k \in 0..m : f[k] \in Queues(n, num, den) /\ f[k].qsize = c.qsize - k

LEMMA DrainedRuns ==
  ASSUME NEW n, NEW num, NEW den, NEW c \in Queues(n, num, den), Widths(n, num, den),
         NEW m \in Nat, m <= c.qsize
  PROVE  Draining(c, m, Drained(c, m), n, num, den)
<1> DEFINE F(g) == [k \in 0..m |-> IF k = 0 THEN c ELSE Dequeue(g[k - 1])]
           After(d, k) == d \in Queues(n, num, den) /\ d.qsize = c.qsize - k
           X == [k \in 0..m |-> {d \in Queues(n, num, den) : After(d, k)}]
           h == [k \in 1..m |-> [y \in X[k - 1] |-> Dequeue(y)]]
<1> PICK f : f = Drained(c, m)
  OBVIOUS
<1>1. c.qsize \in Nat
  BY QueueIs DEF Tidy
<1>2. After(c, 0)
  BY <1>1
<1>3. ASSUME NEW k \in 1..m, NEW d, After(d, k - 1) PROVE After(Dequeue(d), k)
  <2>1. d.qsize > 0
    BY <1>1, <1>3
  <2>2. Dequeue(d) \in Queues(n, num, den) /\ Dequeue(d).qsize = d.qsize - 1
    BY <1>3, <2>1, DequeueTakes
  <2> QED  BY <1>1, <1>3, <2>2
<1>4. \A k \in 1..m : k \in 0..m /\ k - 1 \in 0..m /\ k # 0
  OBVIOUS
<1>5. \A d, k : After(d, k) => d \in Queues(n, num, den)
  OBVIOUS
<1> HIDE DEF After
<1>6. /\ c \in X[0]
      /\ \A k \in 1..m : \A y \in X[k - 1] : h[k][y] \in X[k]
  BY <1>2, <1>3, <1>4, <1>5
<1>7. PICK g : IsLoop(g, m, c, h) /\ \A k \in 0..m : g[k] \in X[k]
  <2> HIDE DEF X, h
  <2> QED  BY <1>6, LoopExists
<1>8. g = F(g)
  <2>1. ASSUME NEW k \in 0..m, k # 0 PROVE h[k][g[k - 1]] = Dequeue(g[k - 1])
    <3>1. k \in 1..m /\ k - 1 \in 0..m
      BY <2>1
    <3>2. g[k - 1] \in X[k - 1]
      BY <1>7, <3>1
    <3> QED  BY <3>1, <3>2
  <2> HIDE DEF h, X
  <2>2. \A k \in 0..m : (IF k = 0 THEN c ELSE h[k][g[k - 1]]) = (IF k = 0 THEN c ELSE Dequeue(g[k - 1]))
    BY <2>1
  <2>3. [k \in 0..m |-> IF k = 0 THEN c ELSE h[k][g[k - 1]]] = F(g)
    BY <2>2
  <2> QED  BY <1>7, <2>3 DEF IsLoop
<1>9. f = F(f)
  <2>1. f = CHOOSE e : e = F(e)
    BY DEF Drained
  <2> HIDE DEF F
  <2> QED  BY <1>8, <2>1
<1> DEFINE G == {k \in 0..m : After(f[k], k)}
<1>10. 0 \in G
  BY <1>2, <1>9
<1>11. ASSUME NEW k \in 1..m, k - 1 \in G PROVE k \in G
  <2>1. f[k] = Dequeue(f[k - 1])
    BY <1>4, <1>9
  <2> QED  BY <1>3, <1>4, <1>11, <2>1
<1>12. 0..m \subseteq G
  <2> HIDE DEF G
  <2> QED  BY <1>10, <1>11, UpTo
<1>13. f[0] = c /\ \A k \in 1..m : f[k] = Dequeue(f[k - 1])
  <2>1. f[0] = c
    BY <1>9
  <2>2. ASSUME NEW k \in 1..m PROVE f[k] = Dequeue(f[k - 1])
    BY <1>4, <1>9
  <2> QED  BY <2>1, <2>2
<1>14. \A k \in 0..m : f[k] \in Queues(n, num, den) /\ f[k].qsize = c.qsize - k
  BY <1>12 DEF After
<1> QED  BY <1>13, <1>14 DEF Draining

\* Getting m events takes them out, one by one.
LEMMA DrainedIs ==
  ASSUME NEW n, NEW num, NEW den, NEW c \in Queues(n, num, den), Widths(n, num, den),
         NEW m \in Nat, m <= c.qsize, NEW f, f = Drained(c, m)
  PROVE  \A k \in 0..m :
           /\ f[k] \in Queues(n, num, den)
           /\ \A P : Count(c, P) = Count(f[k], P) + InFirst([j \in 1..m |-> f[j].lastprio], k, P)
<1> DEFINE temp == [j \in 1..m |-> f[j].lastprio]
<1>1. c.qsize \in Nat
  BY QueueIs DEF Tidy
<1>2. /\ f[0] = c /\ \A k \in 1..m : f[k] = Dequeue(f[k - 1])
      /\ \A k \in 0..m : f[k] \in Queues(n, num, den) /\ f[k].qsize = c.qsize - k
  BY DrainedRuns DEF Draining
<1> DEFINE G == {k \in 0..m : \A P : Count(c, P) = Count(f[k], P) + InFirst(temp, k, P)}
<1>3. 0 \in G
  <2>1. \A P : Count(c, P) \in Nat /\ InFirst(temp, 0, P) = 0
    <3> HIDE DEF temp
    <3> QED  BY CountIs, InFirstIs
  <2> HIDE DEF temp
  <2> QED  BY <1>2, <2>1
<1>4. ASSUME NEW k \in 1..m, k - 1 \in G PROVE k \in G
  <2>1. f[k] = Dequeue(f[k - 1]) /\ temp[k] = f[k].lastprio
    BY <1>2
  <2>2. k \in Nat \ {0} /\ k - 1 \in Nat /\ k \in 0..m /\ k - 1 \in 0..m
    OBVIOUS
  <2>3. f[k - 1] \in Queues(n, num, den) /\ f[k - 1].qsize > 0 /\ f[k] \in Queues(n, num, den)
    <3>1. f[k - 1].qsize = c.qsize - (k - 1)
      BY <1>2, <2>2
    <3> QED  BY <1>1, <1>2, <2>2, <3>1
  <2>4. \A P : Count(f[k - 1], P) = Count(f[k], P) + One(temp[k], P)
    BY <2>1, <2>3, DequeueTakes
  <2>5. \A P : Count(c, P) = Count(f[k - 1], P) + InFirst(temp, k - 1, P)
    BY <1>4
  <2> HIDE DEF temp
  <2>6. ASSUME NEW P PROVE Count(c, P) = Count(f[k], P) + InFirst(temp, k, P)
    <3>1. InFirst(temp, k, P) = InFirst(temp, k - 1, P) + One(temp[k], P)
      BY <2>2, InFirstIs
    <3>2. Count(f[k], P) \in Nat
      BY <2>3, CountIs
    <3>3. InFirst(temp, k - 1, P) \in Nat /\ One(temp[k], P) \in Nat
      BY <2>2, InFirstIs DEF One
    <3>4. Count(c, P) = Count(f[k], P) + One(temp[k], P) + InFirst(temp, k - 1, P)
      BY <2>4, <2>5
    <3> QED  BY <3>1, <3>2, <3>3, <3>4
  <2> QED  BY <2>2, <2>6
<1>5. 0..m \subseteq G
  <2> HIDE DEF G
  <2> QED  BY <1>3, <1>4, UpTo
<1> QED  BY <1>2, <1>5

\* A queue put back where another one was.
LEMMA RestoredIs ==
  ASSUME NEW n, NEW num, NEW den, NEW b \in Queues(n, num, den), NEW c \in Queues(n, num, den)
  PROVE  /\ Restored(b, c) \in Queues(n, num, den) /\ SamePlace(Restored(b, c), c)
         /\ \A P : Count(Restored(b, c), P) = Count(b, P)
<1> DEFINE r == Restored(b, c)
<1>1. Tidy(b, n, num, den) /\ Tidy(c, n, num, den) /\ b \in Calendars(n, num, den)
  BY QueueIs DEF Queues
<1>2. r = [b EXCEPT !.top = c.top, !.lastbucket = c.lastbucket, !.lastprio = c.lastprio]
  BY DEF Restored
<1>3. /\ r.calendar = b.calendar /\ r.nbuckets = b.nbuckets /\ r.num = b.num /\ r.den = b.den
      /\ r.qsize = b.qsize /\ r.top = c.top /\ r.lastbucket = c.lastbucket /\ r.lastprio = c.lastprio
  BY <1>1, <1>2 DEF Calendars
<1>4. r \in Calendars(n, num, den)
  BY <1>1, <1>2 DEF Calendars, Tidy
<1> HIDE DEF r
<1>5. Slots(r) = Slots(b) /\ Buckets(r) = Buckets(b) /\ \A P : Among(r, P) = Among(b, P)
  BY <1>3 DEF Slots, Buckets, Among, Event
<1>6. Filed(r) /\ Counted(r) /\ r.lastbucket = Virtual(r.lastprio, num, den) % n
  BY <1>1, <1>3, <1>5 DEF Tidy, Filed, Counted
<1> QED  BY <1>3, <1>4, <1>5, <1>6 DEF Queues, SamePlace, Count, r

\* Between two and all of the events are sampled.
LEMMA SamplesAre ==
  ASSUME NEW c, c.qsize \in Nat, ~(c.qsize < 2)
  PROVE  Samples(c) \in Nat /\ Samples(c) <= c.qsize /\ Samples(c) >= 2
<1> PICK m : m = Samples(c)
  OBVIOUS
<1>1. CASE c.qsize <= 5
  BY <1>1 DEF Samples
<1>2. CASE ~(c.qsize <= 5)
  <2>1. c.qsize \div 10 \in Nat /\ 5 + c.qsize \div 10 <= c.qsize
    BY <1>2
  <2>2. {5 + c.qsize \div 10, 25} \in SUBSET Nat
    BY <2>1
  <2>3. m \in {5 + c.qsize \div 10, 25} /\ \A k \in {5 + c.qsize \div 10, 25} : m <= k
    BY <1>2, <2>2, MinIs DEF Samples
  <2> QED  BY <2>1, <2>3
<1> QED  BY <1>1, <1>2

\* Sampling gives a width, and leaves the queue with its events where it was.
LEMMA NewWidthIs ==
  ASSUME NEW n, NEW num, NEW den, NEW c \in Queues(n, num, den), Widths(n, num, den)
  PROVE  /\ new_width(c).num \in Int /\ new_width(c).den \in Nat \ {0}
         /\ new_width(c).queue \in Queues(n, num, den) /\ SamePlace(new_width(c).queue, c)
         /\ \A P : Count(new_width(c).queue, P) = Count(c, P)
<1>1. c.qsize \in Nat
  BY QueueIs DEF Tidy
<1>2. CASE c.qsize < 2
  <2>1. new_width(c) = [num |-> Unit, den |-> 1, queue |-> c]
    BY <1>2 DEF new_width
  <2> QED  BY <2>1, CalQueueAssumption DEF SamePlace
<1>3. CASE ~(c.qsize < 2)
  <2> PICK m : m = Samples(c)
    OBVIOUS
  <2> PICK f : f = Drained(c, m)
    OBVIOUS
  <2> DEFINE temp  == [k \in 1..m |-> f[k].lastprio]
             seps  == [k \in 1..(m - 1) |-> temp[k + 1] - temp[k]]
             total == SumOf(seps)
             kept  == {k \in 1..(m - 1) : seps[k] * (m - 1) < 2 * total}
             parts == [k \in 1..(m - 1) |-> IF k \in kept THEN seps[k] ELSE 0]
             back  == PutAll(f[m], temp)
  <2>1. m \in Nat /\ m <= c.qsize /\ m >= 2
    BY <1>1, <1>3, SamplesAre
  <2>2. \A k \in 0..m :
          /\ f[k] \in Queues(n, num, den)
          /\ \A P : Count(c, P) = Count(f[k], P) + InFirst(temp, k, P)
    BY <2>1, DrainedIs
  <2>3. \A k \in 1..m : f[k].lastprio \in Prios
    <3> SUFFICES ASSUME NEW k \in 1..m PROVE f[k].lastprio \in Prios
      OBVIOUS
    <3>1. f[k] \in Queues(n, num, den)
      BY <2>1, <2>2
    <3>2. Tidy(f[k], n, num, den)
      BY <3>1, QueueIs
    <3> QED  BY <3>2 DEF Tidy
  <2>4. temp \in Seq(Prios) /\ Len(temp) = m /\ \A k \in 1..m : temp[k] \in Int
    <3>1. temp \in [1..m -> Prios]
      BY <2>3
    <3> HIDE DEF temp
    <3>2. temp \in Seq(Prios) /\ Len(temp) = m
      BY <2>1, <3>1
    <3> QED  BY <3>2, EventsAre
  <2>5. seps \in Seq(Int)
    <3> HIDE DEF temp
    <3>1. seps \in [1..(m - 1) -> Int]
      BY <2>1, <2>4
    <3>2. m - 1 \in Nat
      BY <2>1
    <3> HIDE DEF seps
    <3> QED  BY <3>1, <3>2
  <2>6. kept \subseteq 1..(m - 1) /\ IsFiniteSet(kept)
    <3> HIDE DEF seps, total
    <3>1. IsFiniteSet(1..(m - 1))
      BY <2>1, FS_Interval
    <3> QED  BY <3>1, FS_Subset
  <2>7. parts \in Seq(Int)
    <3>1. \A k \in 1..(m - 1) : seps[k] \in Int
      BY <2>1, <2>4
    <3> HIDE DEF seps, kept
    <3>2. parts \in [1..(m - 1) -> Int]
      BY <3>1
    <3> QED  BY <2>1, <3>2
  <2>8. back \in Queues(n, num, den) /\ \A P : Count(back, P) = Count(c, P)
    <3>1. f[m] \in Queues(n, num, den) /\ \A P : Count(c, P) = Count(f[m], P) + InFirst(temp, m, P)
      BY <2>1, <2>2
    <3> HIDE DEF temp
    <3>2. /\ back \in Queues(n, num, den)
          /\ \A P : Count(back, P) = Count(f[m], P) + InFirst(temp, m, P)
      BY <2>4, <3>1, PutAllAdds
    <3> QED  BY <3>1, <3>2
  <2>9. /\ new_width(c).num = 3 * SumOf(parts)
        /\ new_width(c).den = IF kept = {} THEN 1 ELSE Cardinality(kept)
        /\ new_width(c).queue = Restored(back, c)
    BY <1>3 DEF new_width
  <2> HIDE DEF parts, kept, back
  <2>10. new_width(c).num \in Int
    <3>1. SumOf(parts) \in Int
      <4>1. 0 \in Int /\ \A a, b \in Int : a + b \in Int
        OBVIOUS
      <4> QED  BY <2>7, <4>1, SumIs
    <3> QED  BY <2>9, <3>1
  <2>11. new_width(c).den \in Nat \ {0}
    BY <2>6, <2>9, FS_EmptySet, FS_CardinalityType
  <2> QED  BY <2>8, <2>9, <2>10, <2>11, RestoredIs
<1> QED  BY <1>2, <1>3

\* What any calendar is, whatever its width.
Shaped(c) ==
  /\ c.nbuckets \in Nat \ {0} /\ c.calendar \in [Buckets(c) -> Seq(Prios)] /\ c.qsize \in Nat
  /\ c.num \in Int /\ c.den \in Nat \ {0} /\ c.top \in Int
  /\ c.lastprio \in Prios /\ c.lastbucket \in (1 - c.nbuckets)..(c.nbuckets - 1)

\* c is an empty calendar at priority p; it is a queue unless it is astray.
Fresh(c, n, num, den, p) ==
  /\ Shaped(c) /\ c.nbuckets = n /\ c.qsize = 0 /\ c.lastprio = p /\ c.num = num /\ c.den = den
  /\ c.top = 2 * Virtual(p, num, den) + 3
  /\ num >= 0 => c \in Queues(n, num, den)
  /\ \A P : Count(c, P) = 0

LEMMA LocalInitIs ==
  ASSUME NEW n \in Nat \ {0}, NEW num \in Int, NEW den \in Nat \ {0}, NEW p \in Prios
  PROVE  Fresh(localinit(n, num, den, p), n, num, den, p)
<1> PICK v : v = Virtual(p, num, den)
  OBVIOUS
<1> DEFINE c == localinit(n, num, den, p)
<1> PICK s : s = StartBucket(n, v)
  OBVIOUS
<1>1. /\ v \in Int /\ s \in (1 - n)..(n - 1)
      /\ num >= 0 => s \in 0..(n - 1) /\ s = v % n
  <2>1. v \in Int /\ (num >= 0 => v >= 0)
    BY VirtualType, PriosAre
  <2>2. CASE v >= 0
    <3>1. v % n \in 0..(n - 1)
      BY <2>1, DivMod
    <3> QED  BY <2>1, <2>2, <3>1 DEF StartBucket
  <2>3. CASE v < 0
    <3>1. -v \in Int /\ ~(v >= 0) /\ ~(num >= 0)
      BY <2>1, <2>3
    <3>2. (-v) % n \in 0..(n - 1)
      BY <3>1, DivMod
    <3>3. s = -((-v) % n)
      BY <3>1 DEF StartBucket
    <3> QED  BY <2>1, <3>1, <3>2, <3>3
  <2> QED  BY <2>1, <2>2, <2>3
<1>2. c = [calendar |-> [i \in 0..(n - 1) |-> <<>>], nbuckets |-> n, qsize |-> 0, num |-> num,
           den |-> den, lastprio |-> p, lastbucket |-> s, top |-> 2 * v + 3, astray |-> num < 0]
  BY DEF localinit
<1>3. /\ c.calendar = [i \in 0..(n - 1) |-> <<>>] /\ c.nbuckets = n /\ c.qsize = 0 /\ c.num = num
      /\ c.den = den /\ c.lastprio = p /\ c.lastbucket = s /\ c.top = 2 * v + 3
      /\ c.astray = (num < 0)
  BY <1>2
<1>4. <<>> \in Seq(Prios) /\ Len(<<>>) = 0 /\ DOMAIN <<>> = {}
  OBVIOUS
<1>5. [i \in 0..(n - 1) |-> <<>>] \in [0..(n - 1) -> Seq(Prios)]
  BY <1>4
<1>6. num >= 0 => c \in Calendars(n, num, den)
  <2> PICK cal : cal = [i \in 0..(n - 1) |-> <<>>]
    OBVIOUS
  <2> SUFFICES ASSUME num >= 0 PROVE c \in Calendars(n, num, den)
    OBVIOUS
  <2>1. (num < 0) = FALSE
    OBVIOUS
  <2>2. c = [calendar |-> cal, nbuckets |-> n, qsize |-> 0, num |-> num, den |-> den, lastprio |-> p,
             lastbucket |-> s, top |-> 2 * v + 3, astray |-> FALSE]
    BY <1>2, <2>1
  <2>3. 2 * v + 3 \in Int /\ s \in 0..(n - 1) /\ cal \in [0..(n - 1) -> Seq(Prios)]
    BY <1>1, <1>5
  <2> HIDE DEF c
  <2> QED  BY ONLY <2>2, <2>3, p \in Prios DEF Calendars
<1> HIDE DEF c
<1>7. Shaped(c)
  BY <1>1, <1>3, <1>5 DEF Shaped, Buckets
<1>8. Slots(c) = {} /\ \A P : Among(c, P) = {}
  BY <1>3, <1>4 DEF Slots, Buckets, Among
<1>9. Counted(c) /\ \A P : Count(c, P) = 0
  BY <1>3, <1>8, FS_EmptySet DEF Counted, Count
<1>10. Filed(c)
  BY <1>3, <1>4 DEF Filed, Buckets, InOrder
<1>11. num >= 0 => c \in Queues(n, num, den)
  BY <1>3, <1>6, <1>9, <1>10 DEF Queues
<1> QED  BY <1>3, <1>7, <1>9, <1>11 DEF c, Fresh

\* The positions of the last k buckets whose event is in P.
Late(c, k, P) == {z \in Among(c, P) : z[1] >= c.nbuckets - k}
EachAdds(c, n, P) ==
  \A k \in 1..n : Cardinality(Late(c, k, P)) =
    Cardinality(Late(c, k - 1, P)) + InFirst(c.calendar[n - k], Len(c.calendar[n - k]), P)

\* Each bucket adds its own.
LEMMA LateIs ==
  ASSUME NEW n, NEW num, NEW den, NEW c \in Queues(n, num, den), n \in Nat \ {0}, NEW P
  PROVE  /\ Cardinality(Late(c, 0, P)) = 0 /\ Cardinality(Late(c, n, P)) = Count(c, P)
         /\ EachAdds(c, n, P)
         /\ \A k \in 0..n : Cardinality(Late(c, k, P)) \in Nat
<1>1. /\ c.nbuckets = n /\ Buckets(c) = 0..(n - 1) /\ IsFiniteSet(Among(c, P))
      /\ \A i \in Buckets(c) : c.calendar[i] \in Seq(Prios)
  BY QueueIs, CountIs DEF Tidy
<1>2. \A z : z \in Among(c, P) <=>
        \E i \in Buckets(c) : \E j \in 1..Len(c.calendar[i]) : z = <<i, j>> /\ c.calendar[i][j] \in P
  BY <1>1, AmongIs
<1>3. \A z \in Among(c, P) : z[1] \in 0..(n - 1)
  BY <1>1, <1>2
<1>4. Late(c, 0, P) = {} /\ Late(c, n, P) = Among(c, P)
  BY <1>1, <1>3 DEF Late
<1>5. \A k : IsFiniteSet(Late(c, k, P)) /\ Cardinality(Late(c, k, P)) \in Nat
  <2> TAKE k
  <2>1. Late(c, k, P) \subseteq Among(c, P)
    BY DEF Late
  <2>2. IsFiniteSet(Late(c, k, P))
    BY <1>1, <2>1, FS_Subset
  <2> QED  BY <2>2, FS_CardinalityType
<1>6. ASSUME NEW k \in 1..n
      PROVE  Cardinality(Late(c, k, P)) =
               Cardinality(Late(c, k - 1, P)) + InFirst(c.calendar[n - k], Len(c.calendar[n - k]), P)
  <2> PICK i : i = n - k
    OBVIOUS
  <2> PICK s : s = c.calendar[i]
    OBVIOUS
  <2> DEFINE S == {j \in 1..Len(s) : s[j] \in P}
             T == {z \in Among(c, P) : z[1] = i}
             f == [j \in S |-> <<i, j>>]
  <2>1. i \in Buckets(c) /\ s \in Seq(Prios) /\ Len(s) \in Nat
    BY <1>1, EventsAre
  <2>2. \A z : z \in T <=> \E j \in S : z = <<i, j>>
    BY <1>2, <2>1
  <2>3. f \in Bijection(S, T)
    <3>1. f \in [S -> T]
      BY <2>2
    <3>2. \A x, y \in S : f[x] = f[y] => x = y
      OBVIOUS
    <3>3. \A z \in T : \E x \in S : f[x] = z
      BY <2>2
    <3> HIDE DEF f, S, T
    <3> QED  BY <3>1, <3>2, <3>3 DEF Bijection, Injection, Surjection, IsInjective
  <2>4. IsFiniteSet(S)
    <3>1. IsFiniteSet(1..Len(s))
      BY <2>1, FS_Interval
    <3> QED  BY <3>1, FS_Subset
  <2>5. IsFiniteSet(T) /\ Cardinality(T) = InFirst(s, Len(s), P)
    <3> HIDE DEF f, T
    <3>1. ExistsBijection(S, T)
      BY <2>3 DEF ExistsBijection
    <3>2. IsFiniteSet(T) /\ Cardinality(T) = Cardinality(S)
      <4> HIDE DEF S
      <4> QED  BY <2>4, <3>1, FS_Bijection
    <3> QED  BY <3>2 DEF InFirst
  <2>6. Late(c, k, P) = Late(c, k - 1, P) \cup T /\ Late(c, k - 1, P) \cap T = {}
    BY <1>1, <1>3 DEF Late
  <2> HIDE DEF T
  <2>7. Cardinality(T) \in Nat
    BY <2>5, FS_CardinalityType
  <2>8. Cardinality(Late(c, k, P)) = Cardinality(Late(c, k - 1, P)) + Cardinality(T) - 0
    BY <1>5, <2>5, <2>6, FS_Union, FS_EmptySet
  <2> QED  BY <1>5, <2>5, <2>7, <2>8
<1>7. EachAdds(c, n, P)
  BY <1>6 DEF EachAdds
<1> QED  BY <1>4, <1>5, <1>7, FS_EmptySet DEF Count

\* Copying onto an empty calendar brings over every event, and moves nothing else.
LEMMA CopiedIs ==
  ASSUME NEW n, NEW num, NEW den, NEW old \in Queues(n, num, den), n \in Nat \ {0},
         NEW n2, NEW num2, NEW den2, NEW empty \in Queues(n2, num2, den2), Widths(n2, num2, den2)
  PROVE  /\ Copied(old, empty) \in Queues(n2, num2, den2) /\ SamePlace(Copied(old, empty), empty)
         /\ \A P : Count(Copied(old, empty), P) = Count(empty, P) + Count(old, P)
<1> DEFINE F(f) == [k \in 0..n |-> IF k = 0 THEN empty ELSE PutAll(f[k - 1], old.calendar[n - k])]
           g == CHOOSE f : f = F(f)
           After(d, k) == /\ d \in Queues(n2, num2, den2) /\ SamePlace(d, empty)
                          /\ \A P : Count(d, P) = Count(empty, P) + Cardinality(Late(old, k, P))
           X == [k \in 0..n |-> {d \in Queues(n2, num2, den2) : After(d, k)}]
           h == [k \in 1..n |-> [y \in X[k - 1] |-> PutAll(y, old.calendar[n - k])]]
<1>1. /\ old.nbuckets = n /\ Buckets(old) = 0..(n - 1)
      /\ \A k \in 1..n : n - k \in 0..(n - 1) /\ old.calendar[n - k] \in Seq(Prios)
  <2>1. Tidy(old, n, num, den)
    BY QueueIs
  <2>2. \A k \in 1..n : n - k \in 0..(n - 1)
    OBVIOUS
  <2> QED  BY <2>1, <2>2 DEF Tidy
<1>2. After(empty, 0)
  <2>1. \A P : Count(empty, P) \in Nat /\ Cardinality(Late(old, 0, P)) = 0
    BY CountIs, LateIs
  <2> QED  BY <2>1 DEF SamePlace
<1>3. ASSUME NEW k \in 1..n, NEW d, After(d, k - 1) PROVE After(PutAll(d, old.calendar[n - k]), k)
  <2> PICK s : s = old.calendar[n - k]
    OBVIOUS
  <2> PICK e : e = PutAll(d, s)
    OBVIOUS
  <2>1. /\ e \in Queues(n2, num2, den2) /\ SamePlace(e, d)
        /\ \A P : Count(e, P) = Count(d, P) + InFirst(s, Len(s), P)
    BY <1>1, <1>3, PutAllAdds
  <2>2. SamePlace(e, empty)
    BY <1>3, <2>1 DEF SamePlace
  <2>3. ASSUME NEW P PROVE Count(e, P) = Count(empty, P) + Cardinality(Late(old, k, P))
    <3>1. /\ Count(e, P) = Count(d, P) + InFirst(s, Len(s), P)
          /\ Count(d, P) = Count(empty, P) + Cardinality(Late(old, k - 1, P))
      BY <1>3, <2>1
    <3>2. Cardinality(Late(old, k, P)) = Cardinality(Late(old, k - 1, P)) + InFirst(s, Len(s), P)
      <4>1. EachAdds(old, n, P)
        BY LateIs
      <4> QED  BY <4>1 DEF EachAdds
    <3>3. Count(empty, P) \in Nat /\ Cardinality(Late(old, k - 1, P)) \in Nat /\ InFirst(s, Len(s), P) \in Nat
      <4>1. k - 1 \in 0..n /\ s \in Seq(Prios)
        BY <1>1
      <4>2. Len(s) \in Nat
        BY <4>1, EventsAre
      <4> QED  BY <4>1, <4>2, CountIs, LateIs, InFirstIs
    <3> QED  BY <3>1, <3>2, <3>3
  <2> QED  BY <2>1, <2>2, <2>3
<1> HIDE DEF After
<1>4. \A k \in 1..n : k \in 0..n /\ k - 1 \in 0..n /\ k # 0
  OBVIOUS
<1>5. \A d, k : After(d, k) => d \in Queues(n2, num2, den2)
  BY DEF After
<1>6. /\ empty \in X[0]
      /\ \A k \in 1..n : \A y \in X[k - 1] : h[k][y] \in X[k]
  BY <1>2, <1>3, <1>4, <1>5
<1>7. PICK f : IsLoop(f, n, empty, h) /\ \A k \in 0..n : f[k] \in X[k]
  <2> HIDE DEF X, h
  <2> QED  BY <1>6, LoopExists
<1>8. f = F(f)
  <2>1. ASSUME NEW k \in 0..n, k # 0 PROVE h[k][f[k - 1]] = PutAll(f[k - 1], old.calendar[n - k])
    <3>1. k \in 1..n /\ k - 1 \in 0..n
      BY <2>1
    <3>2. f[k - 1] \in X[k - 1]
      BY <1>7, <3>1
    <3> QED  BY <3>1, <3>2
  <2> HIDE DEF h, X
  <2>2. \A k \in 0..n : (IF k = 0 THEN empty ELSE h[k][f[k - 1]]) =
                        (IF k = 0 THEN empty ELSE PutAll(f[k - 1], old.calendar[n - k]))
    BY <2>1
  <2>3. [k \in 0..n |-> IF k = 0 THEN empty ELSE h[k][f[k - 1]]] = F(f)
    BY <2>2
  <2> QED  BY <1>7, <2>3 DEF IsLoop
<1>9. g = F(g)
  <2> HIDE DEF F
  <2> QED  BY <1>8
<1> HIDE DEF g
<1> DEFINE G == {k \in 0..n : After(g[k], k)}
<1>10. 0 \in G
  BY <1>2, <1>9
<1>11. ASSUME NEW k \in 1..n, k - 1 \in G PROVE k \in G
  <2>1. g[k] = PutAll(g[k - 1], old.calendar[n - k])
    BY <1>4, <1>9
  <2> QED  BY <1>3, <1>4, <1>11, <2>1
<1>12. After(g[n], n)
  <2>1. 0..n \subseteq G
    <3> HIDE DEF G
    <3> QED  BY <1>10, <1>11, UpTo
  <2> QED  BY <2>1
<1>13. Copied(old, empty) = g[n]
  BY <1>1 DEF Copied, g
<1>14. \A P : Cardinality(Late(old, n, P)) = Count(old, P)
  BY LateIs
<1> QED  BY <1>12, <1>13, <1>14 DEF After

\* What a resize makes of c: n buckets with the same events, of a width that is
\* not negative, or the state in which the code works outside its array.
Resized(c, d, n) ==
  /\ Shaped(d) /\ d.nbuckets = n /\ d.lastprio = c.lastprio /\ d.astray \in BOOLEAN
  /\ d.astray => d.qsize = 0 /\ new_width(c).num < 0
  /\ ~d.astray => /\ d.num >= 0 /\ d \in Queues(n, d.num, d.den)
                  /\ \A P : Count(d, P) = Count(c, P)
                  /\ d.top = 2 * Virtual(d.lastprio, d.num, d.den) + 3

LEMMA QueueShaped ==
  ASSUME NEW n, NEW num, NEW den, NEW c \in Queues(n, num, den), Widths(n, num, den)
  PROVE  Shaped(c)
<1>1. Tidy(c, n, num, den)
  BY QueueIs
<1> QED  BY <1>1 DEF Tidy, Shaped, Widths

LEMMA ResizeIs ==
  ASSUME NEW n, NEW num, NEW den, NEW c \in Queues(n, num, den), Widths(n, num, den),
         NEW n2 \in Nat \ {0}
  PROVE  Resized(c, resize(c, n2), n2)
<1> PICK w : w = new_width(c)
  OBVIOUS
<1> PICK old : old = w.queue
  OBVIOUS
<1> PICK p : p = c.lastprio
  OBVIOUS
<1> PICK empty : empty = localinit(n2, w.num, w.den, p)
  OBVIOUS
<1> PICK d : d = resize(c, n2)
  OBVIOUS
<1>1. /\ w.num \in Int /\ w.den \in Nat \ {0} /\ old \in Queues(n, num, den) /\ old.lastprio = p
      /\ \A P : Count(old, P) = Count(c, P)
  BY NewWidthIs DEF SamePlace
<1>2. p \in Prios
  BY QueueIs DEF Tidy
<1>3. /\ Shaped(empty) /\ empty.nbuckets = n2 /\ empty.qsize = 0 /\ empty.lastprio = p
      /\ empty.num = w.num /\ empty.den = w.den
      /\ empty.top = 2 * Virtual(p, w.num, w.den) + 3
      /\ w.num >= 0 => empty \in Queues(n2, w.num, w.den)
      /\ \A P : Count(empty, P) = 0
  <2>1. Fresh(empty, n2, w.num, w.den, p)
    BY <1>1, <1>2, LocalInitIs
  <2> QED  BY <2>1 DEF Fresh
<1>4. empty.astray = (w.num < 0)
  <2>1. localinit(n2, w.num, w.den, p).astray = (w.num < 0)
    BY DEF localinit
  <2> QED  BY <2>1, Zenon
<1>5. d = IF empty.astray THEN empty ELSE Copied(old, empty)
  BY <1>1 DEF resize
<1>6. CASE w.num < 0
  <2>1. empty.astray /\ empty.astray \in BOOLEAN
    BY <1>4, <1>6
  <2>2. d = empty
    BY <1>5, <2>1
  <2>3. d.astray \in BOOLEAN /\ d.astray
    BY <2>1, <2>2, Zenon
  <2> QED  BY <1>3, <1>6, <2>2, <2>3 DEF Resized
<1>7. CASE ~(w.num < 0)
  <2>1. w.num \in Nat /\ w.num >= 0
    BY <1>1, <1>7
  <2>2. Widths(n2, w.num, w.den) /\ empty \in Queues(n2, w.num, w.den)
    BY <1>1, <1>3, <2>1 DEF Widths
  <2>3. n \in Nat \ {0}
    BY DEF Widths
  <2>4. /\ Copied(old, empty) \in Queues(n2, w.num, w.den) /\ SamePlace(Copied(old, empty), empty)
        /\ \A P : Count(Copied(old, empty), P) = Count(empty, P) + Count(old, P)
    BY <1>1, <2>2, <2>3, CopiedIs
  <2>5. d = Copied(old, empty)
    BY <1>4, <1>5, <1>7
  <2>6. \A P : Count(d, P) = Count(c, P)
    <3> TAKE P
    <3>1. Count(c, P) \in Nat
      BY CountIs
    <3>2. Count(d, P) = 0 + Count(c, P)
      BY <1>1, <1>3, <2>4, <2>5
    <3> QED  BY <3>1, <3>2
  <2>7. d \in Queues(n2, w.num, w.den) /\ SamePlace(d, empty)
    BY <2>4, <2>5
  <2>8. Shaped(d)
    BY <2>2, <2>7, QueueShaped
  <2>9. Tidy(d, n2, w.num, w.den)
    BY <2>7, QueueIs
  <2>10. d.nbuckets = n2 /\ d.num = w.num /\ d.den = w.den /\ ~d.astray
    BY <2>9 DEF Tidy
  <2>11. d.astray \in BOOLEAN
    BY <2>7 DEF Queues, Calendars
  <2>12. d.top = 2 * Virtual(d.lastprio, d.num, d.den) + 3 /\ d.lastprio = c.lastprio
    BY <1>3, <2>7, <2>10 DEF SamePlace
  <2> QED  BY <2>1, <2>6, <2>7, <2>8, <2>10, <2>11, <2>12 DEF Resized
<1> QED  BY <1>6, <1>7
-----------------------------------------------------------------------------
(* Counts, copies and what is pending. *)

\* Copies counts the positions of each priority.
LEMMA CopiesAre ==
  ASSUME NEW c
  PROVE  Copies(c) = [p \in Prios |-> Count(c, {p})]
<1>1. \A p : {z \in Slots(c) : Event(c, z) = p} = Among(c, {p})
  BY DEF Among
<1> QED  BY <1>1 DEF Copies, Count, Prios

\* One event more, or one less, in terms of the copies.
LEMMA Gained ==
  ASSUME NEW c, NEW d, NEW p \in Prios, \A P : Count(d, P) = Count(c, P) + One(p, P),
         \A P : Count(c, P) \in Nat
  PROVE  Copies(d) = [Copies(c) EXCEPT ![p] = @ + 1]
<1>1. ASSUME NEW r \in Prios PROVE Count(d, {r}) = IF r = p THEN Count(c, {r}) + 1 ELSE Count(c, {r})
  <2>1. Count(d, {r}) = Count(c, {r}) + One(p, {r}) /\ Count(c, {r}) \in Nat
    OBVIOUS
  <2>2. One(p, {r}) = IF r = p THEN 1 ELSE 0
    BY DEF One
  <2> QED  BY <2>1, <2>2
<1> DEFINE f == [r \in Prios |-> Count(c, {r})]
<1>2. [r \in Prios |-> Count(d, {r})] = [f EXCEPT ![p] = @ + 1]
  BY <1>1
<1> QED  BY <1>2, CopiesAre

LEMMA Lost ==
  ASSUME NEW c, NEW d, NEW p \in Prios, \A P : Count(c, P) = Count(d, P) + One(p, P),
         \A P : Count(d, P) \in Nat
  PROVE  Copies(d) = [Copies(c) EXCEPT ![p] = @ - 1]
<1>1. ASSUME NEW r \in Prios PROVE Count(d, {r}) = IF r = p THEN Count(c, {r}) - 1 ELSE Count(c, {r})
  <2>1. Count(c, {r}) = Count(d, {r}) + One(p, {r}) /\ Count(d, {r}) \in Nat
    OBVIOUS
  <2>2. One(p, {r}) = IF r = p THEN 1 ELSE 0
    BY DEF One
  <2> QED  BY <2>1, <2>2
<1> DEFINE f == [r \in Prios |-> Count(c, {r})]
<1>2. [r \in Prios |-> Count(d, {r})] = [f EXCEPT ![p] = @ - 1]
  BY <1>1
<1> QED  BY <1>2, CopiesAre

\* A priority is pending when its count is not 0.
LEMMA PendingCount ==
  ASSUME NEW n, NEW num, NEW den, NEW c \in Queues(n, num, den), NEW p
  PROVE  p \in Pending(c) <=> Count(c, {p}) # 0
<1>1. p \in Pending(c) <=> Among(c, {p}) # {}
  BY DEF Pending, Among
<1> QED  BY <1>1, CountIs
-----------------------------------------------------------------------------
(* The scan. *)

\* An event due before t + 3/2 is in virtual bucket t + 1 or an earlier one, and
\* one of bucket t or an earlier one is due.
LEMMA DueIs ==
  ASSUME NEW h \in Nat, NEW num \in Nat \ {0}, NEW den \in Nat \ {0}, NEW t \in Int
  PROVE  /\ 2 * h * den < (2 * t + 3) * num => Virtual(h, num, den) <= t + 1
         /\ Virtual(h, num, den) <= t => 2 * h * den < (2 * t + 3) * num
<1> PICK v : v = Virtual(h, num, den)
  OBVIOUS
<1> PICK a : a = h * den
  OBVIOUS
<1> PICK m : m = num * t
  OBVIOUS
<1>1. v \in Int /\ num * v <= a /\ a < num * (v + 1) /\ a \in Int /\ m \in Int
  <2>1. /\ Virtual(h, num, den) \in Int
        /\ num * Virtual(h, num, den) <= h * den
        /\ h * den < num * (Virtual(h, num, den) + 1)
    BY VirtualIs
  <2> QED  BY <2>1
<1>2. 2 * h * den = 2 * a
  OBVIOUS
<1>3. /\ (2 * t + 3) * num = 2 * m + 3 * num
      /\ num * (t + 2) = m + 2 * num /\ num * (t + 1) = m + num
  OBVIOUS
<1>4. num * v \in Int /\ num * (v + 1) \in Int
  BY <1>1
<1>5. ASSUME 2 * a < 2 * m + 3 * num, t + 2 <= v PROVE FALSE
  <2>1. num * (t + 2) <= num * v
    BY <1>1, <1>5, TimesLess
  <2> QED  BY <1>1, <1>3, <1>4, <1>5, <2>1
<1>6. ASSUME v <= t PROVE 2 * a < 2 * m + 3 * num
  <2>1. num * (v + 1) <= num * (t + 1)
    BY <1>1, <1>6, TimesLess
  <2> QED  BY <1>1, <1>3, <1>4, <2>1
<1> QED  BY <1>1, <1>2, <1>3, <1>5, <1>6

\* The position of c is right: Aligned, of any queue.
Right(c) ==
  /\ c.num > 0 => c.top = 2 * Virtual(c.lastprio, c.num, c.den) + 3
  /\ \A p \in Pending(c) : c.lastprio <= p

\* What is pending is somewhere in a bucket.
LEMMA PendingIs ==
  ASSUME NEW c, NEW p, \A i \in Buckets(c) : c.calendar[i] \in Seq(Prios)
  PROVE  p \in Pending(c) <=>
           \E i \in Buckets(c) : \E j \in 1..Len(c.calendar[i]) : c.calendar[i][j] = p
<1>1. \A i \in Buckets(c) : DOMAIN c.calendar[i] = 1..Len(c.calendar[i])
  OBVIOUS
<1>2. \A i, j : Event(c, <<i, j>>) = c.calendar[i][j]
  BY DEF Event
<1>3. \A z \in Slots(c) : \E i \in Buckets(c) : \E j \in 1..Len(c.calendar[i]) : z = <<i, j>>
  BY <1>1 DEF Slots
<1>4. \A i \in Buckets(c) : \A j \in 1..Len(c.calendar[i]) : <<i, j>> \in Slots(c)
  BY <1>1 DEF Slots
<1>5. ASSUME p \in Pending(c)
      PROVE  \E i \in Buckets(c) : \E j \in 1..Len(c.calendar[i]) : c.calendar[i][j] = p
  <2>1. PICK z \in Slots(c) : p = Event(c, z)
    BY <1>5 DEF Pending
  <2> QED  BY <1>2, <1>3, <2>1
<1>6. ASSUME NEW i \in Buckets(c), NEW j \in 1..Len(c.calendar[i]), c.calendar[i][j] = p
      PROVE  p \in Pending(c)
  <2>1. <<i, j>> \in Slots(c) /\ Event(c, <<i, j>>) = p
    BY <1>2, <1>4, <1>6
  <2> QED  BY <2>1 DEF Pending
<1> QED  BY <1>5, <1>6

\* The head h of bucket i: pending, and in its own bucket.
HeadOf(c, i, h) ==
  /\ i \in Buckets(c) /\ c.calendar[i] # <<>> /\ h = Head(c.calendar[i]) /\ h \in Nat
  /\ h \in Pending(c) /\ Virtual(h, c.num, c.den) % c.nbuckets = i

LEMMA HeadIs ==
  ASSUME NEW n, NEW num, NEW den, NEW c \in Queues(n, num, den), NEW i \in Buckets(c),
         c.calendar[i] # <<>>
  PROVE  HeadOf(c, i, Head(c.calendar[i]))
<1> PICK s : s = c.calendar[i]
  OBVIOUS
<1>1. Tidy(c, n, num, den)
  BY QueueIs
<1>2. s \in Seq(Prios) /\ s # <<>> /\ Filed(c) /\ \A b \in Buckets(c) : c.calendar[b] \in Seq(Prios)
  BY <1>1 DEF Tidy
<1>3. Head(s) = s[1] /\ 1 \in 1..Len(s)
  BY <1>2
<1>4. Head(s) \in Prios
  BY <1>2, HeadTailProperties
<1>5. Head(s) \in Nat
  BY <1>4, PriosAre
<1>6. Head(s) \in Pending(c)
  BY <1>2, <1>3, PendingIs
<1>7. Virtual(Head(s), c.num, c.den) % c.nbuckets = i
  BY <1>2, <1>3 DEF Filed
<1> QED  BY <1>2, <1>5, <1>6, <1>7 DEF HeadOf

\* Whatever is pending has a head that is not after it.
LEMMA HeadBefore ==
  ASSUME NEW n, NEW num, NEW den, NEW c \in Queues(n, num, den), NEW p \in Pending(c)
  PROVE  p \in Nat /\ \E i \in Buckets(c) : \E h : HeadOf(c, i, h) /\ h <= p
<1>1. Tidy(c, n, num, den)
  BY QueueIs
<1>2. Filed(c) /\ \A b \in Buckets(c) : c.calendar[b] \in Seq(Prios)
  BY <1>1 DEF Tidy
<1>3. PICK i \in Buckets(c) : \E j \in 1..Len(c.calendar[i]) : c.calendar[i][j] = p
  BY <1>2, PendingIs
<1>4. PICK j \in 1..Len(c.calendar[i]) : c.calendar[i][j] = p
  BY <1>3
<1> PICK s : s = c.calendar[i]
  OBVIOUS
<1>5. s \in Seq(Prios) /\ Len(s) \in Nat /\ s[j] \in Prios /\ 1 \in 1..Len(s) /\ InOrder(s) /\ j >= 1
  BY <1>2, <1>4, EventsAre DEF Filed
<1>6. Head(s) = s[1] /\ s # <<>>
  BY <1>5
<1>7. Head(s) <= p
  BY <1>4, <1>5, <1>6 DEF InOrder
<1>8. HeadOf(c, i, Head(s))
  BY <1>6, HeadIs
<1>9. p \in Nat
  BY <1>4, <1>5, PriosAre
<1> QED  BY <1>7, <1>8, <1>9

\* From a right position the scan, when it finds an event, finds one of the
\* virtual bucket it has come to.
LEMMA HitIs ==
  ASSUME NEW n, NEW num, NEW den, NEW c \in Queues(n, num, den), Widths(n, num, den), n >= 2, Right(c),
         NEW d \in Hits(c), NEW v, v = Virtual(c.lastprio, num, den),
         NEW b, b = (c.lastbucket + d) % n, NEW h, h = Head(c.calendar[b])
  PROVE  /\ num > 0 /\ v \in Int /\ d \in 0..(n - 1) /\ c.top = 2 * v + 3
         /\ HeadOf(c, b, h) /\ Virtual(h, num, den) = v + d
<1>1. /\ c.nbuckets = n /\ c.num = num /\ c.den = den /\ Buckets(c) = 0..(n - 1)
      /\ c.lastprio \in Prios /\ c.top \in Int /\ c.lastbucket = v % n
  <2>1. Tidy(c, n, num, den)
    BY QueueIs
  <2> QED  BY <2>1 DEF Tidy
<1>2. c.lastprio \in Nat /\ n \in Nat \ {0} /\ num \in Nat /\ den \in Nat \ {0}
  BY <1>1, PriosAre DEF Widths
<1>3. v \in Int
  BY <1>2, VirtualType
<1>4. d \in 0..(n - 1) /\ d \in Int /\ c.calendar[b] # <<>> /\ Before(c, h, c.top + 2 * d)
  <2>1. d \in Buckets(c) /\ c.calendar[b] # <<>> /\ Before(c, h, c.top + 2 * d)
    <3> PICK a : a = (c.lastbucket + d) % c.nbuckets
      OBVIOUS
    <3>1. d \in Buckets(c) /\ c.calendar[a] # <<>> /\ Before(c, Head(c.calendar[a]), c.top + 2 * d)
      BY DEF Hits
    <3>2. a = b
      BY <1>1
    <3> QED  BY <3>1, <3>2
  <2> QED  BY <1>1, <1>2, <2>1
<1>5. b = (v + d) % n /\ b \in 0..(n - 1)
  <2>1. ((v % n) + d) % n = (v + d) % n
    BY <1>2, <1>3, <1>4, ModPlus
  <2>2. v + d \in Int
    BY <1>3, <1>4
  <2>3. (v + d) % n \in 0..(n - 1)
    BY <1>2, <2>2, DivMod
  <2> QED  BY <1>1, <2>1, <2>3
<1>6. HeadOf(c, b, h)
  BY <1>1, <1>4, <1>5, HeadIs
<1>7. h \in Nat /\ h \in Pending(c) /\ Virtual(h, num, den) % n = b
  BY <1>1, <1>6 DEF HeadOf
<1> PICK w : w = Virtual(h, num, den)
  OBVIOUS
<1>8. w \in Int
  BY <1>2, <1>7, VirtualType
<1>9. 2 * h * den < (c.top + 2 * d) * num
  BY <1>1, <1>4 DEF Before
<1>10. num > 0 /\ num \in Nat \ {0}
  <2> SUFFICES ASSUME num = 0 PROVE FALSE
    BY <1>2
  <2>1. (c.top + 2 * d) * num = 0
    <3>1. \A t \in Int : t * 0 = 0
      OBVIOUS
    <3>2. c.top \in Int /\ d \in Int
      BY <1>1, <1>4
    <3>3. c.top + 2 * d \in Int
      BY ONLY <3>2
    <3>4. (c.top + 2 * d) * 0 = 0
      BY ONLY <3>1, <3>3
    <3> QED  BY <3>4
  <2>2. h * den \in Nat /\ 2 * h * den = 2 * (h * den)
    BY <1>2, <1>7
  <2> QED  BY <1>9, <2>1, <2>2
<1>11. c.top = 2 * v + 3
  BY <1>1, <1>10 DEF Right
<1>12. w <= v + d + 1
  <2>1. v + d \in Int /\ c.top + 2 * d = 2 * (v + d) + 3
    BY <1>3, <1>4, <1>11
  <2>2. 2 * h * den < (2 * (v + d) + 3) * num => w <= (v + d) + 1
    BY <1>2, <1>7, <1>10, <2>1, DueIs
  <2> QED  BY <1>9, <2>1, <2>2
<1>13. v <= w
  <2>1. c.lastprio <= h
    BY <1>7 DEF Right
  <2> QED  BY <1>2, <1>7, <1>10, <2>1, VirtualUp
<1>14. w # v + d + 1
  <2> SUFFICES ASSUME w = v + d + 1 PROVE FALSE
    OBVIOUS
  <2>1. v + d \in Int /\ v + d < w
    BY <1>3, <1>4
  <2>2. (v + d) + n <= w
    BY <1>2, <1>5, <1>7, <1>8, <2>1, ModApart
  <2> QED  BY <1>2, <1>3, <1>4, <2>2
<1>15. ~(w < v + d)
  <2> SUFFICES ASSUME w < v + d PROVE FALSE
    OBVIOUS
  <2>1. v + d \in Int
    BY <1>3, <1>4
  <2>2. w + n <= v + d
    BY <1>2, <1>5, <1>7, <1>8, <2>1, ModApart
  <2> QED  BY <1>2, <1>3, <1>4, <1>8, <1>13, <2>2
<1>16. w = v + d
  BY <1>3, <1>4, <1>8, <1>12, <1>14, <1>15
<1> QED  BY <1>3, <1>4, <1>6, <1>10, <1>11, <1>16

\* From a right position no event is before the one a get takes, and the scan
\* leaves buckettop in that event's bucket.
LEMMA PlaceFirst ==
  ASSUME NEW n, NEW num, NEW den, NEW c \in Queues(n, num, den), Widths(n, num, den), n >= 2, Right(c),
         c.qsize > 0, NEW h, h = Head(c.calendar[Place(c).bucket])
  PROVE  /\ \A p \in Pending(c) : h <= p
         /\ Hits(c) # {} => num > 0 /\ Place(c).top = 2 * Virtual(h, num, den) + 3
<1>1. /\ c.nbuckets = n /\ c.num = num /\ c.den = den /\ Buckets(c) = 0..(n - 1)
      /\ c.lastprio \in Prios /\ c.top \in Int /\ c.lastbucket = Virtual(c.lastprio, num, den) % n
  <2>1. Tidy(c, n, num, den)
    BY QueueIs
  <2> QED  BY <2>1 DEF Tidy
<1>2. c.lastprio \in Nat /\ n \in Nat \ {0} /\ num \in Nat /\ den \in Nat \ {0}
  BY <1>1, PriosAre DEF Widths
<1> PICK v : v = Virtual(c.lastprio, num, den)
  OBVIOUS
<1>3. v \in Int
  BY <1>2, VirtualType
<1>4. CASE Hits(c) # {}
  <2> PICK d : d = Min(Hits(c))
    OBVIOUS
  <2> PICK b : b = (c.lastbucket + d) % n
    OBVIOUS
  <2>1. d \in Hits(c) /\ \A e \in Hits(c) : d <= e
    <3>1. Hits(c) \in SUBSET Nat
      <4>1. Hits(c) \subseteq Buckets(c)
        BY DEF Hits
      <4>2. 0..(n - 1) \subseteq Nat
        BY <1>2
      <4> QED  BY <1>1, <4>1, <4>2
    <3> QED  BY <1>4, <3>1, MinIs
  <2>2. Place(c) = [bucket |-> b, top |-> c.top + 2 * d]
    BY <1>1, <1>4 DEF Place, Scanned
  <2>3. h = Head(c.calendar[b])
    BY <2>2
  <2>4. /\ num > 0 /\ d \in 0..(n - 1) /\ c.top = 2 * v + 3
        /\ HeadOf(c, b, h) /\ Virtual(h, num, den) = v + d
    BY <2>1, <2>3, HitIs
  <2>5. h \in Nat /\ num \in Nat \ {0} /\ d \in Int
    BY <1>2, <2>4 DEF HeadOf
  <2>6. Place(c).top = 2 * (v + d) + 3
    BY <1>3, <2>2, <2>4, <2>5
  <2>7. ASSUME NEW p \in Pending(c) PROVE h <= p
    <3>1. p \in Nat /\ \E i \in Buckets(c) : \E r : HeadOf(c, i, r) /\ r <= p
      BY HeadBefore
    <3>2. PICK i \in Buckets(c) : \E r : HeadOf(c, i, r) /\ r <= p
      BY <3>1
    <3>3. PICK r : HeadOf(c, i, r) /\ r <= p
      BY <3>2
    <3>4. /\ r \in Nat /\ r \in Pending(c) /\ Virtual(r, num, den) % n = i
          /\ r = Head(c.calendar[i]) /\ c.calendar[i] # <<>>
      BY <1>1, <3>3 DEF HeadOf
    <3> PICK w : w = Virtual(r, num, den)
      OBVIOUS
    <3>5. w \in Int
      <4>1. r \in Nat /\ num \in Int
        BY <1>2, <3>4
      <4>2. Virtual(r, num, den) \in Int
        BY ONLY <1>2, <4>1, VirtualType
      <4> QED  BY <4>2
    <3> SUFFICES ASSUME r < h PROVE FALSE
      BY <2>5, <3>1, <3>3, <3>4
    <3>6. w <= v + d
      <4>1. r <= h
        BY <2>5, <3>4
      <4>2. Virtual(r, num, den) <= Virtual(h, num, den)
        BY <1>2, <2>5, <3>4, <4>1, VirtualUp
      <4> QED  BY <2>4, <4>2
    <3>7. v <= w
      <4>1. c.lastprio <= r
        BY <3>4 DEF Right
      <4> QED  BY <1>2, <2>5, <3>4, <4>1, VirtualUp
    <3> PICK e : e = w - v
      OBVIOUS
    <3>8. e \in 0..(n - 1) /\ e <= d /\ w = v + e /\ e \in Int
      BY <1>2, <1>3, <2>4, <3>5, <3>6, <3>7
    <3>9. (c.lastbucket + e) % n = i
      <4>1. ((v % n) + e) % n = (v + e) % n
        BY <1>2, <1>3, <3>8, ModPlus
      <4>2. (v + e) % n = i /\ c.lastbucket = v % n
        BY <1>1, <3>4, <3>8
      <4> QED  BY <4>1, <4>2
    <3>10. Before(c, r, c.top + 2 * e)
      <4>1. v + e \in Int /\ c.top + 2 * e = 2 * (v + e) + 3 /\ w <= v + e
        BY <1>3, <2>4, <3>8
      <4>2. w <= v + e => 2 * r * den < (2 * (v + e) + 3) * num
        BY <1>2, <2>5, <3>4, <4>1, DueIs
      <4> QED  BY <1>1, <4>1, <4>2 DEF Before
    <3>11. e \in Hits(c)
      BY <1>1, <3>4, <3>8, <3>9, <3>10 DEF Hits
    <3>12. e = d
      BY <2>1, <2>5, <3>8, <3>11
    <3>13. r = h
      BY <2>3, <3>4, <3>9, <3>12
    <3> QED  BY <2>5, <3>13
  <2> QED  BY <2>4, <2>6, <2>7
<1>5. CASE Hits(c) = {}
  <2> DEFINE full == {i \in Buckets(c) : c.calendar[i] # <<>>}
             heads == {Head(c.calendar[i]) : i \in full}
             firsts == {i \in full : Head(c.calendar[i]) = Min(heads)}
  <2>1. \A i \in full : i \in Nat /\ Head(c.calendar[i]) \in Nat
    <3> SUFFICES ASSUME NEW i \in full PROVE i \in Nat /\ Head(c.calendar[i]) \in Nat
      OBVIOUS
    <3>1. HeadOf(c, i, Head(c.calendar[i]))
      BY HeadIs
    <3> QED  BY <1>1, <1>2, <3>1 DEF HeadOf
  <2>2. Place(c).bucket = Min(firsts)
    BY <1>5 DEF Place, Searched
  <2>3. ASSUME NEW p \in Pending(c) PROVE h <= p
    <3>1. p \in Nat /\ \E i \in Buckets(c) : \E r : HeadOf(c, i, r) /\ r <= p
      BY HeadBefore
    <3>2. PICK i \in Buckets(c) : \E r : HeadOf(c, i, r) /\ r <= p
      BY <3>1
    <3>3. PICK r : HeadOf(c, i, r) /\ r <= p
      BY <3>2
    <3>4. r \in heads /\ r \in Nat
      BY <3>3 DEF HeadOf
    <3>5. heads \in SUBSET Nat /\ heads # {}
      BY <2>1, <3>4
    <3>6. Min(heads) \in heads /\ Min(heads) <= r
      <4> HIDE DEF heads
      <4> QED  BY <3>4, <3>5, MinIs
    <3>7. firsts \in SUBSET Nat /\ firsts # {}
      BY <2>1, <3>6
    <3>8. Min(firsts) \in firsts
      <4> HIDE DEF firsts
      <4> QED  BY <3>7, MinIs
    <3>9. h = Min(heads)
      BY <2>2, <3>8
    <3>10. h \in Nat
      BY <3>5, <3>6, <3>9
    <3> QED  BY <3>1, <3>3, <3>4, <3>6, <3>9, <3>10
  <2> QED  BY <1>5, <2>3
<1> QED  BY <1>4, <1>5

\* A scan that finds an event leaves the position right, one event later.
LEMMA DequeueRight ==
  ASSUME NEW n, NEW num, NEW den, NEW c \in Queues(n, num, den), Widths(n, num, den), n >= 2, Right(c),
         c.qsize > 0, Hits(c) # {}
  PROVE  Right(Dequeue(c)) /\ c.lastprio <= Dequeue(c).lastprio
<1> PICK e : e = Dequeue(c)
  OBVIOUS
<1> PICK h : h = e.lastprio
  OBVIOUS
<1>1. /\ e \in Queues(n, num, den) /\ e.top = Place(c).top
      /\ h = Head(c.calendar[Place(c).bucket])
      /\ \A P : Count(c, P) = Count(e, P) + One(h, P)
  BY DequeueTakes
<1>2. /\ \A p \in Pending(c) : h <= p
      /\ num > 0 /\ Place(c).top = 2 * Virtual(h, num, den) + 3
  BY <1>1, PlaceFirst
<1>3. e.num = num /\ e.den = den
  BY <1>1, QueueIs DEF Tidy
<1>4. \A p : p \in Pending(e) => p \in Pending(c)
  <2> TAKE p
  <2>1. Count(c, {p}) = Count(e, {p}) + One(h, {p}) /\ Count(e, {p}) \in Nat
    BY <1>1, CountIs
  <2>2. One(h, {p}) \in Nat
    BY DEF One
  <2>3. Count(e, {p}) # 0 => Count(c, {p}) # 0
    BY <2>1, <2>2
  <2> QED  BY <1>1, <2>3, PendingCount
<1>5. Right(e)
  BY <1>1, <1>2, <1>3, <1>4 DEF Right
<1>6. h \in Pending(c)
  <2>1. Place(c).bucket \in Buckets(c) /\ c.calendar[Place(c).bucket] # <<>>
    <3>1. Place(c).bucket \in 0..(n - 1) /\ c.calendar[Place(c).bucket] # <<>>
      BY PlaceIs
    <3>2. Buckets(c) = 0..(n - 1)
      BY QueueIs DEF Tidy
    <3> QED  BY <3>1, <3>2
  <2>2. HeadOf(c, Place(c).bucket, h)
    BY <1>1, <2>1, HeadIs
  <2> QED  BY <2>2 DEF HeadOf
<1>7. c.lastprio <= h
  BY <1>6 DEF Right
<1> QED  BY <1>5, <1>7

\* Samples that are all found by the scan come in order.
LEMMA SamplesRise ==
  ASSUME NEW n, NEW num, NEW den, NEW c \in Queues(n, num, den), Widths(n, num, den), n >= 2, Right(c),
         NEW m \in Nat, m <= c.qsize, NEW f, f = Drained(c, m),
         \A k \in 0..(m - 1) : Hits(f[k]) # {}
  PROVE  \A k \in 1..m : f[k - 1].lastprio <= f[k].lastprio
<1>1. /\ f[0] = c /\ \A k \in 1..m : f[k] = Dequeue(f[k - 1])
      /\ \A k \in 0..m : f[k] \in Queues(n, num, den) /\ f[k].qsize = c.qsize - k
  BY DrainedRuns DEF Draining
<1>2. c.qsize \in Nat
  BY QueueIs DEF Tidy
<1> DEFINE G == {k \in 0..m : Right(f[k])}
<1>3. 0 \in G
  BY <1>1
<1>4. ASSUME NEW k \in 1..m, Right(f[k - 1])
      PROVE  Right(f[k]) /\ f[k - 1].lastprio <= f[k].lastprio
  <2>1. k - 1 \in 0..m /\ k - 1 \in 0..(m - 1)
    OBVIOUS
  <2>2. f[k - 1] \in Queues(n, num, den) /\ f[k - 1].qsize > 0 /\ Hits(f[k - 1]) # {}
    <3>1. f[k - 1].qsize = c.qsize - (k - 1)
      BY <1>1, <2>1
    <3> QED  BY <1>1, <1>2, <2>1, <3>1
  <2>3. f[k] = Dequeue(f[k - 1])
    BY <1>1
  <2> QED  BY <1>4, <2>2, <2>3, DequeueRight
<1>5. ASSUME NEW k \in 1..m, k - 1 \in G PROVE k \in G
  BY <1>4, <1>5
<1>6. 0..m \subseteq G
  <2> HIDE DEF G
  <2> QED  BY <1>3, <1>5, UpTo
<1>7. \A k \in 1..m : k - 1 \in 0..m
  OBVIOUS
<1> QED  BY <1>4, <1>6, <1>7

\* From a right position, a width sampled by the scan alone is not negative.
LEMMA WidthUp ==
  ASSUME NEW n, NEW num, NEW den, NEW c \in Queues(n, num, den), Widths(n, num, den), n >= 2, Right(c),
         ~Misses(c)
  PROVE  new_width(c).num >= 0
<1>1. c.qsize \in Nat
  BY QueueIs DEF Tidy
<1>2. CASE c.qsize < 2
  <2>1. new_width(c) = [num |-> Unit, den |-> 1, queue |-> c]
    BY <1>2 DEF new_width
  <2> QED  BY <2>1, CalQueueAssumption
<1>3. CASE ~(c.qsize < 2)
  <2> PICK m : m = Samples(c)
    OBVIOUS
  <2> PICK f : f = Drained(c, m)
    OBVIOUS
  <2> DEFINE temp  == [k \in 1..m |-> f[k].lastprio]
             seps  == [k \in 1..(m - 1) |-> temp[k + 1] - temp[k]]
             total == SumOf(seps)
             kept  == {k \in 1..(m - 1) : seps[k] * (m - 1) < 2 * total}
             parts == [k \in 1..(m - 1) |-> IF k \in kept THEN seps[k] ELSE 0]
  <2>1. m \in Nat /\ m <= c.qsize /\ m >= 2
    BY <1>1, <1>3, SamplesAre
  <2>2. \A k \in 1..m : f[k - 1].lastprio <= f[k].lastprio
    <3>1. \A k \in 0..(m - 1) : Hits(f[k]) # {}
      BY DEF Misses
    <3> QED  BY <2>1, <3>1, SamplesRise
  <2>3. \A k \in 1..m : f[k].lastprio \in Int
    <3> SUFFICES ASSUME NEW k \in 1..m PROVE f[k].lastprio \in Int
      OBVIOUS
    <3>1. f[k] \in Queues(n, num, den)
      BY <2>1, DrainedRuns DEF Draining
    <3>2. f[k].lastprio \in Prios
      BY <3>1, QueueIs DEF Tidy
    <3>3. Prios \subseteq Int
      BY PriosAre
    <3> QED  BY ONLY <3>2, <3>3
  <2>4. \A k \in 1..(m - 1) : seps[k] \in Nat
    <3> SUFFICES ASSUME NEW k \in 1..(m - 1) PROVE temp[k + 1] - temp[k] \in Nat
      OBVIOUS
    <3>1. k \in 1..m /\ k + 1 \in 1..m /\ (k + 1) - 1 = k
      BY <2>1
    <3>2. f[k].lastprio <= f[k + 1].lastprio
      BY <2>2, <3>1
    <3> QED  BY <2>3, <3>1, <3>2
  <2>5. parts \in Seq(Nat)
    <3> HIDE DEF seps, kept
    <3>1. parts \in [1..(m - 1) -> Nat]
      BY <2>4
    <3> QED  BY <2>1, <3>1
  <2>6. new_width(c).num = 3 * SumOf(parts)
    BY <1>3 DEF new_width
  <2> HIDE DEF parts
  <2>7. SumOf(parts) \in Nat
    <3>1. 0 \in Nat /\ \A a, b \in Nat : a + b \in Nat
      OBVIOUS
    <3> QED  BY <2>5, <3>1, SumIs
  <2> QED  BY <2>6, <2>7
<1> QED  BY <1>2, <1>3
-----------------------------------------------------------------------------
(* The number of buckets. *)

\* The numbers of buckets that resizes come to: the powers of two up to MaxBuckets.
Sizes(n) == n \in 2..MaxBuckets /\ \E m \in 1..MaxBuckets : n * m = MaxBuckets

\* Half of an even number.
LEMMA HalfOf ==
  ASSUME NEW a \in Nat, a % 2 = 0
  PROVE  a \div 2 \in Nat /\ a = 2 * (a \div 2)
OBVIOUS

LEMMA TwoBuckets == Sizes(2)
<1> DEFINE k == MaxBuckets \div 2
<1>1. MaxBuckets \in Nat /\ MaxBuckets > 1 /\ MaxBuckets * 1 = MaxBuckets
  BY CalQueueAssumption
<1>2. MaxBuckets % 2 = 0
  BY <1>1, CalQueueAssumption
<1>3. k \in Nat /\ MaxBuckets = 2 * k
  BY <1>1, <1>2, HalfOf
<1> HIDE DEF k
<1>4. k \in 1..MaxBuckets /\ 2 * k = MaxBuckets /\ 2 \in 2..MaxBuckets
  BY <1>1, <1>3
<1> QED  BY <1>4 DEF Sizes

\* MaxBuckets is reached exactly when the number of buckets is doubled.
LEMMA Doubled ==
  ASSUME NEW n, Sizes(n), n < MaxBuckets
  PROVE  2 * n \in Nat \ {0} /\ Sizes(2 * n)
<1>1. MaxBuckets \in Nat /\ n \in Nat /\ n >= 2 /\ n \in 1..MaxBuckets
  BY CalQueueAssumption DEF Sizes
<1>2. PICK m \in 1..MaxBuckets : n * m = MaxBuckets
  BY DEF Sizes
<1>3. m * n = MaxBuckets /\ m \in Nat
  BY <1>1, <1>2
<1>4. m > 1
  <2>1. n * 1 = n
    BY <1>1
  <2>2. m # 1
    BY <1>1, <1>2, <2>1
  <2> QED  BY <1>1, <2>2
<1>5. m % 2 = 0
  BY <1>1, <1>3, <1>4, CalQueueAssumption
<1> DEFINE k == m \div 2
<1>6. k \in Nat /\ m = 2 * k
  BY <1>3, <1>5, HalfOf
<1> HIDE DEF k
<1>7. k \in 1..MaxBuckets
  BY <1>1, <1>2, <1>4, <1>6
<1>8. (2 * n) * k = n * (2 * k) /\ 2 * n \in Nat /\ 2 * n >= 2 /\ 2 * n \in Nat \ {0}
  BY <1>1, <1>6
<1>9. (2 * n) * k = MaxBuckets
  BY <1>2, <1>6, <1>8
<1>10. 2 * n <= MaxBuckets
  <2>1. PICK e \in Nat : k = 1 + e
    <3>1. k - 1 \in Nat /\ k = 1 + (k - 1)
      BY <1>1, <1>7
    <3> QED  BY <3>1
  <2>2. (2 * n) * k = 2 * n + (2 * n) * e /\ (2 * n) * e \in Nat
    BY <1>1, <2>1
  <2> QED  BY <1>8, <1>9, <2>2
<1> QED  BY <1>1, <1>7, <1>8, <1>9, <1>10 DEF Sizes

\* A calendar is halved only from six buckets on.
LEMMA Halved ==
  ASSUME NEW n, Sizes(n), n \div 2 > 2
  PROVE  n \div 2 \in Nat \ {0} /\ Sizes(n \div 2)
<1>1. MaxBuckets \in Nat /\ n \in Nat /\ n >= 2 /\ n \in 1..MaxBuckets
  BY CalQueueAssumption DEF Sizes
<1>2. PICK m \in 1..MaxBuckets : n * m = MaxBuckets
  BY DEF Sizes
<1>3. n % 2 = 0
  BY <1>1, <1>2, CalQueueAssumption
<1> DEFINE k == n \div 2
<1>4. k \in Nat /\ n = 2 * k /\ k > 2
  BY <1>1, <1>3, HalfOf
<1> HIDE DEF k
<1>5. m \in Nat /\ k * (2 * m) = (2 * k) * m
  BY <1>1, <1>2, <1>4
<1>6. k * (2 * m) = MaxBuckets
  BY <1>2, <1>4, <1>5
<1>7. 2 * m <= MaxBuckets
  <2>1. PICK e \in Nat : k = 1 + e
    <3>1. k - 1 \in Nat /\ k = 1 + (k - 1)
      BY <1>4
    <3> QED  BY <3>1
  <2>2. k * (2 * m) = 2 * m + e * (2 * m) /\ e * (2 * m) \in Nat
    BY <1>5, <2>1
  <2> QED  BY <1>1, <1>5, <1>6, <2>2
<1>8. 2 * m \in 1..MaxBuckets /\ k \in 2..MaxBuckets /\ k \in Nat \ {0}
  BY <1>1, <1>2, <1>4, <1>5, <1>7
<1> QED  BY <1>6, <1>8 DEF Sizes, k
-----------------------------------------------------------------------------
(* The two operations. *)

\* A queue between two calls: its width is not negative.
IsQueue(c) == c.num >= 0 /\ c \in Queues(c.nbuckets, c.num, c.den) /\ Widths(c.nbuckets, c.num, c.den)

LEMMA IsQueueOf ==
  ASSUME NEW n, NEW num, NEW den, NEW c \in Queues(n, num, den), Widths(n, num, den)
  PROVE  IsQueue(c) /\ c.nbuckets = n /\ c.num = num /\ c.den = den
<1>1. Tidy(c, n, num, den)
  BY QueueIs
<1>2. c.nbuckets = n /\ c.num = num /\ c.den = den
  BY <1>1 DEF Tidy
<1> QED  BY <1>2 DEF IsQueue, Widths

\* d has the events of c and its last priority, and its position or a new one.
Kept(c, d) ==
  /\ Shaped(d) /\ d.lastprio = c.lastprio /\ d.astray \in BOOLEAN /\ d.qsize <= c.qsize
  /\ ~d.astray => /\ IsQueue(d) /\ d.qsize = c.qsize
                  /\ \A P : Count(d, P) = Count(c, P)
                  /\ \/ d.top = c.top /\ d.num = c.num /\ d.den = c.den
                     \/ d.top = 2 * Virtual(d.lastprio, d.num, d.den) + 3

\* A queue that is given n buckets, or is not.
LEMMA MaybeResized ==
  ASSUME NEW c, IsQueue(c), NEW n \in Nat \ {0}, NEW B \in BOOLEAN, NEW d,
         d = IF B THEN resize(c, n) ELSE c
  PROVE  /\ Kept(c, d) /\ d.nbuckets = IF B THEN n ELSE c.nbuckets
         /\ d.astray => new_width(c).num < 0
<1>1. c \in Queues(c.nbuckets, c.num, c.den) /\ Widths(c.nbuckets, c.num, c.den)
  BY DEF IsQueue
<1>2. Shaped(c) /\ c.qsize \in Nat
  <2>1. Shaped(c)
    BY <1>1, QueueShaped
  <2> QED  BY <2>1 DEF Shaped
<1>3. CASE ~B
  <2>1. d = c
    BY <1>3
  <2>2. c.astray = FALSE
    BY <1>1 DEF Queues, Calendars
  <2>3. c.astray \in BOOLEAN
    BY <2>2
  <2>4. ~c.astray
    BY <2>2
  <2> QED  BY <1>2, <1>3, <2>1, <2>3, <2>4 DEF Kept
<1>4. CASE B
  <2>1. d = resize(c, n)
    BY <1>4
  <2>2. Resized(c, d, n)
    BY <1>1, <2>1, ResizeIs
  <2>3. /\ Shaped(d) /\ d.nbuckets = n /\ d.lastprio = c.lastprio /\ d.astray \in BOOLEAN
        /\ d.astray => d.qsize = 0 /\ new_width(c).num < 0
    BY <2>2 DEF Resized
  <2>4. ASSUME ~d.astray
        PROVE  /\ IsQueue(d) /\ d.qsize = c.qsize
               /\ \A P : Count(d, P) = Count(c, P)
               /\ d.top = 2 * Virtual(d.lastprio, d.num, d.den) + 3
    <3>1. /\ d.num >= 0 /\ d \in Queues(n, d.num, d.den) /\ \A P : Count(d, P) = Count(c, P)
          /\ d.top = 2 * Virtual(d.lastprio, d.num, d.den) + 3
      BY <2>2, <2>4 DEF Resized
    <3>2. Widths(n, d.num, d.den)
      BY <2>3, <3>1 DEF Widths, Shaped
    <3>3. IsQueue(d)
      BY <2>3, <3>1, <3>2 DEF IsQueue
    <3>4. Count(d, Prios) = d.qsize /\ Count(c, Prios) = c.qsize
      BY <1>1, <3>1, CountIs
    <3> QED  BY <3>1, <3>3, <3>4
  <2>5. d.qsize <= c.qsize
    BY <1>2, <2>3, <2>4
  <2> QED  BY <1>4, <2>3, <2>4, <2>5 DEF Kept
<1> QED  BY <1>3, <1>4

\* What is kept of a queue whose position is right, is right.
LEMMA KeptRight ==
  ASSUME NEW c, IsQueue(c), NEW d, Kept(c, d), ~d.astray, Right(c)
  PROVE  Right(d)
<1>1. d.num > 0 => d.top = 2 * Virtual(d.lastprio, d.num, d.den) + 3
  <2>1. CASE d.top = c.top /\ d.num = c.num /\ d.den = c.den
    BY <2>1 DEF Kept, Right
  <2> QED  BY <2>1 DEF Kept
<1>2. ASSUME NEW r \in Pending(d) PROVE c.lastprio <= r
  <2>1. Count(d, {r}) # 0 /\ Count(d, {r}) = Count(c, {r})
    BY PendingCount DEF IsQueue, Kept
  <2>2. r \in Pending(c)
    BY <2>1, PendingCount DEF IsQueue
  <2> QED  BY <2>2 DEF Right
<1> QED  BY <1>1, <1>2 DEF Kept, Right

\* A put of an event that is not in the past leaves the position right.
LEMMA EnqueueRight ==
  ASSUME NEW c, IsQueue(c), NEW p \in Prios, Right(c), c.lastprio <= p
  PROVE  Right(Enqueue(c, p))
<1> PICK e : e = Enqueue(c, p)
  OBVIOUS
<1>1. c \in Queues(c.nbuckets, c.num, c.den) /\ Widths(c.nbuckets, c.num, c.den)
  BY DEF IsQueue
<1>2. /\ e \in Queues(c.nbuckets, c.num, c.den) /\ SamePlace(e, c)
      /\ \A P : Count(e, P) = Count(c, P) + One(p, P)
  BY <1>1, EnqueueAdds
<1>3. e.num = c.num /\ e.den = c.den
  BY <1>1, <1>2, IsQueueOf
<1>4. e.num > 0 => e.top = 2 * Virtual(e.lastprio, e.num, e.den) + 3
  BY <1>2, <1>3 DEF SamePlace, Right
<1>5. ASSUME NEW r \in Pending(e) PROVE c.lastprio <= r
  <2>1. Count(e, {r}) # 0 /\ Count(e, {r}) = Count(c, {r}) + One(p, {r})
    BY <1>2, PendingCount
  <2>2. CASE r = p
    BY <2>2
  <2>3. CASE r # p
    <3>1. One(p, {r}) = 0 /\ Count(c, {r}) \in Nat
      BY <1>1, <2>3, CountIs DEF One
    <3>2. Count(c, {r}) # 0
      BY <2>1, <3>1
    <3>3. r \in Pending(c)
      BY <1>1, <3>2, PendingCount
    <3> QED  BY <3>3 DEF Right
  <2> QED  BY <2>2, <2>3
<1> QED  BY <1>2, <1>4, <1>5 DEF SamePlace, Right

\* What a put of p makes of c.
Added(c, d, p) ==
  /\ Shaped(d) /\ Sizes(d.nbuckets) /\ d.lastprio = c.lastprio /\ d.astray \in BOOLEAN
  /\ d.qsize <= c.qsize + 1
  /\ ~d.astray => /\ IsQueue(d) /\ d.qsize = c.qsize + 1
                  /\ \A P : Count(d, P) = Count(c, P) + One(p, P)
                  /\ Fits(c) => Fits(d)
                  /\ Right(c) /\ c.lastprio <= p => Right(d)
  /\ d.astray /\ Right(c) /\ c.lastprio <= p => Misses(Enqueue(c, p))

LEMMA PutIs ==
  ASSUME NEW c, IsQueue(c), Sizes(c.nbuckets), NEW p \in Prios
  PROVE  Added(c, put(c, p), p)
<1> PICK e : e = Enqueue(c, p)
  OBVIOUS
<1> PICK d : d = put(c, p)
  OBVIOUS
<1>1. c \in Queues(c.nbuckets, c.num, c.den) /\ Widths(c.nbuckets, c.num, c.den)
  BY DEF IsQueue
<1>2. /\ e \in Queues(c.nbuckets, c.num, c.den)
      /\ e.qsize = c.qsize + 1 /\ SamePlace(e, c)
      /\ \A P : Count(e, P) = Count(c, P) + One(p, P)
  BY <1>1, EnqueueAdds
<1>3. IsQueue(e) /\ e.nbuckets = c.nbuckets /\ e.num = c.num /\ e.den = c.den
  BY <1>1, <1>2, IsQueueOf
<1>4. d = IF Crowded(e) THEN resize(e, 2 * c.nbuckets) ELSE e
  BY DEF put
<1>5. 2 * c.nbuckets \in Nat \ {0} /\ Crowded(e) \in BOOLEAN
  BY <1>1 DEF Widths, Crowded
<1>6. /\ Kept(e, d) /\ d.nbuckets = IF Crowded(e) THEN 2 * c.nbuckets ELSE e.nbuckets
      /\ d.astray => new_width(e).num < 0
  BY <1>3, <1>4, <1>5, MaybeResized
<1>7. Sizes(d.nbuckets)
  <2>1. CASE Crowded(e)
    <3>1. c.nbuckets < MaxBuckets
      BY <1>3, <2>1 DEF Crowded
    <3> QED  BY <1>6, <2>1, <3>1, Doubled
  <2>2. CASE ~Crowded(e)
    BY <1>3, <1>6, <2>2
  <2> QED  BY <2>1, <2>2
<1>8. ASSUME Right(c), c.lastprio <= p
      PROVE  (~d.astray => Right(d)) /\ (d.astray => Misses(e))
  <2>1. Right(e)
    BY <1>8, EnqueueRight
  <2>2. ~d.astray => Right(d)
    BY <1>3, <1>6, <2>1, KeptRight
  <2>3. ~Misses(e) => new_width(e).num >= 0
    <3>1. c.nbuckets >= 2
      BY DEF Sizes
    <3> QED  BY <1>1, <1>2, <2>1, <3>1, WidthUp
  <2>4. new_width(e).num \in Int
    BY <1>1, <1>2, NewWidthIs
  <2> QED  BY <1>6, <2>2, <2>3, <2>4
<1>9. ASSUME ~d.astray
      PROVE  /\ IsQueue(d) /\ d.qsize = c.qsize + 1
             /\ \A P : Count(d, P) = Count(c, P) + One(p, P)
  BY <1>2, <1>6, <1>9 DEF Kept
<1>10. ASSUME ~d.astray, Fits(c) PROVE Fits(d)
  <2> PICK n \in Nat : n = c.nbuckets
    BY <1>1 DEF Widths
  <2>1. d.qsize = c.qsize + 1 /\ c.qsize \in Nat /\ n \in 2..MaxBuckets /\ MaxBuckets \in Nat
    BY <1>1, <1>9, <1>10, QueueIs, CalQueueAssumption DEF Sizes, Tidy
  <2>2. (c.qsize <= 2 * n \/ n = MaxBuckets) /\ n \div 2 - 2 <= c.qsize
    BY <1>10 DEF Fits
  <2>3. Crowded(e) <=> c.qsize + 1 > 2 * n /\ n < MaxBuckets
    BY <1>2, <1>3 DEF Crowded
  <2>4. CASE Crowded(e)
    <3>1. d.nbuckets = 2 * n /\ (2 * n) \div 2 = n
      BY <1>6, <2>4
    <3>2. d.qsize <= 2 * (2 * n) /\ n - 2 <= d.qsize
      BY <2>1, <2>2, <2>3, <2>4
    <3> QED  BY <3>1, <3>2 DEF Fits
  <2>5. CASE ~Crowded(e)
    <3>1. d.nbuckets = n
      BY <1>3, <1>6, <2>5
    <3>2. (d.qsize <= 2 * n \/ n = MaxBuckets) /\ n \div 2 - 2 <= d.qsize
      BY <2>1, <2>2, <2>3, <2>5
    <3> QED  BY <3>1, <3>2 DEF Fits
  <2> QED  BY <2>4, <2>5
<1>11. d.lastprio = c.lastprio
  BY <1>2, <1>6 DEF SamePlace, Kept
<1> QED  BY <1>2, <1>6, <1>7, <1>8, <1>9, <1>11, <1>10 DEF Added, Kept

\* What a get of g makes of c.
Taken(c, d, g) ==
  /\ Shaped(d) /\ Sizes(d.nbuckets) /\ d.lastprio = g /\ g \in Prios /\ d.astray \in BOOLEAN
  /\ d.qsize <= c.qsize - 1
  /\ Right(c) => \A p \in Pending(c) : g <= p
  /\ ~d.astray => /\ IsQueue(d) /\ d.qsize = c.qsize - 1
                  /\ \A P : Count(c, P) = Count(d, P) + One(g, P)
                  /\ Fits(c) => Fits(d)
                  /\ Right(c) /\ Hits(c) # {} => Right(d)
  /\ d.astray /\ Right(c) => Hits(c) = {} \/ Misses(Dequeue(c))

LEMMA GetIs ==
  ASSUME NEW c, IsQueue(c), Sizes(c.nbuckets), c.qsize > 0
  PROVE  Taken(c, deq(c), Dequeue(c).lastprio)
<1> PICK e : e = Dequeue(c)
  OBVIOUS
<1> PICK d : d = deq(c)
  OBVIOUS
<1> PICK g : g = e.lastprio
  OBVIOUS
<1>1. c \in Queues(c.nbuckets, c.num, c.den) /\ Widths(c.nbuckets, c.num, c.den)
  BY DEF IsQueue
<1>2. /\ e \in Queues(c.nbuckets, c.num, c.den)
      /\ e.qsize = c.qsize - 1 /\ e.top = Place(c).top /\ g \in Prios
      /\ g = Head(c.calendar[Place(c).bucket])
      /\ \A P : Count(c, P) = Count(e, P) + One(g, P)
  BY <1>1, DequeueTakes
<1>3. IsQueue(e) /\ e.nbuckets = c.nbuckets /\ e.num = c.num /\ e.den = c.den
  BY <1>1, <1>2, IsQueueOf
<1>4. d = IF Sparse(e) THEN resize(e, c.nbuckets \div 2) ELSE e
  BY DEF deq
<1>5. Sparse(e) => c.nbuckets \div 2 \in Nat \ {0} /\ Sizes(c.nbuckets \div 2)
  <2> SUFFICES ASSUME Sparse(e) PROVE c.nbuckets \div 2 > 2
    BY Halved
  <2>1. e.qsize < c.nbuckets \div 2 - 2
    BY <1>3 DEF Sparse
  <2>2. e.qsize \in Nat
    BY <1>2, QueueIs DEF Tidy
  <2>3. c.nbuckets \div 2 \in Int
    BY <1>1 DEF Widths
  <2> QED  BY <2>1, <2>2, <2>3
<1>6. /\ Kept(e, d) /\ d.lastprio = g /\ Sizes(d.nbuckets)
      /\ d.nbuckets = IF Sparse(e) THEN c.nbuckets \div 2 ELSE c.nbuckets
      /\ d.astray => new_width(e).num < 0
  <2> PICK n : n = IF Sparse(e) THEN c.nbuckets \div 2 ELSE 1
    OBVIOUS
  <2>1. n \in Nat \ {0} /\ Sparse(e) \in BOOLEAN /\ d = IF Sparse(e) THEN resize(e, n) ELSE e
    BY <1>4, <1>5 DEF Sparse
  <2>2. /\ Kept(e, d) /\ d.nbuckets = IF Sparse(e) THEN n ELSE e.nbuckets
        /\ d.astray => new_width(e).num < 0
    BY <1>3, <2>1, MaybeResized
  <2>3. Sizes(d.nbuckets)
    BY <1>3, <1>5, <2>2
  <2>4. d.nbuckets = IF Sparse(e) THEN c.nbuckets \div 2 ELSE c.nbuckets
    BY <1>3, <2>2
  <2> QED  BY <2>2, <2>3, <2>4 DEF Kept
<1>7. c.nbuckets >= 2 /\ (Right(c) => \A p \in Pending(c) : g <= p)
  <2>1. c.nbuckets >= 2
    BY DEF Sizes
  <2> QED  BY <1>1, <1>2, <2>1, PlaceFirst
<1>8. ASSUME Right(c), Hits(c) # {}
      PROVE  (~d.astray => Right(d)) /\ (d.astray => Misses(e))
  <2>1. Right(e)
    BY <1>1, <1>7, <1>8, DequeueRight
  <2>2. ~d.astray => Right(d)
    BY <1>3, <1>6, <2>1, KeptRight
  <2>3. ~Misses(e) => new_width(e).num >= 0
    BY <1>1, <1>2, <1>7, <2>1, WidthUp
  <2>4. new_width(e).num \in Int
    BY <1>1, <1>2, NewWidthIs
  <2> QED  BY <1>6, <2>2, <2>3, <2>4
<1>9. ASSUME ~d.astray
      PROVE  /\ IsQueue(d) /\ d.qsize = c.qsize - 1
             /\ \A P : Count(c, P) = Count(d, P) + One(g, P)
  BY <1>2, <1>6, <1>9 DEF Kept
<1>10. ASSUME ~d.astray, Fits(c) PROVE Fits(d)
  <2> PICK n \in Nat : n = c.nbuckets
    BY <1>1 DEF Widths
  <2> PICK k : k = n \div 2
    OBVIOUS
  <2>1. d.qsize = c.qsize - 1 /\ c.qsize \in Nat /\ k \in Nat /\ k <= n
    BY <1>1, <1>9, <1>10, QueueIs DEF Tidy
  <2>2. (c.qsize <= 2 * n \/ n = MaxBuckets) /\ k - 2 <= c.qsize
    BY <1>10 DEF Fits
  <2>3. Sparse(e) <=> c.qsize - 1 < k - 2
    BY <1>2, <1>3 DEF Sparse
  <2>4. CASE Sparse(e)
    <3>1. d.nbuckets = k
      BY <1>6, <2>4
    <3>2. k \div 2 \in Nat /\ k \div 2 - 2 <= k - 3
      BY <2>1, <2>3, <2>4
    <3>3. d.qsize <= 2 * k /\ k \div 2 - 2 <= d.qsize
      BY <2>1, <2>2, <2>3, <2>4, <3>2
    <3> QED  BY <3>1, <3>3 DEF Fits
  <2>5. CASE ~Sparse(e)
    <3>1. d.nbuckets = n
      BY <1>6, <2>5
    <3>2. (d.qsize <= 2 * n \/ n = MaxBuckets) /\ n \div 2 - 2 <= d.qsize
      BY <2>1, <2>2, <2>3, <2>5
    <3> QED  BY <3>1, <3>2 DEF Fits
  <2> QED  BY <2>4, <2>5
<1> QED  BY <1>2, <1>6, <1>7, <1>8, <1>9, <1>10 DEF Taken, Kept
-----------------------------------------------------------------------------
(* The inductive invariant. *)

\* What holds of any calendar.
InShape ==
  /\ Shaped(q) /\ Sizes(q.nbuckets) /\ q.qsize <= MaxSize
  /\ q.astray \in BOOLEAN /\ missed \in BOOLEAN

\* The time of the simulation is the queue's last priority.
InTime == q.lastprio = got

\* Unless the code has gone astray the calendar is a queue: every event is in
\* its bucket, in order, counted, and scans start in the last event's bucket.
InQueue == ~q.astray => IsQueue(q)

IInv == InShape /\ InTime /\ InQueue /\ FitsAfterOne /\ AlignedUntilMiss

LEMMA AlignedIs == Aligned <=> Right(q)
BY DEF Aligned, Right

LEMMA InitIInv == Init => IInv
<1> SUFFICES ASSUME Init PROVE IInv
  OBVIOUS
<1>1. q = localinit(2, Unit, 1, 0) /\ got = 0 /\ missed = FALSE
  BY DEF Init
<1>2. Unit \in Int /\ Unit > 0 /\ 0 \in Prios /\ MaxSize \in Nat
  BY CalQueueAssumption DEF Prios
<1>3. /\ Shaped(q) /\ q.nbuckets = 2 /\ q.qsize = 0 /\ q.lastprio = 0 /\ q.num = Unit /\ q.den = 1
      /\ q.top = 2 * Virtual(0, Unit, 1) + 3 /\ q \in Queues(2, Unit, 1)
  <2>1. 2 \in Nat \ {0} /\ 1 \in Nat \ {0} /\ Unit >= 0
    BY <1>2
  <2> PICK c : c = localinit(2, Unit, 1, 0)
    OBVIOUS
  <2>2. Fresh(c, 2, Unit, 1, 0)
    BY <1>2, <2>1, LocalInitIs
  <2> QED  BY <1>1, <2>1, <2>2 DEF Fresh
<1>4. Widths(2, Unit, 1)
  BY <1>2 DEF Widths
<1>5. IsQueue(q)
  BY <1>3, <1>4, IsQueueOf
<1>6. q.astray = FALSE
  BY <1>3 DEF Queues, Calendars
<1>7. InShape
  <2>1. q.astray \in BOOLEAN /\ missed \in BOOLEAN
    BY <1>1, <1>6
  <2> QED  BY <1>2, <1>3, <2>1, TwoBuckets DEF InShape
<1>8. Right(q)
  <2>1. Pending(q) = {}
    <3>1. q = [calendar |-> [i \in 0..(2 - 1) |-> <<>>], nbuckets |-> 2, qsize |-> 0, num |-> Unit,
               den |-> 1, lastprio |-> 0, lastbucket |-> StartBucket(2, Virtual(0, Unit, 1)),
               top |-> 2 * Virtual(0, Unit, 1) + 3, astray |-> Unit < 0]
      BY <1>1 DEF localinit
    <3>2. q.calendar = [i \in 0..(2 - 1) |-> <<>>]
      BY <3>1
    <3>3. DOMAIN <<>> = {}
      OBVIOUS
    <3>4. Slots(q) = {}
      BY <1>3, <3>2, <3>3 DEF Slots, Buckets
    <3> QED  BY <3>4 DEF Pending
  <2> QED  BY <1>3, <2>1 DEF Right
<1>9. Fits(q)
  BY <1>3 DEF Fits
<1> QED  BY <1>1, <1>3, <1>5, <1>7, <1>8, <1>9, AlignedIs DEF IInv, InTime, InQueue, FitsAfterOne, AlignedUntilMiss

\* A put, from any state of the invariant.
LEMMA PutStep ==
  ASSUME IInv, calqueue_put
  PROVE  /\ IInv' /\ UNCHANGED got
         /\ \E g \in Gaps : /\ got + g \in Prios /\ got + g <= MaxPrio /\ q.lastprio <= got + g
                           /\ q' = put(q, got + g) /\ Added(q, q', got + g)
<1>1. /\ InShape /\ InTime /\ InQueue /\ FitsAfterOne /\ AlignedUntilMiss
  BY DEF IInv
<1>2. PICK g \in Gaps : /\ ~q.astray /\ q.qsize < MaxSize /\ got + g <= MaxPrio
                        /\ q' = put(q, got + g) /\ UNCHANGED <<got, missed>>
  BY DEF calqueue_put
<1> PICK p : p = got + g
  OBVIOUS
<1>3. Shaped(q) /\ Sizes(q.nbuckets) /\ q.lastprio = got /\ IsQueue(q) /\ missed \in BOOLEAN
  BY <1>1, <1>2 DEF InShape, InTime, InQueue
<1>4. got \in Nat /\ g \in Nat /\ q.lastprio <= p /\ p \in Prios
  <2>1. got \in Nat
    BY <1>3, PriosAre DEF Shaped
  <2>2. g \in Nat
    BY CalQueueAssumption
  <2> QED  BY <1>2, <1>3, <2>1, <2>2, PriosAre DEF Prios
<1>5. Added(q, q', p)
  BY <1>2, <1>3, <1>4, PutIs
<1>6. /\ Shaped(q') /\ Sizes(q'.nbuckets) /\ q'.lastprio = q.lastprio /\ q'.astray \in BOOLEAN
      /\ q'.qsize <= q.qsize + 1
  BY <1>5 DEF Added
<1>7. InShape'
  <2>1. q'.qsize <= MaxSize
    <3>1. q.qsize \in Nat /\ q'.qsize \in Nat /\ MaxSize \in Nat
      BY <1>3, <1>6, CalQueueAssumption DEF Shaped
    <3> QED  BY <1>2, <1>6, <3>1
  <2>2. missed' \in BOOLEAN
    BY <1>2, <1>3
  <2> QED  BY <1>6, <2>1, <2>2 DEF InShape
<1>8. InTime' /\ InQueue' /\ FitsAfterOne'
  BY <1>1, <1>2, <1>3, <1>5 DEF InTime, InQueue, Added, FitsAfterOne, Fits
<1>9. AlignedUntilMiss'
  <2> SUFFICES ASSUME ~missed', ~q'.astray PROVE Right(q')
    BY AlignedIs DEF AlignedUntilMiss, Aligned, Right
  <2>1. Right(q)
    BY <1>1, <1>2, AlignedIs DEF AlignedUntilMiss
  <2> QED  BY <1>4, <1>5, <2>1 DEF Added
<1> QED  BY <1>2, <1>4, <1>5, <1>7, <1>8, <1>9 DEF IInv

\* A get, from any state of the invariant.
LEMMA GetStep ==
  ASSUME IInv, calqueue_get
  PROVE  IInv' /\ Taken(q, q', got')
<1>1. /\ InShape /\ InTime /\ InQueue /\ FitsAfterOne /\ AlignedUntilMiss
  BY DEF IInv
<1>2. /\ ~q.astray /\ q.qsize > 0 /\ q' = deq(q) /\ got' = Dequeue(q).lastprio
      /\ missed' = (missed \/ Hits(q) = {})
  BY DEF calqueue_get
<1>3. Shaped(q) /\ Sizes(q.nbuckets) /\ q.qsize <= MaxSize /\ IsQueue(q) /\ missed \in BOOLEAN
  BY <1>1, <1>2 DEF InShape, InQueue
<1>4. Taken(q, q', got')
  BY <1>2, <1>3, GetIs
<1>5. /\ Shaped(q') /\ Sizes(q'.nbuckets) /\ q'.lastprio = got' /\ q'.astray \in BOOLEAN
      /\ q'.qsize <= q.qsize - 1
  BY <1>4 DEF Taken
<1>6. InShape'
  <2>1. q'.qsize <= MaxSize
    <3>1. q.qsize \in Nat /\ q'.qsize \in Nat /\ MaxSize \in Nat
      BY <1>3, <1>5, CalQueueAssumption DEF Shaped
    <3>2. q.qsize <= MaxSize /\ q'.qsize <= q.qsize - 1
      BY <1>3, <1>5
    <3> QED  BY ONLY <3>1, <3>2
  <2>2. missed' \in BOOLEAN
    BY <1>2, <1>3
  <2> QED  BY <1>5, <2>1, <2>2 DEF InShape
<1>7. InTime' /\ InQueue' /\ FitsAfterOne'
  BY <1>1, <1>2, <1>4 DEF InTime, InQueue, Taken, FitsAfterOne, Fits
<1>8. AlignedUntilMiss'
  <2> SUFFICES ASSUME ~missed', ~q'.astray PROVE Right(q')
    BY AlignedIs DEF AlignedUntilMiss, Aligned, Right
  <2>1. Hits(q) # {} /\ ~missed
    BY <1>2
  <2>2. Right(q)
    BY <1>1, <1>2, <2>1, AlignedIs DEF AlignedUntilMiss
  <2> QED  BY <1>4, <2>1, <2>2 DEF Taken
<1> QED  BY <1>4, <1>6, <1>7, <1>8 DEF IInv

LEMMA NextIInv == IInv /\ [Next]_vars => IInv'
<1> SUFFICES ASSUME IInv, [Next]_vars PROVE IInv'
  OBVIOUS
<1>1. CASE calqueue_put
  BY <1>1, PutStep
<1>2. CASE calqueue_get
  BY <1>2, GetStep
<1>3. CASE UNCHANGED vars
  BY <1>3 DEF vars, IInv, InShape, InTime, InQueue, FitsAfterOne, Fits, AlignedUntilMiss, Aligned,
                   IsQueue, Shaped
<1> QED  BY <1>1, <1>2, <1>3 DEF Next
-----------------------------------------------------------------------------
(* What the calendar queue guarantees. *)

\* However often the calendar is resized it has between two and MAXNBUCKETS
\* buckets, and lastbucket, from which calqueue_deq indexes the array, is one
\* of them until a resize computes a negative width.
THEOREM TypeCorrect == Spec => []TypeOK
<1>1. IInv => TypeOK
  <2> SUFFICES ASSUME IInv PROVE TypeOK
    OBVIOUS
  <2>1. Shaped(q) /\ Sizes(q.nbuckets) /\ q.qsize <= MaxSize /\ q.lastprio = got /\ MaxSize \in Nat
    BY CalQueueAssumption DEF IInv, InShape, InTime
  <2>2. q.astray \in BOOLEAN /\ missed \in BOOLEAN
    BY DEF IInv, InShape
  <2>3. q.nbuckets \in 2..MaxBuckets /\ q.qsize \in 0..MaxSize
    BY <2>1 DEF Sizes, Shaped
  <2>4. ~q.astray => q.lastbucket \in Buckets(q)
    <3> SUFFICES ASSUME ~q.astray PROVE q.lastbucket \in Buckets(q)
      OBVIOUS
    <3>1. q \in Queues(q.nbuckets, q.num, q.den)
      BY DEF IInv, InQueue, IsQueue
    <3>2. Tidy(q, q.nbuckets, q.num, q.den)
      BY <3>1, QueueIs
    <3> QED  BY <3>2 DEF Tidy, Buckets
  <2> QED  BY <2>1, <2>2, <2>3, <2>4 DEF TypeOK, Shaped, Prios
<1> QED  BY <1>1, InitIInv, NextIInv, PTL DEF Spec

\* Every event is in the bucket of its priority, in order, and qsize counts
\* them: through puts, gets, samplings and copies, until a width is negative.
THEOREM AlwaysPlaced == Spec => []Placed
<1>1. IInv => Placed
  <2> SUFFICES ASSUME IInv, ~q.astray PROVE Placed
    BY DEF Placed
  <2>1. q \in Queues(q.nbuckets, q.num, q.den)
    BY DEF IInv, InQueue, IsQueue
  <2>2. Tidy(q, q.nbuckets, q.num, q.den)
    BY <2>1, QueueIs
  <2>3. Filed(q) /\ Counted(q) /\ \A i \in Buckets(q) : q.calendar[i] \in Seq(Prios)
    BY <2>2 DEF Tidy
  <2>4. ASSUME NEW i \in Buckets(q), NEW k \in 1..Len(q.calendar[i])
        PROVE  /\ Virtual(q.calendar[i][k], q.num, q.den) % q.nbuckets = i
               /\ k > 1 => q.calendar[i][k - 1] <= q.calendar[i][k]
    <3>1. InOrder(q.calendar[i]) /\ Virtual(q.calendar[i][k], q.num, q.den) % q.nbuckets = i
      BY <2>3 DEF Filed
    <3>2. k > 1 => k - 1 \in 1..Len(q.calendar[i]) /\ k - 1 <= k
      BY <2>3, EventsAre
    <3> QED  BY <3>1, <3>2 DEF InOrder
  <2> QED  BY <2>3, <2>4 DEF Placed, Counted
<1> QED  BY <1>1, InitIInv, NextIInv, PTL DEF Spec

\* After any call there are at most two events to a bucket, or MAXNBUCKETS
\* buckets, and not many buckets to an event: a resize never leads to another.
THEOREM ResizedOnce == Spec => []FitsAfterOne
<1>1. IInv => FitsAfterOne
  BY DEF IInv
<1> QED  BY <1>1, InitIInv, NextIInv, PTL DEF Spec

\* Until a get first falls back on the direct search, lastbucket and buckettop
\* belong to the last event got and nothing pending is before it.
THEOREM AlwaysAligned == Spec => []AlignedUntilMiss
<1>1. IInv => AlignedUntilMiss
  BY DEF IInv
<1> QED  BY <1>1, InitIInv, NextIInv, PTL DEF Spec

\* No event is lost or doubled: a put adds its event and a get takes the one it
\* returns, whatever sampling and copying resize goes through in between.
THEOREM NothingLost == Spec => Conserved
<1> DEFINE Kind == ~q'.astray =>
             \/ \E p \in {got + g : g \in Gaps} \cap (0..MaxPrio) :
                  Copies(q') = [Copies(q) EXCEPT ![p] = @ + 1]
             \/ Copies(q') = [Copies(q) EXCEPT ![got'] = @ - 1]
<1>1. IInv /\ [Next]_vars => [Kind]_vars
  <2> SUFFICES ASSUME IInv, Next, ~q'.astray
               PROVE  \/ \E p \in {got + g : g \in Gaps} \cap Prios :
                           Copies(q') = [Copies(q) EXCEPT ![p] = @ + 1]
                      \/ Copies(q') = [Copies(q) EXCEPT ![got'] = @ - 1]
    BY DEF Prios
  <2>1. CASE calqueue_put
    <3>1. PICK g \in Gaps : got + g \in Prios /\ Added(q, q', got + g)
      BY <2>1, PutStep
    <3> PICK p : p = got + g
      OBVIOUS
    <3>2. \A P : Count(q', P) = Count(q, P) + One(p, P)
      BY <3>1 DEF Added
    <3>3. IsQueue(q)
      BY <2>1 DEF calqueue_put, IInv, InQueue
    <3>4. \A P : Count(q, P) \in Nat
      BY <3>3, CountIs DEF IsQueue
    <3>5. Copies(q') = [Copies(q) EXCEPT ![p] = @ + 1]
      BY <3>1, <3>2, <3>4, Gained
    <3> QED  BY <3>1, <3>5
  <2>2. CASE calqueue_get
    <3>1. Taken(q, q', got')
      BY <2>2, GetStep
    <3>2. got' \in Prios /\ IsQueue(q') /\ \A P : Count(q, P) = Count(q', P) + One(got', P)
      BY <3>1 DEF Taken
    <3>3. \A P : Count(q', P) \in Nat
      BY <3>2, CountIs DEF IsQueue
    <3>4. Copies(q') = [Copies(q) EXCEPT ![got'] = @ - 1]
      BY <3>2, <3>3, Lost
    <3> QED  BY <3>4
  <2> QED  BY <2>1, <2>2 DEF Next
<1>2. IInv /\ [Next]_vars => IInv'
  BY NextIInv
<1> QED  BY <1>1, <1>2, InitIInv, PTL DEF Spec, Conserved

\* A get that starts from a right position returns an event no other is before,
\* whether the scan finds it or the direct search.
THEOREM GetsTheEarliest == Spec => EarliestFromAligned
<1> DEFINE First == Aligned /\ q'.qsize < q.qsize => \A p \in Pending(q) : got' <= p
<1>1. IInv /\ [Next]_vars => [First]_vars
  <2> SUFFICES ASSUME IInv, Next, Aligned PROVE \A p \in Pending(q) : got' <= p
    OBVIOUS
  <2>1. Right(q)
    BY AlignedIs
  <2>2. CASE calqueue_put
    BY <2>1, <2>2, PutStep DEF IInv, InTime, Right
  <2>3. CASE calqueue_get
    <3>1. Taken(q, q', got')
      BY <2>3, GetStep
    <3> QED  BY <2>1, <3>1 DEF Taken
  <2> QED  BY <2>2, <2>3 DEF Next
<1>2. IInv /\ [Next]_vars => IInv'
  BY NextIInv
<1> QED  BY <1>1, <1>2, InitIInv, PTL DEF Spec, EarliestFromAligned

\* From a right position a resize computes a negative width, from which on the
\* code would work outside its array, only if a sample came from the direct search.
THEOREM StraysOnlyByMissing == Spec => StraysByMissing
<1> DEFINE Stray == Aligned /\ ~q.astray /\ q'.astray =>
             \/ \E g \in Gaps : /\ got + g <= MaxPrio /\ q' = put(q, got + g)
                               /\ Misses(Enqueue(q, got + g))
             \/ q.qsize > 0 /\ q' = deq(q) /\ (Hits(q) = {} \/ Misses(Dequeue(q)))
<1>1. IInv /\ [Next]_vars => [Stray]_vars
  <2> SUFFICES ASSUME IInv, Next, Aligned, q'.astray
               PROVE  \/ \E g \in Gaps : /\ got + g <= MaxPrio /\ q' = put(q, got + g)
                                        /\ Misses(Enqueue(q, got + g))
                      \/ q.qsize > 0 /\ q' = deq(q) /\ (Hits(q) = {} \/ Misses(Dequeue(q)))
    OBVIOUS
  <2>1. Right(q)
    BY AlignedIs
  <2>2. CASE calqueue_put
    <3>1. PICK g \in Gaps : /\ got + g \in Prios /\ got + g <= MaxPrio /\ q.lastprio <= got + g
                            /\ q' = put(q, got + g) /\ Added(q, q', got + g)
      BY <2>2, PutStep
    <3>2. Misses(Enqueue(q, got + g))
      BY <2>1, <3>1 DEF Added
    <3> QED  BY <3>1, <3>2
  <2>3. CASE calqueue_get
    <3>1. Taken(q, q', got')
      BY <2>3, GetStep
    <3>2. q.qsize > 0 /\ q' = deq(q)
      BY <2>3 DEF calqueue_get
    <3> QED  BY <2>1, <3>1, <3>2 DEF Taken
  <2> QED  BY <2>2, <2>3 DEF Next
<1>2. IInv /\ [Next]_vars => IInv'
  BY NextIInv
<1> QED  BY <1>1, <1>2, InitIInv, PTL DEF Spec, StraysByMissing
=============================================================================
