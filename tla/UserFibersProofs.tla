-------------------------- MODULE UserFibersProofs --------------------------
(***************************************************************************)
(* What holds of the user-level threads for any number of threads and      *)
(* fibers, when no alarm comes where ult_switch_to cannot bear it.         *)
(***************************************************************************)
EXTENDS UserFibers, FiniteSetTheorems, SequenceTheorems, TLAPS

\* Between Leave and Jump a thread executes nothing that will be resumed.
Jumping(t) == InFrame(t, "jump")
Live(t)    == current[t] # NONE /\ ~Jumping(t)

\* Where the continuation of fiber u is: on the thread that executes it, or in
\* its context.
Held(u) == \E t \in Threads : Live(t) /\ Runs(t) = u
Cont(u) == IF Held(u) THEN cpu[CHOOSE t \in Threads : Live(t) /\ Runs(t) = u]
           ELSE context[u]

\* Frame i of fiber u is a switch that has locked its target and not yet
\* jumped to it.
Pends(u, i) == Cont(u).frames[i].at \in {"set", "leave"}
To(u, i)    == Cont(u).frames[i].to
Pos(u)      == 1..Len(Cont(u).frames)

PhasesOf(u) == IF u \in Workers THEN {"wait", "pick"}
               ELSE IF u = Main THEN {"create", "armed", "work", "spin", "done"}
               ELSE {"work", "idle"}

\* Each fiber goes on with its own flow, and the frames above it are handlers
\* and switches that leave it; only the last of them can have written current.
Sound(u) ==
  /\ Cont(u) \in Conts /\ Cont(u).flow = u /\ Cont(u).at \in PhasesOf(u)
  /\ \A i \in Pos(u) :
       /\ Cont(u).frames[i].at \in {"set", "leave", "handler"}
       /\ Pends(u, i) => Cont(u).frames[i].from = u
       /\ Cont(u).frames[i].at = "leave" =>
            /\ i = Len(Cont(u).frames)
            /\ \E t \in Threads : Live(t) /\ Runs(t) = u /\ current[t] = To(u, i)

\* A thread runs a fiber that exists, is locked, and is run by no other.
Runners ==
  \A t \in Threads : current[t] # NONE =>
    /\ Runs(t) \in Exist /\ running[Runs(t)]
    /\ \A s \in Threads : current[s] # NONE /\ Runs(s) = Runs(t) => s = t

\* The target of a switch is locked for this switch alone, and nobody runs it.
Pending ==
  \A u \in Exist : \A i \in Pos(u) : Pends(u, i) =>
    /\ To(u, i) \in Exist \cap fibers /\ running[To(u, i)]
    /\ \A t \in Threads : Runs(t) # To(u, i)
    /\ \A v \in Exist : \A j \in Pos(v) :
         Pends(v, j) /\ To(v, j) = To(u, i) => u = v /\ i = j

\* A thread before its conversion, and one between two fibers.
Ends ==
  \A t \in Threads :
    /\ current[t] = NONE => cpu[t] = Fresh(t, "init")
    /\ Jumping(t) => current[t] \in fibers /\ Top(t).to = current[t]

\* Nobody does more than wait before every fiber of the array exists.
Ready == Created = Cells /\ current[Main] # NONE
Begun ==
  /\ init_complete => Ready
  /\ \A t \in Threads : Runs(t) \in Cells => Ready
  /\ \A u \in Exist :
       \/ Cont(u).at \in {"pick", "armed", "work"} /\ u \notin Cells
       \/ Pos(u) # {}
       => Ready

IsDone(c)  == c.at \in {"idle", "spin", "done"}
DoneFibers == {u \in Exist : IsDone(Cont(u))}
Counted    == completed_fibers = Cardinality(fibers) - Cardinality(DoneFibers)

UInv ==
  /\ TypeOK /\ (\A u \in Exist : Sound(u)) /\ Runners /\ Pending /\ Ends /\ Begun
  /\ Counted
-----------------------------------------------------------------------------
(* Continuations as sequences of frames.                                   *)
Frame == [at : {"set", "leave", "jump", "handler"},
          from : Ults \cup {NONE}, to : Ults \cup {NONE}]

\* A switch that begins.
LEMMA PushOne ==
  ASSUME NEW F, NEW s \in Seq(F), NEW x \in F
  PROVE  /\ s \o <<x>> \in Seq(F) /\ Len(s \o <<x>>) = Len(s) + 1
         /\ \A i \in 1..Len(s) : (s \o <<x>>)[i] = s[i]
         /\ (s \o <<x>>)[Len(s) + 1] = x
<1>1. <<x>> \in Seq(F) /\ Len(<<x>>) = 1 /\ <<x>>[1] = x
  OBVIOUS
<1> PICK y \in Seq(F) : y = <<x>>  BY <1>1
<1>2. Len(y) = 1 /\ y[1] = x
  BY <1>1
<1>3. /\ s \o y \in Seq(F) /\ Len(s \o y) = Len(s) + Len(y)
      /\ \A i \in 1..Len(s) + Len(y) :
           (s \o y)[i] = IF i <= Len(s) THEN s[i] ELSE y[i - Len(s)]
  BY ConcatProperties
<1> PICK n \in Nat : n = Len(s)  OBVIOUS
<1> PICK z \in Seq(F) : z = s \o y  BY <1>3
<1>4. Len(z) = n + 1 /\ \A i \in 1..(n + 1) : z[i] = IF i <= n THEN s[i] ELSE y[i - n]
  BY <1>2, <1>3
<1>5. (\A i \in 1..n : z[i] = s[i]) /\ z[n + 1] = x
  BY ONLY <1>2, <1>4, n \in Nat
<1>6. z = s \o <<x>> /\ n = Len(s)
  OBVIOUS
<1> QED  BY <1>4, <1>5, <1>6, Zenon

\* A handler that is entered, with the switch it makes.
LEMMA PushTwo ==
  ASSUME NEW F, NEW s \in Seq(F), NEW x \in F, NEW y \in F
  PROVE  /\ s \o <<x, y>> \in Seq(F) /\ Len(s \o <<x, y>>) = Len(s) + 2
         /\ \A i \in 1..Len(s) : (s \o <<x, y>>)[i] = s[i]
         /\ (s \o <<x, y>>)[Len(s) + 1] = x /\ (s \o <<x, y>>)[Len(s) + 2] = y
<1>1. <<x, y>> \in Seq(F) /\ Len(<<x, y>>) = 2 /\ <<x, y>>[1] = x /\ <<x, y>>[2] = y
  OBVIOUS
<1> PICK w \in Seq(F) : w = <<x, y>>  BY <1>1
<1>2. Len(w) = 2 /\ w[1] = x /\ w[2] = y
  BY <1>1
<1>3. /\ s \o w \in Seq(F) /\ Len(s \o w) = Len(s) + Len(w)
      /\ \A i \in 1..Len(s) + Len(w) :
           (s \o w)[i] = IF i <= Len(s) THEN s[i] ELSE w[i - Len(s)]
  BY ConcatProperties
<1> PICK n \in Nat : n = Len(s)  OBVIOUS
<1> PICK z \in Seq(F) : z = s \o w  BY <1>3
<1>4. Len(z) = n + 2 /\ \A i \in 1..(n + 2) : z[i] = IF i <= n THEN s[i] ELSE w[i - n]
  BY <1>2, <1>3
<1>5. (\A i \in 1..n : z[i] = s[i]) /\ z[n + 1] = x /\ z[n + 2] = y
  BY ONLY <1>2, <1>4, n \in Nat
<1>6. z = s \o <<x, y>> /\ n = Len(s)
  OBVIOUS
<1> QED  BY <1>4, <1>5, <1>6, Zenon

\* A switch or a handler that returns.
LEMMA PopOne ==
  ASSUME NEW F, NEW s \in Seq(F), s # <<>>
  PROVE  /\ Front(s) \in Seq(F) /\ Len(Front(s)) = Len(s) - 1 /\ Len(s) \in Nat \ {0}
         /\ \A i \in 1..(Len(s) - 1) : Front(s)[i] = s[i]
<1>1. Len(s) \in Nat \ {0}
  OBVIOUS
<1> PICK n \in Nat : n = Len(s) - 1  BY <1>1
<1>2. \A i \in 1..n : s[i] \in F
  BY <1>1
<1>3. SubSeq(s, 1, n) \in Seq(F) /\ Len(SubSeq(s, 1, n)) = n
  BY <1>1, <1>2
<1>4. \A i \in 1..n : SubSeq(s, 1, n)[i] = s[i]
  BY <1>1, <1>2
<1>5. Front(s) = SubSeq(s, 1, n)
  BY DEF Front
<1> QED  BY <1>1, <1>3, <1>4, <1>5, Zenon
-----------------------------------------------------------------------------
(* Where continuations are.                                                *)
Single == \A s, t \in Threads : current[s] # NONE /\ current[t] # NONE /\ Runs(s) = Runs(t) => s = t

\* What a step does to the fibers that exist and to who runs which: nothing,
\* an exchange, a conversion, a creation.
Stays       == Exist' = Exist /\ \A s \in Threads : Runs(s)' = Runs(s)
Others(t)   == \A s \in Threads \ {t} : Runs(s)' = Runs(s)
Leaves(t, n) ==
  /\ Exist' = Exist /\ current[t] # NONE /\ n \in Exist /\ Others(t)
  /\ Runs(t)' = n /\ \A s \in Threads : Runs(s) # n
Converts(t) ==
  /\ t \notin Exist /\ Exist' = Exist \cup {t} /\ Others(t)
  /\ Runs(t) = NONE /\ Runs(t)' = t /\ \A s \in Threads : Runs(s) # t
Creates(c)  ==
  /\ c \notin Exist /\ Exist' = Exist \cup {c} /\ \A s \in Threads : Runs(s)' = Runs(s)
  /\ \A s \in Threads : Runs(s) # c

\* What Cont stands for, as two facts.
Kept ==
  /\ \A t \in Threads : Live(t) => Cont(Runs(t)) = cpu[t]
  /\ \A u \in Ults : (\A t \in Threads : Live(t) => Runs(t) # u) => Cont(u) = context[u]

LEMMA KeptTrue == Single => Kept
<1> SUFFICES ASSUME Single PROVE Kept
  OBVIOUS
<1>1. ASSUME NEW t \in Threads, Live(t) PROVE Cont(Runs(t)) = cpu[t]
  <2> PICK u : u = Runs(t)  OBVIOUS
  <2>1. \A s \in Threads : Live(s) /\ Runs(s) = u => s = t
    BY <1>1 DEF Single, Live
  <2> DEFINE P(s) == Live(s) /\ Runs(s) = u
  <2>2. P(t) /\ \A s \in Threads : P(s) => s = t
    BY <1>1, <2>1
  <2>3. (CHOOSE s \in Threads : P(s)) = t
    <3> HIDE DEF P
    <3> QED  BY <2>2
  <2> QED  BY <1>1, <2>3 DEF Cont, Held
<1>2. ASSUME NEW u \in Ults, \A t \in Threads : Live(t) => Runs(t) # u PROVE Cont(u) = context[u]
  BY <1>2 DEF Cont, Held
<1> QED  BY <1>1, <1>2 DEF Kept

\* Two threads never run one fiber.
LEMMA RunApart == ASSUME Runners PROVE Single
BY DEF Runners, Single

\* The fiber a thread runs, and its continuation.
LEMMA LiveFacts ==
  ASSUME UInv, NEW t \in Threads, Live(t), NEW r, r = Runs(t)
  PROVE  /\ r \in Exist /\ r \in Ults /\ running[r] /\ Cont(r) = cpu[t]
         /\ cpu[t] \in Conts /\ cpu[t].flow = r /\ cpu[t].at \in PhasesOf(r)
         /\ Pos(r) = 1..Len(cpu[t].frames) /\ Len(cpu[t].frames) \in Nat
         /\ cpu[t].frames \in Seq(Frame)
         /\ \A i \in 1..Len(cpu[t].frames) :
              /\ cpu[t].frames[i].at \in {"set", "leave", "handler"}
              /\ cpu[t].frames[i].at \in {"set", "leave"} => cpu[t].frames[i].from = r
              /\ cpu[t].frames[i].at = "leave" =>
                   i = Len(cpu[t].frames) /\ current[t] = cpu[t].frames[i].to
         /\ \A s \in Threads : current[s] # NONE /\ Runs(s) = r => s = t
<1>1. /\ r \in Exist /\ running[r]
      /\ \A s \in Threads : current[s] # NONE /\ Runs(s) = r => s = t
  BY DEF UInv, Runners, Live
<1>2. r \in Ults
  BY <1>1 DEF Exist, Created, Ults
<1>3. Single
  BY RunApart DEF UInv
<1>4. Cont(r) = cpu[t]
  BY <1>3, KeptTrue DEF Kept
<1>5. Sound(r)
  BY <1>1 DEF UInv
<1>6. /\ cpu[t] \in Conts /\ cpu[t].flow = r /\ cpu[t].at \in PhasesOf(r)
      /\ Pos(r) = 1..Len(cpu[t].frames)
  BY <1>4, <1>5 DEF Sound, Pos
<1>7. Len(cpu[t].frames) \in Nat /\ cpu[t].frames \in Seq(Frame)
  BY <1>6 DEF Conts, Frame
<1>8. ASSUME NEW i \in 1..Len(cpu[t].frames)
      PROVE  /\ cpu[t].frames[i].at \in {"set", "leave", "handler"}
             /\ cpu[t].frames[i].at \in {"set", "leave"} => cpu[t].frames[i].from = r
             /\ cpu[t].frames[i].at = "leave" =>
                  i = Len(cpu[t].frames) /\ current[t] = cpu[t].frames[i].to
  <2>1. i \in Pos(r)
    BY <1>6
  <2>2. \A s \in Threads : Live(s) /\ Runs(s) = r => s = t
    BY <1>1 DEF Live
  <2> QED  BY <1>4, <1>5, <2>1, <2>2 DEF Sound, Pends, To
<1> QED  BY <1>1, <1>2, <1>4, <1>6, <1>7, <1>8

\* A thread that has a frame or is beyond its first phase has been converted.
LEMMA ConvertedIf ==
  ASSUME UInv, NEW t \in Threads, cpu[t].frames # <<>> \/ cpu[t].at # "init"
  PROVE  current[t] # NONE
<1>1. current[t] = NONE => cpu[t] = Fresh(t, "init")
  BY DEF UInv, Ends
<1>2. Fresh(t, "init").frames = <<>> /\ Fresh(t, "init").at = "init"
  BY DEF Fresh
<1> QED  BY <1>1, <1>2

\* A thread in a phase of its own beyond the first has been converted.
LEMMA AtLive ==
  ASSUME UInv, NEW t \in Threads, cpu[t].frames = <<>>, cpu[t].at # "init"
  PROVE  Live(t) /\ Runs(t) = current[t]
<1>1. current[t] # NONE
  BY ConvertedIf
<1> QED  BY <1>1 DEF Live, Jumping, InFrame, Runs

\* So has one with a frame; where that is a switch that has written current,
\* the thread runs the fiber it leaves.
LEMMA InFrameLive ==
  ASSUME UInv, NEW t \in Threads, cpu[t].frames # <<>>, Top(t).at # "jump"
  PROVE  /\ Live(t) /\ Len(cpu[t].frames) \in Nat \ {0}
         /\ Top(t) = cpu[t].frames[Len(cpu[t].frames)]
         /\ Runs(t) = IF Top(t).at = "leave" THEN Top(t).from ELSE current[t]
<1>1. Live(t)
  <2>1. current[t] # NONE
    BY ConvertedIf
  <2> QED  BY <2>1 DEF Live, Jumping, InFrame, Top
<1>2. cpu[t].frames \in Seq(Frame)
  BY <1>1, LiveFacts
<1>3. Len(cpu[t].frames) \in Nat \ {0}
  BY <1>2
<1>4. Top(t) = cpu[t].frames[Len(cpu[t].frames)]
  BY DEF Top, Last
<1> QED  BY <1>1, <1>3, <1>4 DEF Runs, InFrame, Top

\* Once all fibers have been created, those of the array exist.
LEMMA ReadyFibers == ASSUME Ready PROVE fibers \subseteq Exist
BY DEF Ready, fibers, Exist, Threads

\* A continuation is the same if the same thread executes it, if a thread takes
\* it out of its context, or if it stays there.
LEMMA ContSame ==
  ASSUME Kept, Kept', NEW u \in Ults, context'[u] = context[u],
         \A s \in Threads : Live(s) /\ Runs(s) = u =>
           Live(s)' /\ Runs(s)' = u /\ cpu'[s] = cpu[s],
         \A s \in Threads : Live(s)' /\ Runs(s)' = u =>
           (Live(s) /\ Runs(s) = u) \/ cpu'[s] = context[u]
  PROVE  Cont(u)' = Cont(u)
<1>1. (\A s \in Threads : Live(s) => Cont(Runs(s)) = cpu[s])'
  BY DEF Kept
<1>2. ASSUME NEW s \in Threads, Live(s)', Runs(s)' = u PROVE Cont(u)' = cpu'[s]
  <2>1. Cont(Runs(s))' = cpu'[s]
    BY <1>1, <1>2
  <2> QED  BY <1>2, <2>1
<1>3. CASE \E s \in Threads : Live(s) /\ Runs(s) = u
  <2> PICK s \in Threads : Live(s) /\ Runs(s) = u
    BY <1>3
  <2>1. Cont(u) = cpu[s]
    BY DEF Kept
  <2>2. Cont(u)' = cpu'[s] /\ cpu'[s] = cpu[s]
    BY <1>2
  <2> QED  BY <2>1, <2>2
<1>4. CASE \A s \in Threads : Live(s) => Runs(s) # u
  <2>1. Cont(u) = context[u]
    BY <1>4 DEF Kept
  <2>2. CASE \E s \in Threads : Live(s)' /\ Runs(s)' = u
    <3> PICK s \in Threads : Live(s)' /\ Runs(s)' = u
      BY <2>2
    <3>1. Cont(u)' = cpu'[s] /\ cpu'[s] = context[u]
      BY <1>2, <1>4
    <3> QED  BY <2>1, <3>1
  <2>3. CASE \A s \in Threads : Live(s)' => Runs(s)' # u
    <3>1. Cont(u)' = context'[u]
      BY <2>3 DEF Kept
    <3> QED  BY <2>1, <3>1
  <2> QED  BY <2>2, <2>3
<1> QED  BY <1>3, <1>4

\* A step of a thread that stays with its fiber moves no other continuation.
LEMMA Local ==
  ASSUME UInv, NEW t \in Threads, NEW r, r = Runs(t), Live(t), (r = Runs(t) /\ Live(t))',
         UNCHANGED context,
         \A s \in Threads \ {t} : cpu'[s] = cpu[s] /\ current'[s] = current[s]
  PROVE  /\ Exist' = Exist /\ Created' = Created /\ Cont(r)' = cpu'[t]
         /\ \A u \in Exist : u # r => Cont(u)' = Cont(u)
         /\ \A s \in Threads :
              /\ Runs(s)' = Runs(s) /\ (Live(s)' <=> Live(s))
              /\ s # t => (Jumping(s)' <=> Jumping(s)) /\ Top(s)' = Top(s)
<1>1. Created' = Created
  BY DEF Created
<1>2. Exist' = Exist
  BY <1>1 DEF Exist, Live
<1>3. ASSUME NEW s \in Threads, s # t
      PROVE  /\ Runs(s)' = Runs(s) /\ (Live(s)' <=> Live(s))
             /\ (Jumping(s)' <=> Jumping(s)) /\ Top(s)' = Top(s)
  BY <1>3 DEF Runs, Live, Jumping, InFrame, Top
<1>4. Single /\ Single'
  <2>1. Single
    BY RunApart DEF UInv
  <2>2. \A s \in Threads : Runs(s)' = Runs(s) /\ (current'[s] = NONE <=> current[s] = NONE)
    BY <1>3 DEF Live
  <2> QED  BY <2>1, <2>2 DEF Single
<1>5. Kept /\ Kept'
  BY <1>4, KeptTrue, PTL
<1>6. Cont(r)' = cpu'[t]
  <2>1. (\A s \in Threads : Live(s) => Cont(Runs(s)) = cpu[s])'
    BY <1>5 DEF Kept
  <2>2. Cont(Runs(t))' = cpu'[t]
    BY <2>1
  <2> QED  BY <2>2
<1>7. ASSUME NEW u \in Exist, u # r PROVE Cont(u)' = Cont(u)
  <2>1. u \in Ults
    BY DEF Exist, Created, Ults
  <2>2. \A s \in Threads : Runs(s) = u \/ Runs(s)' = u => s # t
    BY <1>7
  <2> QED  BY <1>3, <1>5, <2>1, <2>2, ContSame
<1> QED  BY <1>1, <1>2, <1>3, <1>6, <1>7
-----------------------------------------------------------------------------
(* Steps by which no fiber is locked and no thread changes its fiber.      *)

\* The fibers that have ended are of the array, which is finite.
LEMMA DoneFinite == (\A u \in Exist : Sound(u)) => DoneFibers \subseteq fibers
<1> SUFFICES ASSUME \A u \in Exist : Sound(u), NEW u \in DoneFibers PROVE u \in fibers
  OBVIOUS
<1>1. u \in Exist /\ IsDone(Cont(u)) /\ Cont(u).at \in PhasesOf(u)
  BY DEF DoneFibers, Sound
<1>2. u \notin Workers
  BY <1>1 DEF IsDone, PhasesOf
<1> QED  BY <1>1, <1>2 DEF Exist, Created, Threads, fibers

LEMMA FibersFinite == IsFiniteSet(fibers) /\ Cardinality(fibers) \in Nat
<1>1. IsFiniteSet({Main})
  BY FS_Singleton
<1>2. IsFiniteSet(fibers)
  BY <1>1, FS_Union, Names DEF fibers
<1> QED  BY <1>2, FS_CardinalityType

\* A fiber that ends is counted out, once.
LEMMA CountStep ==
  ASSUME UInv, (\A u \in Exist : Sound(u))',
         \/ DoneFibers' = DoneFibers /\ completed_fibers' = completed_fibers
         \/ \E r : /\ r \notin DoneFibers /\ DoneFibers' = DoneFibers \cup {r}
                   /\ completed_fibers' = completed_fibers - 1
  PROVE  Counted' /\ completed_fibers' \in 0..Cardinality(fibers)
<1>1. DoneFibers \subseteq fibers
  BY DoneFinite DEF UInv
<1>2. DoneFibers' \subseteq fibers
  <2>1. (DoneFibers \subseteq fibers)'
    BY DoneFinite, PTL
  <2>2. fibers' = fibers
    BY DEF fibers
  <2> QED  BY <2>1, <2>2
<1> PICK A : A = DoneFibers  OBVIOUS
<1> PICK B : B = DoneFibers'  OBVIOUS
<1> PICK k \in Nat : k = Cardinality(fibers)  BY FibersFinite
<1>3. /\ IsFiniteSet(A) /\ IsFiniteSet(B) /\ Cardinality(A) \in Nat /\ Cardinality(B) \in Nat
      /\ Cardinality(B) <= k
  BY <1>1, <1>2, FibersFinite, FS_Subset, FS_CardinalityType
<1>4. completed_fibers = k - Cardinality(A) /\ completed_fibers \in 0..k
  BY DEF UInv, Counted, TypeOK
<1>5. completed_fibers' = k - Cardinality(B)
  <2>1. CASE B = A /\ completed_fibers' = completed_fibers
    BY <1>4, <2>1
  <2>2. CASE \E r : r \notin A /\ B = A \cup {r} /\ completed_fibers' = completed_fibers - 1
    <3> PICK r : r \notin A /\ B = A \cup {r} /\ completed_fibers' = completed_fibers - 1
      BY <2>2
    <3>1. Cardinality(B) = Cardinality(A) + 1
      BY <1>3, FS_AddElement
    <3> QED  BY <1>3, <1>4, <3>1
  <2> QED  BY <2>1, <2>2
<1>6. completed_fibers' \in 0..k
  BY <1>3, <1>5
<1>7. Counted'
  BY <1>5 DEF Counted, fibers
<1> QED  BY <1>6, <1>7

\* A target that stays locked and unused stays so for its switch alone.
LEMMA PendingStep ==
  ASSUME Pending, Exist \subseteq Exist',
         \A u \in Exist' : \A i \in Pos(u)' : Pends(u, i)' =>
           /\ u \in Exist /\ i \in Pos(u) /\ Pends(u, i) /\ To(u, i)' = To(u, i)
           /\ running'[To(u, i)] /\ \A s \in Threads : Runs(s)' # To(u, i)
  PROVE  Pending'
BY DEF Pending, fibers

\* The continuation of one fiber gets on, or loses its last frame.
LEMMA Quiet ==
  ASSUME UInv, NEW t \in Threads, NEW r, r = Runs(t), Live(t), ~InFrame(t, "leave"),
         UNCHANGED <<current, running, context>>, cpu' \in [Threads -> Conts],
         \A s \in Threads \ {t} : cpu'[s] = cpu[s],
         blocked' \in [Threads -> BOOLEAN], init_complete' \in BOOLEAN,
         cpu'[t].flow = cpu[t].flow, cpu'[t].at \in PhasesOf(r),
         Len(cpu'[t].frames) <= Len(cpu[t].frames),
         \A i \in 1..Len(cpu'[t].frames) : cpu'[t].frames[i] = cpu[t].frames[i],
         init_complete' => Ready,
         cpu'[t].at \in {"pick", "armed", "work"} /\ r \notin Cells => Ready,
         \/ completed_fibers' = completed_fibers /\ (IsDone(cpu'[t]) <=> IsDone(cpu[t]))
         \/ /\ completed_fibers' = completed_fibers - 1
            /\ ~IsDone(cpu[t]) /\ IsDone(cpu'[t])
  PROVE  UInv' /\ Stays
<1>1. /\ r \in Exist /\ r \in Ults /\ running[r] /\ Cont(r) = cpu[t]
      /\ cpu[t] \in Conts /\ cpu[t].flow = r
      /\ Pos(r) = 1..Len(cpu[t].frames) /\ Len(cpu[t].frames) \in Nat
      /\ \A i \in 1..Len(cpu[t].frames) :
           /\ cpu[t].frames[i].at \in {"set", "leave", "handler"}
           /\ cpu[t].frames[i].at \in {"set", "leave"} => cpu[t].frames[i].from = r
           /\ cpu[t].frames[i].at = "leave" => i = Len(cpu[t].frames)
  BY LiveFacts
<1>2. \A i \in 1..Len(cpu[t].frames) : cpu[t].frames[i].at # "leave"
  <2>1. cpu[t].frames # <<>> => Last(cpu[t].frames).at # "leave"
    BY DEF InFrame
  <2> QED  BY <1>1, <2>1 DEF Last
<1>3. Len(cpu'[t].frames) \in Nat /\ cpu'[t].frames \in Seq(Frame) /\ cpu'[t] \in Conts
  <2>1. cpu'[t] \in Conts
    OBVIOUS
  <2>2. cpu'[t].frames \in Seq(Frame)
    BY <2>1 DEF Conts, Frame
  <2> QED  BY <2>1, <2>2
<1>4. (r = Runs(t) /\ Live(t))'
  <2>1. cpu'[t].frames # <<>> => Last(cpu'[t].frames).at \notin {"leave", "jump"}
    <3>1. cpu'[t].frames # <<>> => Len(cpu'[t].frames) \in 1..Len(cpu'[t].frames)
      BY <1>3
    <3>2. \A i \in 1..Len(cpu'[t].frames) : cpu'[t].frames[i].at \notin {"leave", "jump"}
      <4> SUFFICES ASSUME NEW i \in 1..Len(cpu'[t].frames)
                   PROVE  cpu'[t].frames[i].at \notin {"leave", "jump"}
        OBVIOUS
      <4>1. i \in 1..Len(cpu[t].frames)
        BY <1>1, <1>3
      <4>2. cpu'[t].frames[i] = cpu[t].frames[i]
        OBVIOUS
      <4> QED  BY ONLY <1>1, <1>2, <4>1, <4>2
    <3> QED  BY <3>1, <3>2 DEF Last
  <2>2. current[t] = r /\ current[t] # NONE
    BY DEF Runs, Live
  <2> QED  BY <2>1, <2>2 DEF Runs, Live, Jumping, InFrame
<1>5. /\ Exist' = Exist /\ Created' = Created /\ Cont(r)' = cpu'[t]
      /\ \A u \in Exist : u # r => Cont(u)' = Cont(u)
      /\ \A s \in Threads :
           /\ Runs(s)' = Runs(s) /\ (Live(s)' <=> Live(s))
           /\ s # t => (Jumping(s)' <=> Jumping(s)) /\ Top(s)' = Top(s)
  BY <1>4, Local
<1>6. ASSUME NEW u \in Exist PROVE Sound(u)'
  <2>1. CASE u = r
    <3>1. \A i \in 1..Len(cpu'[t].frames) :
            /\ cpu'[t].frames[i].at \in {"set", "handler"}
            /\ cpu'[t].frames[i].at = "set" => cpu'[t].frames[i].from = r
      BY <1>1, <1>2, <1>3
    <3> QED  BY <1>1, <1>3, <1>5, <2>1, <3>1 DEF Sound, Pos, Pends, To, PhasesOf
  <2>2. CASE u # r
    <3>1. Sound(u) /\ Cont(u)' = Cont(u)
      BY <1>5, <2>2 DEF UInv
    <3> QED  BY <1>5, <3>1 DEF Sound, Pos, Pends, To, PhasesOf
  <2> QED  BY <2>1, <2>2
<1>7. Runners'
  <2>1. Runners
    BY DEF UInv
  <2> QED  BY <1>5, <2>1 DEF Runners
<1>8. Pending'
  <2>1. ASSUME NEW u \in Exist, NEW i \in Pos(u)'
        PROVE  i \in Pos(u) /\ Cont(u)'.frames[i] = Cont(u).frames[i]
    <3>1. CASE u = r
      BY <1>1, <1>3, <1>5, <3>1 DEF Pos
    <3>2. CASE u # r
      BY <1>5, <3>2 DEF Pos
    <3> QED  BY <3>1, <3>2
  <2>2. Pending
    BY DEF UInv
  <2>3. ASSUME NEW u \in Exist, NEW i \in Pos(u)', Pends(u, i)'
        PROVE  /\ i \in Pos(u) /\ Pends(u, i) /\ To(u, i)' = To(u, i)
               /\ running'[To(u, i)] /\ \A s \in Threads : Runs(s)' # To(u, i)
    <3>1. i \in Pos(u) /\ Pends(u, i) /\ To(u, i)' = To(u, i)
      BY <2>1, <2>3 DEF Pends, To
    <3>2. running[To(u, i)] /\ \A s \in Threads : Runs(s) # To(u, i)
      BY <2>2, <3>1 DEF Pending
    <3> QED  BY <1>5, <3>1, <3>2
  <2> QED  BY <1>5, <2>2, <2>3, PendingStep
<1>9. Ends'
  <2>1. \A s \in Threads : current[s] = NONE => s # t
    BY DEF Live
  <2>2. Ends
    BY DEF UInv
  <2>3. ~Jumping(t)'
    BY <1>4 DEF Live
  <2> QED  BY <1>5, <2>1, <2>2, <2>3 DEF Ends, Fresh, fibers
<1>10. Begun'
  <2>1. Ready' <=> Ready
    BY <1>5 DEF Ready
  <2>2. Begun
    BY DEF UInv
  <2>3. Pos(r)' # {} => Pos(r) # {}
    BY <1>1, <1>3, <1>5 DEF Pos
  <2>4. \A u \in Exist : u # r => Pos(u)' = Pos(u)
    BY <1>5 DEF Pos
  <2>5. ASSUME NEW u \in Exist, \/ Cont(u)'.at \in {"pick", "armed", "work"} /\ u \notin Cells
                                \/ Pos(u)' # {}
        PROVE  Ready
    <3>1. CASE u = r
      BY <1>1, <1>5, <2>2, <2>3, <2>5, <3>1 DEF Begun
    <3>2. CASE u # r
      BY <1>5, <2>2, <2>4, <2>5, <3>2 DEF Begun
    <3> QED  BY <3>1, <3>2
  <2> QED  BY <1>5, <2>1, <2>2, <2>5 DEF Begun
<1>11. Counted' /\ completed_fibers' \in 0..Cardinality(fibers)
  <2>1. (\A u \in Exist : Sound(u))'
    BY <1>5, <1>6
  <2>2. CASE completed_fibers' = completed_fibers /\ (IsDone(cpu'[t]) <=> IsDone(cpu[t]))
    <3>1. DoneFibers' = DoneFibers
      BY <1>1, <1>5, <2>2 DEF DoneFibers, IsDone
    <3> QED  BY <2>1, <2>2, <3>1, CountStep
  <2>3. CASE /\ completed_fibers' = completed_fibers - 1
             /\ ~IsDone(cpu[t]) /\ IsDone(cpu'[t])
    <3>1. r \notin DoneFibers /\ DoneFibers' = DoneFibers \cup {r}
      BY <1>1, <1>5, <2>3 DEF DoneFibers, IsDone
    <3> QED  BY <2>1, <2>3, <3>1, CountStep
  <2> QED  BY <2>2, <2>3
<1>12. TypeOK'
  BY <1>11 DEF UInv, TypeOK, fibers
<1> QED
  BY <1>5, <1>6, <1>7, <1>8, <1>9, <1>10, <1>11, <1>12 DEF UInv, Stays
-----------------------------------------------------------------------------
\* A phase that changes is all that changes of the continuation.
LEMMA PhaseChange ==
  ASSUME UInv, NEW t \in Threads, NEW phase \in Phases, cpu[t].frames = <<>>, Become(t, phase)
  PROVE  /\ cpu' \in [Threads -> Conts] /\ \A s \in Threads \ {t} : cpu'[s] = cpu[s]
         /\ cpu'[t].flow = cpu[t].flow /\ cpu'[t].frames = <<>> /\ cpu'[t].at = phase
         /\ Len(cpu[t].frames) = 0 /\ Len(cpu'[t].frames) = 0
<1>1. cpu \in [Threads -> Conts] /\ cpu' = [cpu EXCEPT ![t] = [@ EXCEPT !.at = phase]]
  BY DEF UInv, TypeOK, Become
<1>2. cpu[t] \in Conts
  BY <1>1
<1>3. [cpu[t] EXCEPT !.at = phase] \in Conts
  BY <1>2 DEF Conts
<1>4. cpu' \in [Threads -> Conts] /\ \A s \in Threads \ {t} : cpu'[s] = cpu[s]
  BY <1>1, <1>3
<1>5. cpu'[t] = [cpu[t] EXCEPT !.at = phase]
  BY <1>1
<1>6. cpu'[t].flow = cpu[t].flow /\ cpu'[t].frames = <<>> /\ cpu'[t].at = phase
  BY <1>2, <1>5 DEF Conts
<1> QED  BY <1>4, <1>6

\* The steps of a flow: Main's arming and release, a worker's wait, the end of
\* the work and of the program.
LEMMA PhaseInv ==
  ASSUME UInv, NEW t \in Threads,
         Release(t) \/ Await(t) \/ EndOfWork(t) \/ Announce(t) \/ (t = Main /\ Arm)
  PROVE  UInv' /\ Stays
<1> PICK r : r = Runs(t)  OBVIOUS
<1>1. /\ cpu[t].frames = <<>> /\ cpu[t].at \in {"armed", "wait", "work", "spin", "create"}
      /\ UNCHANGED <<current, running, context, blocked>>
  BY DEF Release, Await, EndOfWork, Announce, Arm, At
<1>2. Live(t) /\ ~InFrame(t, "leave")
  BY <1>1, AtLive DEF InFrame
<1>3. r \in Exist /\ Cont(r) = cpu[t] /\ cpu[t].flow = r /\ cpu[t].at \in PhasesOf(r)
  BY <1>2, LiveFacts
<1>4. Begun /\ blocked \in [Threads -> BOOLEAN] /\ init_complete \in BOOLEAN
  BY DEF UInv, TypeOK
<1>5. PICK phase \in Phases :
        /\ Become(t, phase) /\ phase \in PhasesOf(r)
        /\ init_complete' \in BOOLEAN /\ (init_complete' => Ready)
        /\ phase \in {"pick", "armed", "work"} /\ r \notin Cells => Ready
        /\ \/ completed_fibers' = completed_fibers /\ cpu[t].at \notin {"idle", "done"}
              /\ (phase \in {"idle", "spin", "done"} <=> cpu[t].at \in {"idle", "spin", "done"})
           \/ /\ completed_fibers' = completed_fibers - 1
              /\ cpu[t].at = "work" /\ phase \in {"idle", "spin"}
  <2>1. CASE Release(t)
    <3>1. cpu[t].at = "armed" /\ Become(t, "work") /\ init_complete' = TRUE
          /\ completed_fibers' = completed_fibers
      BY <2>1 DEF Release, At
    <3>2. r = Main
      BY <1>3, <3>1 DEF PhasesOf
    <3>3. Ready
      BY <1>3, <1>4, <3>1, <3>2, Names DEF Begun
    <3> QED  BY <3>1, <3>2, <3>3, Names DEF Phases, PhasesOf
  <2>2. CASE Await(t)
    <3>1. cpu[t].at = "wait" /\ Become(t, "pick") /\ init_complete /\ UNCHANGED init_complete
          /\ completed_fibers' = completed_fibers
      BY <2>2 DEF Await, At
    <3>2. r \in Workers
      BY <1>3, <3>1 DEF PhasesOf
    <3>3. Ready
      BY <1>4, <3>1 DEF Begun
    <3> QED  BY <1>4, <3>1, <3>2, <3>3 DEF Phases, PhasesOf
  <2>3. CASE EndOfWork(t)
    <3> PICK phase : phase = IF cpu[t].flow = Main THEN "spin" ELSE "idle"  OBVIOUS
    <3>1. cpu[t].at = "work" /\ Become(t, phase) /\ UNCHANGED init_complete
          /\ completed_fibers' = completed_fibers - 1
      BY <2>3 DEF EndOfWork, At
    <3>2. r \notin Workers
      BY <1>3, <3>1 DEF PhasesOf
    <3>3. phase \in PhasesOf(r) /\ phase \in {"idle", "spin"}
      BY <1>3, <3>2, Names DEF PhasesOf
    <3> QED  BY <1>4, <3>1, <3>3 DEF Phases, Begun
  <2>4. CASE Announce(t)
    <3>1. cpu[t].at = "spin" /\ Become(t, "done") /\ UNCHANGED <<init_complete, completed_fibers>>
      BY <2>4 DEF Announce, At
    <3>2. "done" \in PhasesOf(r)
      BY <1>3, <3>1 DEF PhasesOf
    <3> QED  BY <1>4, <3>1, <3>2 DEF Phases, Begun
  <2>5. CASE t = Main /\ Arm
    <3>1. cpu[t].at = "create" /\ Become(t, "armed") /\ UNCHANGED <<init_complete, completed_fibers>>
          /\ Created = Cells
      BY <2>5 DEF Arm, At
    <3>2. "armed" \in PhasesOf(r)
      BY <1>3, <3>1 DEF PhasesOf
    <3>3. Ready
      BY <1>2, <2>5, <3>1 DEF Ready, Live
    <3> QED  BY <1>4, <3>1, <3>2, <3>3 DEF Phases, Begun
  <2> QED  BY <2>1, <2>2, <2>3, <2>4, <2>5
<1>6. /\ cpu' \in [Threads -> Conts] /\ \A s \in Threads \ {t} : cpu'[s] = cpu[s]
      /\ cpu'[t].flow = cpu[t].flow /\ cpu'[t].frames = <<>> /\ cpu'[t].at = phase
      /\ Len(cpu[t].frames) = 0 /\ Len(cpu'[t].frames) = 0
  BY <1>1, <1>5, PhaseChange
<1>7. \/ completed_fibers' = completed_fibers /\ (IsDone(cpu'[t]) <=> IsDone(cpu[t]))
      \/ completed_fibers' = completed_fibers - 1 /\ ~IsDone(cpu[t]) /\ IsDone(cpu'[t])
  BY <1>5, <1>6 DEF IsDone
<1>8. /\ blocked' \in [Threads -> BOOLEAN] /\ Len(cpu'[t].frames) <= Len(cpu[t].frames)
      /\ \A i \in 1..Len(cpu'[t].frames) : cpu'[t].frames[i] = cpu[t].frames[i]
  BY <1>1, <1>4, <1>6
<1> QED  BY <1>1, <1>2, <1>5, <1>6, <1>7, <1>8, Quiet

\* A flow returns from the handler that interrupted it.
LEMMA HandlerReturnInv == ASSUME UInv, NEW t \in Threads, HandlerReturn(t) PROVE UInv' /\ Stays
<1> PICK r : r = Runs(t)  OBVIOUS
<1>1. /\ cpu[t].frames # <<>> /\ Top(t).at = "handler"
      /\ cpu' = [cpu EXCEPT ![t] = Popped(cpu[t])] /\ blocked' = [blocked EXCEPT ![t] = FALSE]
      /\ UNCHANGED <<current, running, context, init_complete, completed_fibers>>
  BY DEF HandlerReturn, InFrame, Top
<1>2. Live(t) /\ ~InFrame(t, "leave")
  BY <1>1, InFrameLive DEF InFrame, Top
<1>3. /\ r \in Exist /\ Cont(r) = cpu[t] /\ cpu[t].at \in PhasesOf(r)
      /\ cpu[t] \in Conts /\ cpu[t].frames \in Seq(Frame)
  BY <1>2, LiveFacts
<1>4. /\ Front(cpu[t].frames) \in Seq(Frame) /\ Len(Front(cpu[t].frames)) = Len(cpu[t].frames) - 1
      /\ Len(cpu[t].frames) \in Nat \ {0}
      /\ \A i \in 1..(Len(cpu[t].frames) - 1) : Front(cpu[t].frames)[i] = cpu[t].frames[i]
  BY <1>1, <1>3, PopOne
<1>5. /\ Popped(cpu[t]) \in Conts /\ Popped(cpu[t]).flow = cpu[t].flow
      /\ Popped(cpu[t]).at = cpu[t].at /\ Popped(cpu[t]).frames = Front(cpu[t].frames)
  BY <1>3, <1>4 DEF Popped, Conts, Frame
<1>6. /\ cpu \in [Threads -> Conts] /\ blocked \in [Threads -> BOOLEAN]
      /\ init_complete \in BOOLEAN /\ Begun
  BY DEF UInv, TypeOK
<1>7. /\ cpu' \in [Threads -> Conts] /\ cpu'[t] = Popped(cpu[t])
      /\ \A s \in Threads \ {t} : cpu'[s] = cpu[s]
  BY <1>1, <1>5, <1>6
<1>8. /\ Len(cpu'[t].frames) <= Len(cpu[t].frames)
      /\ \A i \in 1..Len(cpu'[t].frames) : cpu'[t].frames[i] = cpu[t].frames[i]
  BY <1>4, <1>5, <1>7
<1>9. /\ init_complete' => Ready
      /\ cpu'[t].at \in {"pick", "armed", "work"} /\ r \notin Cells => Ready
      /\ IsDone(cpu'[t]) <=> IsDone(cpu[t])
  BY <1>1, <1>3, <1>5, <1>6, <1>7 DEF Begun, IsDone
<1> QED  BY <1>1, <1>2, <1>3, <1>5, <1>6, <1>7, <1>8, <1>9, Quiet
-----------------------------------------------------------------------------
(* The steps of a switch.                                                  *)

\* The top frame goes on to its next state, and nothing else changes.
LEMMA Replaced ==
  ASSUME UInv, NEW t \in Threads, cpu[t].frames # <<>>, NEW a \in {"leave", "jump"}, Replace(t, a)
  PROVE  /\ cpu' \in [Threads -> Conts] /\ \A s \in Threads \ {t} : cpu'[s] = cpu[s]
         /\ cpu'[t].flow = cpu[t].flow /\ cpu'[t].at = cpu[t].at /\ cpu'[t].frames # <<>>
         /\ Len(cpu[t].frames) \in Nat \ {0} /\ Len(cpu'[t].frames) = Len(cpu[t].frames)
         /\ \A i \in 1..(Len(cpu[t].frames) - 1) : cpu'[t].frames[i] = cpu[t].frames[i]
         /\ Top(t) = cpu[t].frames[Len(cpu[t].frames)]
         /\ Top(t)' = cpu'[t].frames[Len(cpu[t].frames)]
         /\ Top(t)'.at = a /\ Top(t)'.from = Top(t).from /\ Top(t)'.to = Top(t).to
<1> PICK fs : fs = cpu[t].frames  OBVIOUS
<1> PICK k : k = Len(fs)  OBVIOUS
<1>1. cpu \in [Threads -> Conts]
  BY DEF UInv, TypeOK
<1>2. cpu[t] \in Conts /\ fs \in Seq(Frame)
  BY <1>1 DEF Conts, Frame
<1>3. k \in Nat \ {0} /\ fs[k] \in Frame
  BY <1>2
<1> PICK x : x = [fs[k] EXCEPT !.at = a]  OBVIOUS
<1>4. x \in Frame /\ x.at = a /\ x.from = fs[k].from /\ x.to = fs[k].to
  BY <1>3 DEF Frame
<1> PICK gs : gs = [fs EXCEPT ![k] = x]  OBVIOUS
<1>5. gs \in Seq(Frame) /\ Len(gs) = k /\ gs[k] = x /\ \A i \in 1..(k - 1) : gs[i] = fs[i]
  BY <1>2, <1>3, <1>4
<1> PICK d : d = [cpu[t] EXCEPT !.frames = gs]  OBVIOUS
<1>6. d \in Conts /\ d.flow = cpu[t].flow /\ d.at = cpu[t].at /\ d.frames = gs
  BY <1>2, <1>5 DEF Conts, Frame
<1>7. cpu' = [cpu EXCEPT ![t] = d]
  BY DEF Replace
<1>8. cpu' \in [Threads -> Conts] /\ cpu'[t] = d /\ \A s \in Threads \ {t} : cpu'[s] = cpu[s]
  BY <1>1, <1>6, <1>7
<1>9. gs # <<>>
  BY <1>3, <1>5
<1>10. Top(t) = fs[k] /\ Top(t)' = gs[k]
  <2>1. cpu'[t].frames = gs /\ Len(gs) = k
    BY <1>5, <1>6, <1>8
  <2> QED  BY ONLY <2>1, fs = cpu[t].frames, k = Len(fs) DEF Top, Last
<1> QED  BY ONLY <1>3, <1>4, <1>5, <1>6, <1>8, <1>9, <1>10, fs = cpu[t].frames, k = Len(fs)

\* current is written: the thread still runs the fiber it leaves.
LEMMA SetCurrentInv == ASSUME UInv, NEW t \in Threads, SetCurrent(t) PROVE UInv' /\ Stays
<1> PICK r : r = Runs(t)  OBVIOUS
<1>live. Live(t)
  <2>1. cpu[t].frames # <<>> /\ Top(t).at = "set"
    BY DEF SetCurrent, InFrame, Top
  <2> QED  BY <2>1, InFrameLive
<1>own. /\ r \in Exist /\ running[r] /\ Cont(r) = cpu[t] /\ cpu[t] \in Conts
      /\ cpu[t].flow = r /\ cpu[t].at \in PhasesOf(r) /\ Pos(r) = 1..Len(cpu[t].frames)
      /\ \A i \in 1..Len(cpu[t].frames) :
           /\ cpu[t].frames[i].at \in {"set", "leave", "handler"}
           /\ cpu[t].frames[i].at \in {"set", "leave"} => cpu[t].frames[i].from = r
           /\ cpu[t].frames[i].at = "leave" => i = Len(cpu[t].frames)
  BY <1>live, LiveFacts
<1> PICK n : n = Top(t).to  OBVIOUS
<1> PICK k : k = Len(cpu[t].frames)  OBVIOUS
<1>1. /\ cpu[t].frames # <<>> /\ Top(t).at = "set" /\ Replace(t, "leave")
      /\ current' = [current EXCEPT ![t] = n]
      /\ UNCHANGED <<running, context, blocked, init_complete, completed_fibers>>
  BY DEF SetCurrent, InFrame, Top
<1>2. Live(t) /\ k \in Nat \ {0} /\ Top(t) = cpu[t].frames[k] /\ r = current[t]
  BY <1>1, InFrameLive
<1>3. /\ r \in Exist /\ running[r] /\ Cont(r) = cpu[t] /\ cpu[t] \in Conts /\ cpu[t].flow = r
      /\ cpu[t].at \in PhasesOf(r) /\ Pos(r) = 1..k
      /\ \A i \in 1..k :
           /\ cpu[t].frames[i].at \in {"set", "handler"}
           /\ cpu[t].frames[i].at = "set" => cpu[t].frames[i].from = r
  BY <1>1, <1>2, <1>own
<1>4. n \in fibers /\ n \in Ults /\ n # NONE
  <2>1. k \in Pos(r) /\ Pends(r, k) /\ To(r, k) = n
    BY <1>1, <1>2, <1>3 DEF Pends, To
  <2>2. n \in fibers
    BY <1>3, <2>1 DEF UInv, Pending
  <2> QED  BY <2>2, Names DEF fibers, Ults, Threads
<1>5. /\ cpu' \in [Threads -> Conts] /\ \A s \in Threads \ {t} : cpu'[s] = cpu[s]
      /\ cpu'[t].flow = cpu[t].flow /\ cpu'[t].at = cpu[t].at /\ cpu'[t].frames # <<>>
      /\ Len(cpu'[t].frames) = k
      /\ \A i \in 1..(k - 1) : cpu'[t].frames[i] = cpu[t].frames[i]
      /\ Top(t)' = cpu'[t].frames[k]
      /\ Top(t)'.at = "leave" /\ Top(t)'.from = r /\ Top(t)'.to = n
  BY <1>1, <1>2, <1>3, Replaced
<1>6. /\ current' \in [Threads -> Ults \cup {NONE}] /\ current'[t] = n
      /\ \A s \in Threads \ {t} : current'[s] = current[s]
  BY <1>1, <1>4 DEF UInv, TypeOK
<1>7. (r = Runs(t) /\ Live(t))'
  BY <1>4, <1>5, <1>6 DEF Runs, Live, Jumping, InFrame, Top
<1>8. /\ Exist' = Exist /\ Created' = Created /\ Cont(r)' = cpu'[t]
      /\ \A u \in Exist : u # r => Cont(u)' = Cont(u)
      /\ \A s \in Threads :
           /\ Runs(s)' = Runs(s) /\ (Live(s)' <=> Live(s))
           /\ s # t => (Jumping(s)' <=> Jumping(s)) /\ Top(s)' = Top(s)
  BY <1>1, <1>2, <1>5, <1>6, <1>7, Local
<1>9. \A i \in 1..k : i # k => i \in 1..(k - 1)
  BY <1>2
<1>10. ASSUME NEW u \in Exist PROVE Sound(u)'
  <2>1. CASE u = r
    <3>1. ASSUME NEW i \in 1..k
          PROVE  /\ cpu'[t].frames[i].at \in {"set", "leave", "handler"}
                 /\ cpu'[t].frames[i].at \in {"set", "leave"} => cpu'[t].frames[i].from = r
                 /\ cpu'[t].frames[i].at = "leave" => i = k /\ cpu'[t].frames[i].to = n
      <4>1. CASE i = k
        BY ONLY <1>5, <4>1
      <4>2. CASE i # k
        BY ONLY <1>3, <1>5, <1>9, <4>2, i \in 1..k
      <4> QED  BY <4>1, <4>2
    <3>2. cpu'[t] \in Conts
      BY <1>5
    <3>3. \E s \in Threads : Live(s)' /\ Runs(s)' = r /\ current'[s] = n
      BY <1>6, <1>7
    <3>4. Cont(u)' = cpu'[t] /\ Pos(u)' = 1..k /\ PhasesOf(u)' = PhasesOf(r)
      BY <1>5, <1>8, <2>1 DEF Pos, PhasesOf
    <3> QED  BY <1>3, <1>5, <2>1, <3>1, <3>2, <3>3, <3>4, SMTT(20) DEF Sound, Pends, To
  <2>2. CASE u # r
    <3>1. Sound(u) /\ Cont(u)' = Cont(u)
      BY <1>8, <2>2 DEF UInv
    <3>2. \A s \in Threads : Runs(s) = u => s # t
      BY <2>2
    <3> QED  BY <1>6, <1>8, <3>1, <3>2 DEF Sound, Pos, Pends, To, PhasesOf
  <2> QED  BY <2>1, <2>2
<1>11. Runners'
  <2>1. Runners /\ \A s \in Threads : current'[s] # NONE <=> current[s] # NONE
    BY <1>2, <1>4, <1>6 DEF UInv, Live
  <2> QED  BY <1>1, <1>8, <2>1 DEF Runners
<1>12. Pending'
  <2>1. Pending
    BY DEF UInv
  <2>2. ASSUME NEW u \in Exist, NEW i \in Pos(u)', Pends(u, i)'
        PROVE  /\ i \in Pos(u) /\ Pends(u, i) /\ To(u, i)' = To(u, i)
               /\ running'[To(u, i)] /\ \A s \in Threads : Runs(s)' # To(u, i)
    <3>1. i \in Pos(u) /\ Pends(u, i) /\ To(u, i)' = To(u, i)
      <4>1. CASE u = r /\ i = k
        BY <1>1, <1>2, <1>3, <1>5, <1>8, <4>1 DEF Pos, Pends, To
      <4>2. CASE u = r /\ i # k
        BY <1>3, <1>5, <1>8, <1>9, <2>2, <4>2 DEF Pos, Pends, To
      <4>3. CASE u # r
        BY <1>8, <2>2, <4>3 DEF Pos, Pends, To
      <4> QED  BY <4>1, <4>2, <4>3
    <3>2. running[To(u, i)] /\ \A s \in Threads : Runs(s) # To(u, i)
      BY <2>1, <3>1 DEF Pending
    <3> QED  BY <1>1, <1>8, <3>1, <3>2
  <2> QED  BY <1>8, <2>1, <2>2, PendingStep
<1>13. Ends'
  <2>1. Ends /\ ~Jumping(t)'
    BY <1>7 DEF UInv, Live
  <2> QED  BY <1>4, <1>5, <1>6, <1>8, <2>1 DEF Ends, Fresh, fibers
<1>14. Begun'
  <2>1. (Ready' <=> Ready) /\ Begun
    BY <1>2, <1>4, <1>6, <1>8 DEF Ready, UInv, Live, Threads
  <2>2. \A u \in Exist : Pos(u)' = Pos(u) /\ Cont(u)'.at = Cont(u).at
    BY <1>3, <1>5, <1>8 DEF Pos
  <2> QED  BY <1>1, <1>8, <2>1, <2>2 DEF Begun
<1>15. Counted' /\ completed_fibers' \in 0..Cardinality(fibers)
  <2>1. (\A u \in Exist : Sound(u))' /\ DoneFibers' = DoneFibers
    BY <1>3, <1>5, <1>8, <1>10 DEF DoneFibers, IsDone
  <2> QED  BY <1>1, <2>1, CountStep
<1>16. TypeOK'
  BY <1>1, <1>5, <1>6, <1>15 DEF UInv, TypeOK, fibers
<1> QED
  BY <1>8, <1>10, <1>11, <1>12, <1>13, <1>14, <1>15, <1>16 DEF UInv, Stays
-----------------------------------------------------------------------------
(* Exchanges, and the locks taken for them.                                *)

\* The flow is saved without the switch that leaves it and its fiber unlocked;
\* from here on the thread runs the target.
LEMMA LeaveInv == ASSUME UInv, NEW t \in Threads, Leave(t) PROVE UInv' /\ Leaves(t, Top(t).to)
<1> PICK r : r = Runs(t)  OBVIOUS
<1>live. Live(t)
  <2>1. cpu[t].frames # <<>> /\ Top(t).at = "leave"
    BY DEF Leave, InFrame, Top
  <2> QED  BY <2>1, InFrameLive
<1>own. /\ r \in Exist /\ r \in Ults /\ Cont(r) = cpu[t] /\ cpu[t] \in Conts /\ cpu[t].flow = r
      /\ cpu[t].at \in PhasesOf(r) /\ Pos(r) = 1..Len(cpu[t].frames) /\ cpu[t].frames \in Seq(Frame)
      /\ \A i \in 1..Len(cpu[t].frames) :
           /\ cpu[t].frames[i].at \in {"set", "leave", "handler"}
           /\ cpu[t].frames[i].at \in {"set", "leave"} => cpu[t].frames[i].from = r
           /\ cpu[t].frames[i].at = "leave" => i = Len(cpu[t].frames) /\ current[t] = cpu[t].frames[i].to
      /\ \A s \in Threads : current[s] # NONE /\ Runs(s) = r => s = t
  BY <1>live, LiveFacts
<1> PICK n : n = Top(t).to  OBVIOUS
<1> PICK k : k = Len(cpu[t].frames)  OBVIOUS
<1> PICK p : p = Popped(cpu[t])  OBVIOUS
<1>1. /\ cpu[t].frames # <<>> /\ Top(t).at = "leave" /\ Replace(t, "jump")
      /\ context' = [context EXCEPT ![Top(t).from] = p]
      /\ running' = [running EXCEPT ![Top(t).from] = FALSE]
      /\ UNCHANGED <<current, blocked, init_complete, completed_fibers>>
  BY DEF Leave, InFrame, Top
<1>2. Live(t) /\ k \in Nat \ {0} /\ Top(t) = cpu[t].frames[k] /\ r = Top(t).from
  BY <1>1, InFrameLive
<1>3. /\ r \in Exist /\ r \in Ults /\ Cont(r) = cpu[t] /\ cpu[t] \in Conts /\ cpu[t].flow = r
      /\ cpu[t].at \in PhasesOf(r) /\ Pos(r) = 1..k /\ cpu[t].frames \in Seq(Frame)
      /\ \A i \in 1..k :
           /\ cpu[t].frames[i].at \in {"set", "leave", "handler"}
           /\ cpu[t].frames[i].at \in {"set", "leave"} => cpu[t].frames[i].from = r
           /\ cpu[t].frames[i].at = "leave" => i = k /\ current[t] = cpu[t].frames[i].to
      /\ \A s \in Threads : current[s] # NONE /\ Runs(s) = r => s = t
  BY ONLY <1>2, <1>own, k = Len(cpu[t].frames), SMTT(20)
<1>4. current[t] = n /\ k \in Pos(r) /\ Pends(r, k) /\ To(r, k) = n
  <2>1. k \in 1..k /\ cpu[t].frames[k].at = "leave" /\ cpu[t].frames[k].to = n
    BY <1>1, <1>2
  <2> QED  BY ONLY <1>3, <2>1 DEF Pends, To
<1>5. n \in Exist /\ n \in fibers /\ running[n] /\ \A s \in Threads : Runs(s) # n
  BY <1>3, <1>4 DEF UInv, Pending
<1>6. n # r /\ n \in Ults /\ n # NONE
  BY <1>5, Names DEF fibers, Ults, Threads
<1>7. /\ cpu' \in [Threads -> Conts] /\ \A s \in Threads \ {t} : cpu'[s] = cpu[s]
      /\ cpu'[t].frames # <<>> /\ Top(t)'.at = "jump" /\ Top(t)'.to = n
  BY <1>1, <1>2, Replaced
<1>8. /\ p \in Conts /\ p.flow = r /\ p.at = cpu[t].at /\ Len(p.frames) = k - 1
      /\ \A i \in 1..(k - 1) : p.frames[i] = cpu[t].frames[i] /\ i \in 1..k /\ i # k
  <2>1. /\ Front(cpu[t].frames) \in Seq(Frame) /\ Len(Front(cpu[t].frames)) = k - 1
        /\ \A i \in 1..(k - 1) : Front(cpu[t].frames)[i] = cpu[t].frames[i]
    BY <1>1, <1>3, PopOne
  <2>2. p \in Conts /\ p.flow = r /\ p.at = cpu[t].at /\ p.frames = Front(cpu[t].frames)
    BY <1>3, <2>1 DEF Popped, Conts, Frame
  <2> QED  BY <1>2, <2>1, <2>2
<1>9. /\ context' \in [Ults -> Conts \cup {NONE}] /\ context'[r] = p
      /\ \A u \in Ults \ {r} : context'[u] = context[u]
      /\ running' \in [Ults -> BOOLEAN] /\ \A u \in Ults \ {r} : running'[u] = running[u]
  BY <1>1, <1>2, <1>3, <1>8 DEF UInv, TypeOK
<1>10. /\ Runs(t)' = n /\ Jumping(t)' /\ ~Live(t)'
       /\ \A s \in Threads \ {t} :
            /\ Runs(s)' = Runs(s) /\ (Live(s)' <=> Live(s))
            /\ (Jumping(s)' <=> Jumping(s)) /\ Top(s)' = Top(s)
  <2>1. Runs(t)' = n /\ Jumping(t)' /\ ~Live(t)'
    BY <1>1, <1>4, <1>7 DEF Runs, Live, Jumping, InFrame, Top
  <2>2. \A s \in Threads \ {t} :
          /\ Runs(s)' = Runs(s) /\ (Live(s)' <=> Live(s))
          /\ (Jumping(s)' <=> Jumping(s)) /\ Top(s)' = Top(s)
    BY <1>1, <1>7 DEF Runs, Live, Jumping, InFrame, Top
  <2> QED  BY <2>1, <2>2
<1>11. Created' = Created /\ Exist' = Exist
  <2>1. p # NONE
    BY <1>8, Names
  <2>2. r \in Cells => context[r] # NONE
    BY <1>3, Names DEF Exist, Created, Threads
  <2>3. Created' = Created
    BY <1>9, <2>1, <2>2 DEF Created, Ults
  <2> QED  BY <1>1, <2>3 DEF Exist
<1>12. Kept /\ Kept'
  <2>1. Single
    BY RunApart DEF UInv
  <2>2. \A s, v \in Threads : current[s] # NONE /\ current[v] # NONE /\ Runs(s)' = Runs(v)' => s = v
    <3> SUFFICES ASSUME NEW s \in Threads, NEW v \in Threads, s # v, current[s] # NONE,
                        current[v] # NONE, Runs(s)' = Runs(v)'
                 PROVE  FALSE
      OBVIOUS
    <3>1. CASE s # t /\ v # t
      BY <1>10, <2>1, <3>1 DEF Single
    <3>2. CASE s = t
      BY <1>5, <1>10, <3>2
    <3>3. CASE v = t
      BY <1>5, <1>10, <3>3
    <3> QED  BY <3>1, <3>2, <3>3
  <2>3. Single'
    BY <1>1, <2>2 DEF Single
  <2> QED  BY <2>1, <2>3, KeptTrue, PTL
<1>13. Cont(r)' = p
  <2>1. \A s \in Threads : Live(s)' => Runs(s)' # r
    BY <1>3, <1>6, <1>10 DEF Live
  <2> QED  BY <1>3, <1>9, <1>12, <2>1 DEF Kept
<1>14. ASSUME NEW u \in Exist, u # r PROVE Cont(u)' = Cont(u)
  <2>1. u \in Ults
    BY DEF Exist, Created, Ults
  <2>2. \A s \in Threads : (Live(s) /\ Runs(s) = u) \/ (Live(s)' /\ Runs(s)' = u) => s # t
    BY <1>10, <1>14
  <2> QED  BY <1>7, <1>9, <1>10, <1>12, <1>14, <2>1, <2>2, ContSame
<1>15. ASSUME NEW u \in Exist PROVE Sound(u)'
  <2>1. CASE u = r
    <3>1. \A i \in 1..(k - 1) :
            /\ p.frames[i].at \in {"set", "handler"}
            /\ p.frames[i].at = "set" => p.frames[i].from = r
      BY <1>3, <1>8
    <3>2. Cont(u)' = p /\ Pos(u)' = 1..(k - 1) /\ PhasesOf(u)' = PhasesOf(r)
      BY <1>8, <1>13, <2>1 DEF Pos, PhasesOf
    <3>3. \A i \in Pos(u)' : /\ Cont(u)'.frames[i].at \in {"set", "handler"}
                             /\ Pends(u, i)' => Cont(u)'.frames[i].from = u
      BY <2>1, <3>1, <3>2 DEF Pends
    <3> QED  BY <1>3, <1>8, <2>1, <3>2, <3>3 DEF Sound
  <2>2. CASE u # r
    <3>1. Sound(u) /\ Cont(u)' = Cont(u)
      BY <1>14, <2>2 DEF UInv
    <3>2. \A s \in Threads : Runs(s) = u => s # t
      BY <2>2
    <3> QED  BY <1>1, <1>10, <3>1, <3>2 DEF Sound, Pos, Pends, To, PhasesOf
  <2> QED  BY <2>1, <2>2
<1>16. Runners'
  <2> SUFFICES ASSUME NEW s \in Threads, current[s] # NONE
               PROVE  /\ Runs(s)' \in Exist /\ running'[Runs(s)']
                      /\ \A v \in Threads : current[v] # NONE /\ Runs(v)' = Runs(s)' => v = s
    BY <1>1, <1>11 DEF Runners
  <2>1. CASE s = t
    BY <1>5, <1>6, <1>9, <1>10, <2>1
  <2>2. CASE s # t
    <3>1. /\ Runs(s) \in Exist /\ running[Runs(s)]
          /\ \A v \in Threads : current[v] # NONE /\ Runs(v) = Runs(s) => v = s
      BY DEF UInv, Runners
    <3>2. Runs(s) # r /\ Runs(s) # n /\ Runs(s) \in Ults
      BY <1>3, <1>5, <2>2, <3>1 DEF Exist, Created, Ults
    <3> QED  BY <1>9, <1>10, <2>2, <3>1, <3>2
  <2> QED  BY <2>1, <2>2
<1>17. Pending'
  <2>1. Pending
    BY DEF UInv
  <2>2. ASSUME NEW u \in Exist, NEW i \in Pos(u)', Pends(u, i)'
        PROVE  /\ i \in Pos(u) /\ Pends(u, i) /\ To(u, i)' = To(u, i)
               /\ running'[To(u, i)] /\ \A s \in Threads : Runs(s)' # To(u, i)
    <3>1. i \in Pos(u) /\ Pends(u, i) /\ To(u, i)' = To(u, i) /\ (u = r => i # k)
      <4>1. CASE u = r
        BY <1>3, <1>8, <1>13, <2>2, <4>1 DEF Pos, Pends, To
      <4>2. CASE u # r
        BY <1>14, <2>2, <4>2 DEF Pos, Pends, To
      <4> QED  BY <4>1, <4>2
    <3>2. To(u, i) # n
      <4>1. \A v \in Exist : \A j \in Pos(v) : Pends(v, j) /\ To(v, j) = To(u, i) => u = v /\ i = j
        BY <2>1, <3>1 DEF Pending
      <4> QED  BY <1>3, <1>4, <3>1, <4>1
    <3>3. To(u, i) \in Exist /\ running[To(u, i)] /\ \A s \in Threads : Runs(s) # To(u, i)
      BY <2>1, <3>1 DEF Pending
    <3>4. To(u, i) # r /\ To(u, i) \in Ults
      BY <3>3 DEF Exist, Created, Ults
    <3> QED  BY <1>9, <1>10, <3>1, <3>2, <3>3, <3>4
  <2> QED  BY <1>11, <2>1, <2>2, PendingStep
<1>18. Ends'
  <2>1. Ends
    BY DEF UInv
  <2> QED  BY <1>1, <1>4, <1>5, <1>6, <1>7, <1>10, <2>1 DEF Ends, Fresh, fibers
<1>19. Begun'
  <2>1. (Ready' <=> Ready) /\ Begun
    BY <1>1, <1>11 DEF Ready, UInv
  <2>2. Ready
    BY <1>3, <1>4, <2>1 DEF Begun
  <2> QED  BY <2>1, <2>2 DEF Begun
<1>20. Counted' /\ completed_fibers' \in 0..Cardinality(fibers)
  <2>1. \A u \in Exist : Cont(u)'.at = Cont(u).at
    BY <1>3, <1>8, <1>13, <1>14
  <2>2. (\A u \in Exist : Sound(u))' /\ DoneFibers' = DoneFibers
    BY <1>11, <1>15, <2>1 DEF DoneFibers, IsDone
  <2> QED  BY <1>1, <2>2, CountStep
<1>21. TypeOK'
  BY <1>1, <1>7, <1>9, <1>20 DEF UInv, TypeOK, fibers
<1>22. Leaves(t, n)
  BY <1>2, <1>5, <1>10, <1>11 DEF Leaves, Others, Live
<1> QED
  BY <1>11, <1>15, <1>16, <1>17, <1>18, <1>19, <1>20, <1>21, <1>22 DEF UInv

\* The saved continuation is executed where the thread already runs the fiber.
LEMMA JumpInv == ASSUME UInv, NEW t \in Threads, Jump(t) PROVE UInv' /\ Stays
<1> PICK r : r = current[t]  OBVIOUS
<1>1. /\ Jumping(t) /\ cpu' = [cpu EXCEPT ![t] = context[Top(t).to]]
      /\ UNCHANGED <<current, running, context, blocked, init_complete, completed_fibers>>
  BY DEF Jump, Jumping
<1>2. r \in fibers /\ Top(t).to = r /\ Runs(t) = r /\ r \in Ults /\ r # NONE
  BY <1>1, Names DEF UInv, Ends, Jumping, Runs, InFrame, fibers, Ults, Threads
<1>3. /\ r \in Exist /\ \A s \in Threads : current[s] # NONE /\ Runs(s) = r => s = t
  BY <1>2 DEF UInv, Runners
<1>4. ~Live(t) /\ \A s \in Threads : Live(s) => Runs(s) # r
  BY <1>1, <1>3 DEF Live
<1>5. Kept
  BY KeptTrue, RunApart DEF UInv
<1>6. Cont(r) = context[r] /\ Sound(r)
  BY <1>2, <1>3, <1>4, <1>5 DEF Kept, UInv
<1>7. /\ context[r] \in Conts /\ Pos(r) = 1..Len(context[r].frames)
      /\ \A i \in Pos(r) : context[r].frames[i].at \in {"set", "handler"}
  BY <1>4, <1>6 DEF Sound, Pos
<1>8. /\ cpu' \in [Threads -> Conts] /\ cpu'[t] = context[r]
      /\ \A s \in Threads \ {t} : cpu'[s] = cpu[s]
  BY <1>1, <1>2, <1>7 DEF UInv, TypeOK
<1>9. /\ Runs(t)' = r /\ Live(t)'
      /\ \A s \in Threads \ {t} :
           /\ Runs(s)' = Runs(s) /\ (Live(s)' <=> Live(s))
           /\ (Jumping(s)' <=> Jumping(s)) /\ Top(s)' = Top(s)
  <2>1. cpu'[t].frames # <<>> => Last(cpu'[t].frames).at \in {"set", "handler"}
    <3>1. cpu'[t].frames \in Seq(Frame) /\ Pos(r) = 1..Len(cpu'[t].frames)
      BY <1>7, <1>8 DEF Conts, Frame
    <3>2. cpu'[t].frames # <<>> => Len(cpu'[t].frames) \in Pos(r)
      BY <3>1
    <3> QED  BY <1>7, <1>8, <3>2 DEF Last
  <2>2. Runs(t)' = r /\ Live(t)'
    BY <1>1, <1>2, <2>1 DEF Runs, Live, Jumping, InFrame
  <2>3. \A s \in Threads \ {t} :
          /\ Runs(s)' = Runs(s) /\ (Live(s)' <=> Live(s))
          /\ (Jumping(s)' <=> Jumping(s)) /\ Top(s)' = Top(s)
    BY <1>1, <1>8 DEF Runs, Live, Jumping, InFrame, Top
  <2> QED  BY <2>2, <2>3
<1>10. \A s \in Threads : Runs(s)' = Runs(s)
  BY <1>2, <1>9
<1>11. Exist' = Exist /\ Created' = Created
  BY <1>1 DEF Exist, Created
<1>12. Kept'
  <2>1. Single'
    BY <1>1, <1>10, RunApart DEF UInv, Single
  <2> QED  BY <2>1, KeptTrue, PTL
<1>13. ASSUME NEW u \in Exist PROVE Cont(u)' = Cont(u)
  <2>1. u \in Ults
    BY DEF Exist, Created, Ults
  <2>2. ASSUME NEW s \in Threads, Live(s), Runs(s) = u
        PROVE  Live(s)' /\ Runs(s)' = u /\ cpu'[s] = cpu[s]
    BY <1>4, <1>8, <1>9, <2>2
  <2>3. ASSUME NEW s \in Threads, Live(s)', Runs(s)' = u
        PROVE  (Live(s) /\ Runs(s) = u) \/ cpu'[s] = context[u]
    BY <1>8, <1>9, <2>3
  <2> QED  BY <1>1, <1>5, <1>12, <2>1, <2>2, <2>3, ContSame
<1>14. \A u \in Exist : Sound(u)'
  <2> SUFFICES ASSUME NEW u \in Exist PROVE Sound(u)'
    OBVIOUS
  <2>1. Sound(u) /\ Cont(u)' = Cont(u)
    BY <1>13 DEF UInv
  <2>2. \A s \in Threads : Live(s) => Live(s)' /\ Runs(s)' = Runs(s)
    BY <1>4, <1>9
  <2> QED  BY <1>1, <2>1, <2>2 DEF Sound, Pos, Pends, To, PhasesOf
<1>15. Runners' /\ Begun'
  <2>1. Runners /\ Begun /\ (Ready' <=> Ready)
    BY <1>1, <1>11 DEF UInv, Ready
  <2>2. \A u \in Exist : Pos(u)' = Pos(u)
    BY <1>13 DEF Pos
  <2> QED  BY <1>1, <1>10, <1>11, <1>13, <2>1, <2>2 DEF Runners, Begun
<1>16. Pending'
  <2>1. Pending
    BY DEF UInv
  <2>2. ASSUME NEW u \in Exist, NEW i \in Pos(u)', Pends(u, i)'
        PROVE  /\ i \in Pos(u) /\ Pends(u, i) /\ To(u, i)' = To(u, i)
               /\ running'[To(u, i)] /\ \A s \in Threads : Runs(s)' # To(u, i)
    <3>1. i \in Pos(u) /\ Pends(u, i) /\ To(u, i)' = To(u, i)
      BY <1>13, <2>2 DEF Pos, Pends, To
    <3> QED  BY <1>1, <1>10, <2>1, <3>1 DEF Pending
  <2> QED  BY <1>11, <2>1, <2>2, PendingStep
<1>17. Ends'
  <2>1. Ends /\ ~Jumping(t)'
    BY <1>9 DEF UInv, Live
  <2> QED  BY <1>1, <1>2, <1>8, <1>9, <2>1 DEF Ends, Fresh, fibers
<1>18. Counted' /\ completed_fibers' \in 0..Cardinality(fibers)
  <2>1. (\A u \in Exist : Sound(u))' /\ DoneFibers' = DoneFibers
    BY <1>11, <1>13, <1>14 DEF DoneFibers
  <2> QED  BY <1>1, <2>1, CountStep
<1>19. TypeOK'
  BY <1>1, <1>8, <1>18 DEF UInv, TypeOK, fibers
<1> QED
  BY <1>10, <1>11, <1>14, <1>15, <1>16, <1>17, <1>18, <1>19 DEF UInv, Stays

\* Thread t gets l - k frames more, handlers and then a switch to n; none of
\* the k it has is one it is about to leave by.
Locking(t, n, k, l) ==
  /\ UNCHANGED <<current, context, init_complete, completed_fibers>>
  /\ cpu' \in [Threads -> Conts] /\ blocked' \in [Threads -> BOOLEAN]
  /\ \A s \in Threads \ {t} : cpu'[s] = cpu[s]
  /\ cpu'[t].flow = cpu[t].flow /\ cpu'[t].at = cpu[t].at
  /\ k = Len(cpu[t].frames) /\ l > k
  /\ l = Len(cpu'[t].frames) /\ cpu'[t].frames[l] = Switch(t, n)
  /\ \A i \in 1..k : cpu'[t].frames[i] = cpu[t].frames[i] /\ cpu[t].frames[i].at # "leave"
  /\ \A i \in (k + 1)..(l - 1) : cpu'[t].frames[i].at = "handler"

\* A try-lock that succeeds: the thread begins a switch, perhaps in a handler.
LEMMA LockInv ==
  ASSUME UInv, NEW t \in Threads, NEW r, r = Runs(t), Live(t), r = current[t], Ready,
         NEW n \in fibers, Trylock(n), NEW k \in Nat, NEW l \in Nat, Locking(t, n, k, l)
  PROVE  UInv' /\ Stays
<1>own. /\ r \in Exist /\ running[r] /\ Cont(r) = cpu[t] /\ cpu[t].flow = r
      /\ cpu[t].at \in PhasesOf(r) /\ Pos(r) = 1..Len(cpu[t].frames)
      /\ \A i \in 1..Len(cpu[t].frames) :
           /\ cpu[t].frames[i].at \in {"set", "leave", "handler"}
           /\ cpu[t].frames[i].at \in {"set", "leave"} => cpu[t].frames[i].from = r
  BY ONLY UInv, t \in Threads, Live(t), r = Runs(t), LiveFacts
<1> USE DEF Locking
<1>1. /\ r \in Exist /\ running[r] /\ Cont(r) = cpu[t] /\ cpu[t].flow = r
      /\ cpu[t].at \in PhasesOf(r) /\ Pos(r) = 1..k
      /\ \A i \in 1..k :
           /\ cpu[t].frames[i].at \in {"set", "leave", "handler"}
           /\ cpu[t].frames[i].at \in {"set", "leave"} => cpu[t].frames[i].from = r
  BY <1>own
<1>2. ~running[n] /\ running' = [running EXCEPT ![n] = TRUE]
  BY DEF Trylock
<1>3. /\ running' \in [Ults -> BOOLEAN] /\ running'[n] /\ \A u \in Ults : running[u] => running'[u]
      /\ n \in Ults /\ n \in Exist
  BY <1>2, ReadyFibers DEF UInv, TypeOK, fibers, Ults, Threads
<1>4. \A s \in Threads : Runs(s) # n
  <2> SUFFICES ASSUME NEW s \in Threads PROVE Runs(s) # n
    OBVIOUS
  <2>1. CASE current[s] # NONE
    BY <1>2, <2>1 DEF UInv, Runners
  <2>2. CASE current[s] = NONE
    <3>1. cpu[s].frames = <<>>
      BY <2>2, ConvertedIf
    <3> QED  BY <1>3, <2>2, <3>1, Names DEF Runs, InFrame
  <2> QED  BY <2>1, <2>2
<1>5. /\ Switch(t, n).at = "set" /\ Switch(t, n).from = r /\ Switch(t, n).to = n
  BY DEF Switch
<1>6. \A i \in 1..l : i \in 1..k \/ i \in (k + 1)..(l - 1) \/ i = l
  OBVIOUS
<1>7. l \in 1..l /\ l \notin 1..k
  OBVIOUS
<1>8. \A i \in 1..l :
        /\ cpu'[t].frames[i].at \in {"set", "handler"}
        /\ cpu'[t].frames[i].at = "set" =>
             /\ cpu'[t].frames[i].from = r
             /\ i = l \/ (i \in 1..k /\ cpu'[t].frames[i] = cpu[t].frames[i])
  <2> SUFFICES ASSUME NEW i \in 1..l
               PROVE  /\ cpu'[t].frames[i].at \in {"set", "handler"}
                      /\ cpu'[t].frames[i].at = "set" =>
                           /\ cpu'[t].frames[i].from = r
                           /\ i = l \/ (i \in 1..k /\ cpu'[t].frames[i] = cpu[t].frames[i])
    OBVIOUS
  <2>1. CASE i \in 1..k
    BY <1>1, <2>1
  <2>2. CASE i \in (k + 1)..(l - 1)
    BY <2>2
  <2>3. CASE i = l
    BY <1>5, <2>3
  <2> QED  BY <1>6, <2>1, <2>2, <2>3
<1>9. (r = Runs(t) /\ Live(t))'
  <2>1. Last(cpu'[t].frames).at = "set"
    BY <1>5 DEF Last
  <2> QED  BY <2>1 DEF Runs, Live, Jumping, InFrame
<1>10. /\ Exist' = Exist /\ Created' = Created /\ Cont(r)' = cpu'[t]
       /\ \A u \in Exist : u # r => Cont(u)' = Cont(u)
       /\ \A s \in Threads :
            /\ Runs(s)' = Runs(s) /\ (Live(s)' <=> Live(s))
            /\ s # t => (Jumping(s)' <=> Jumping(s)) /\ Top(s)' = Top(s)
  BY <1>9, Local
<1>11. cpu'[t] \in Conts /\ Pos(r)' = 1..l
  BY <1>10 DEF Pos
<1>12. ASSUME NEW u \in Exist PROVE Sound(u)'
  <2>1. CASE u = r
    <3>1. \A i \in Pos(u)' : /\ Cont(u)'.frames[i].at \in {"set", "handler"}
                             /\ Pends(u, i)' => Cont(u)'.frames[i].from = u
      BY <1>8, <1>10, <1>11, <2>1 DEF Pends
    <3>2. PhasesOf(u)' = PhasesOf(r)
      BY <2>1 DEF PhasesOf
    <3> QED  BY <1>1, <1>10, <1>11, <2>1, <3>1, <3>2 DEF Sound
  <2>2. CASE u # r
    <3>1. Sound(u) /\ Cont(u)' = Cont(u)
      BY <1>10, <2>2 DEF UInv
    <3> QED  BY <1>10, <3>1 DEF Sound, Pos, Pends, To, PhasesOf
  <2> QED  BY <2>1, <2>2
<1>13. Runners'
  <2>1. Runners /\ Exist \subseteq Ults
    BY DEF UInv, Exist, Created, Ults
  <2> QED  BY <1>3, <1>10, <2>1 DEF Runners
<1>14. \A u \in Exist : \A i \in Pos(u)' : Pends(u, i)' =>
         \/ u = r /\ i = l /\ To(u, i)' = n
         \/ i \in Pos(u) /\ Pends(u, i) /\ To(u, i)' = To(u, i)
  <2> SUFFICES ASSUME NEW u \in Exist, NEW i \in Pos(u)', Pends(u, i)'
               PROVE  \/ u = r /\ i = l /\ To(u, i)' = n
                      \/ i \in Pos(u) /\ Pends(u, i) /\ To(u, i)' = To(u, i)
    OBVIOUS
  <2>1. CASE u = r
    <3>1. i \in 1..l /\ cpu'[t].frames[i].at = "set"
      BY <1>8, <1>10, <1>11, <2>1 DEF Pends
    <3>2. CASE i = l
      BY <1>5, <1>10, <2>1, <3>2 DEF To
    <3>3. CASE i \in 1..k /\ cpu'[t].frames[i] = cpu[t].frames[i]
      BY <1>1, <1>10, <2>1, <3>1, <3>3 DEF Pends, To
    <3> QED  BY <1>8, <3>1, <3>2, <3>3
  <2>2. CASE u # r
    BY <1>10, <2>2 DEF Pos, Pends, To
  <2> QED  BY <2>1, <2>2
<1>15. \A u \in Exist : \A i \in Pos(u) : Pends(u, i) =>
         /\ To(u, i) \in Exist \cap fibers /\ running[To(u, i)] /\ To(u, i) # n
         /\ \A s \in Threads : Runs(s) # To(u, i)
         /\ \A v \in Exist : \A j \in Pos(v) :
              Pends(v, j) /\ To(v, j) = To(u, i) => u = v /\ i = j
  BY <1>2 DEF UInv, Pending
<1>16. Pending'
  <2> SUFFICES ASSUME NEW u \in Exist, NEW i \in Pos(u)', Pends(u, i)'
               PROVE  /\ To(u, i)' \in Exist \cap fibers /\ running'[To(u, i)']
                      /\ \A s \in Threads : Runs(s)' # To(u, i)'
                      /\ \A v \in Exist : \A j \in Pos(v)' :
                           Pends(v, j)' /\ To(v, j)' = To(u, i)' => u = v /\ i = j
    BY <1>10 DEF Pending, fibers
  <2>1. \A s \in Threads : Runs(s)' = Runs(s)
    BY <1>10
  <2>2. CASE u = r /\ i = l /\ To(u, i)' = n
    BY <1>3, <1>4, <1>14, <1>15, <2>1, <2>2
  <2>3. CASE i \in Pos(u) /\ Pends(u, i) /\ To(u, i)' = To(u, i)
    <3>1. To(u, i) \in Ults
      BY <1>15, <2>3 DEF fibers, Ults, Threads
    <3> QED  BY <1>3, <1>14, <1>15, <2>1, <2>3, <3>1
  <2> QED  BY <1>14, <2>2, <2>3
<1>17. Ends'
  <2>1. Ends /\ ~Jumping(t)'
    BY <1>9 DEF UInv, Live
  <2>2. \A s \in Threads : current[s] = NONE => s # t
    BY DEF Live
  <2> QED  BY <1>10, <2>1, <2>2 DEF Ends, Fresh, fibers
<1>18. Begun'
  <2>1. Ready'
    BY <1>10 DEF Ready
  <2> QED  BY <2>1 DEF Begun
<1>19. Counted' /\ completed_fibers' \in 0..Cardinality(fibers)
  <2>1. \A u \in Exist : Cont(u)'.at = Cont(u).at
    BY <1>1, <1>10
  <2>2. (\A u \in Exist : Sound(u))' /\ DoneFibers' = DoneFibers
    BY <1>10, <1>12, <2>1 DEF DoneFibers, IsDone
  <2> QED  BY <2>2, CountStep
<1>20. TypeOK'
  BY <1>3, <1>19 DEF UInv, TypeOK, fibers
<1> QED
  BY <1>10, <1>12, <1>13, <1>16, <1>17, <1>18, <1>19, <1>20 DEF UInv, Stays

\* A thread that has nothing to do picks a fiber.
LEMMA PickInv == ASSUME UInv, NEW t \in Threads, NEW n \in fibers, Pick(t, n) PROVE UInv' /\ Stays
<1> PICK r : r = Runs(t)  OBVIOUS
<1> PICK x : x = Switch(t, n)  OBVIOUS
<1>1. /\ cpu[t].frames = <<>> /\ cpu[t].at \in {"pick", "idle"} /\ Trylock(n)
      /\ cpu' = [cpu EXCEPT ![t].frames = @ \o <<x>>]
      /\ UNCHANGED <<current, context, blocked, init_complete, completed_fibers>>
  BY DEF Pick, At, Push
<1>2. Live(t) /\ r = current[t]
  BY <1>1, AtLive
<1>3. /\ r \in Exist /\ r \in Ults /\ Cont(r) = cpu[t] /\ cpu[t].at \in PhasesOf(r)
      /\ cpu[t] \in Conts
  BY <1>2, LiveFacts
<1>4. Ready
  <2>1. Begun
    BY DEF UInv
  <2>2. CASE r \in Cells
    BY <2>1, <2>2 DEF Begun
  <2>3. CASE r \notin Cells
    BY <1>1, <1>3, <2>1, <2>3 DEF Begun, PhasesOf, Ults, Threads
  <2> QED  BY <2>2, <2>3
<1>5. x \in Frame
  BY <1>2, <1>3 DEF Frame, Switch, fibers, Ults, Threads
<1>6. <<>> \o <<x>> = <<x>> /\ <<x>> \in Seq(Frame) /\ Len(<<x>>) = 1 /\ <<x>>[1] = x
  BY <1>5
<1> PICK d : d = [cpu[t] EXCEPT !.frames = <<x>>]  OBVIOUS
<1>7. d \in Conts /\ d.flow = cpu[t].flow /\ d.at = cpu[t].at /\ d.frames = <<x>>
  BY <1>3, <1>6 DEF Conts, Frame
<1>8. cpu' = [cpu EXCEPT ![t] = d]
  BY <1>1, <1>6
<1>9. cpu \in [Threads -> Conts] /\ blocked \in [Threads -> BOOLEAN]
  BY DEF UInv, TypeOK
<1>10. /\ cpu' \in [Threads -> Conts] /\ cpu'[t] = d
       /\ \A s \in Threads \ {t} : cpu'[s] = cpu[s]
  BY <1>7, <1>8, <1>9
<1>11. Len(cpu[t].frames) = 0 /\ Len(cpu'[t].frames) = 1 /\ cpu'[t].frames[1] = x
  BY <1>1, <1>6, <1>7, <1>10
<1>12. blocked' \in [Threads -> BOOLEAN] /\ 0 \in Nat /\ 1 \in Nat /\ 1 > 0
  BY <1>1, <1>9
<1>13. /\ \A i \in 1..0 : cpu'[t].frames[i] = cpu[t].frames[i] /\ cpu[t].frames[i].at # "leave"
       /\ \A i \in (0 + 1)..(1 - 1) : cpu'[t].frames[i].at = "handler"
  OBVIOUS
<1>14. Locking(t, n, 0, 1)
  BY <1>1, <1>7, <1>10, <1>11, <1>12, <1>13 DEF Locking
<1> QED
  BY <1>1, <1>2, <1>4, <1>12, <1>14, LockInv

\* So does the handler of an alarm.
LEMMA AlarmInv ==
  ASSUME UInv, AlarmInSwitch = FALSE, NEW t \in Threads, NEW n \in fibers, Alarm(t, n)
  PROVE  UInv' /\ Stays
<1> PICK r : r = Runs(t)  OBVIOUS
<1> PICK x : x = Switch(t, n)  OBVIOUS
<1> PICK h : h = [at |-> "handler", from |-> NONE, to |-> NONE]  OBVIOUS
<1>1. /\ Created = Cells /\ (\A s \in Threads : current[s] # NONE) /\ Trylock(n)
      /\ ~InFrame(t, "leave") /\ ~InFrame(t, "jump")
      /\ cpu' = [cpu EXCEPT ![t].frames = @ \o <<h, x>>]
      /\ blocked' = [blocked EXCEPT ![t] = TRUE]
      /\ UNCHANGED <<current, context, init_complete, completed_fibers>>
  BY DEF Alarm, Armed, Interruptible, Unsafe, Push
<1>2. Live(t) /\ r = current[t] /\ Ready
  BY <1>1 DEF Live, Jumping, Runs, Ready, Threads
<1>3. /\ r \in Ults /\ cpu[t] \in Conts /\ cpu[t].frames \in Seq(Frame)
      /\ Len(cpu[t].frames) \in Nat
      /\ \A i \in 1..Len(cpu[t].frames) :
           cpu[t].frames[i].at = "leave" => i = Len(cpu[t].frames)
  BY ONLY UInv, t \in Threads, r = Runs(t), <1>2, LiveFacts
<1>4. \A i \in 1..Len(cpu[t].frames) : cpu[t].frames[i].at # "leave"
  <2>1. cpu[t].frames # <<>> => Last(cpu[t].frames).at # "leave"
    BY <1>1 DEF InFrame
  <2> QED  BY <1>3, <2>1 DEF Last
<1> PICK k \in Nat : k = Len(cpu[t].frames)  BY <1>3
<1> PICK fs \in Seq(Frame) : fs = cpu[t].frames \o <<h, x>>
  <2>1. x \in Frame /\ h \in Frame
    BY <1>2, <1>3 DEF Frame, Switch, fibers, Ults, Threads
  <2> QED  BY <1>3, <2>1, PushTwo
<1>5. /\ Len(fs) = k + 2 /\ fs[k + 1] = h /\ fs[k + 2] = x
      /\ \A i \in 1..k : fs[i] = cpu[t].frames[i]
  <2>1. x \in Frame /\ h \in Frame
    BY <1>2, <1>3 DEF Frame, Switch, fibers, Ults, Threads
  <2> QED  BY <1>3, <2>1, PushTwo
<1> PICK d : d = [cpu[t] EXCEPT !.frames = fs]  OBVIOUS
<1>6. d \in Conts /\ d.flow = cpu[t].flow /\ d.at = cpu[t].at /\ d.frames = fs
  BY <1>3 DEF Conts, Frame
<1>7. cpu' = [cpu EXCEPT ![t] = d]
  BY <1>1
<1>8. cpu \in [Threads -> Conts] /\ blocked \in [Threads -> BOOLEAN]
  BY DEF UInv, TypeOK
<1>9. /\ cpu' \in [Threads -> Conts] /\ cpu'[t] = d /\ blocked' \in [Threads -> BOOLEAN]
      /\ \A s \in Threads \ {t} : cpu'[s] = cpu[s]
  BY <1>1, <1>6, <1>7, <1>8
<1> PICK l \in Nat : l = k + 2  OBVIOUS
<1>10. /\ l > k /\ l = Len(cpu'[t].frames) /\ cpu'[t].frames[l] = x
       /\ \A i \in 1..k : cpu'[t].frames[i] = cpu[t].frames[i] /\ cpu[t].frames[i].at # "leave"
  <2>1. cpu'[t].frames = fs /\ fs[l] = x /\ Len(fs) = l
    BY <1>5, <1>6, <1>9
  <2>2. \A i \in 1..k : cpu[t].frames[i].at # "leave"
    BY <1>4
  <2> QED  BY ONLY <1>5, <2>1, <2>2, k \in Nat, l = k + 2
<1>11. \A i \in (k + 1)..(l - 1) : cpu'[t].frames[i].at = "handler"
  <2>1. \A i \in (k + 1)..(l - 1) : i = k + 1
    OBVIOUS
  <2>2. h.at = "handler"
    OBVIOUS
  <2>3. cpu'[t].frames = fs
    BY <1>6, <1>9
  <2> QED  BY <1>5, <2>1, <2>2, <2>3, Zenon
<1>12. Locking(t, n, k, l)
  <2>1. x = Switch(t, n) /\ k = Len(cpu[t].frames)
    OBVIOUS
  <2> QED  BY <1>1, <1>6, <1>9, <1>10, <1>11, <2>1, Zenon DEF Locking
<1>13. Trylock(n)
  BY <1>1
<1> QED
  BY <1>2, <1>12, <1>13, LockInv
-----------------------------------------------------------------------------
(* Conversions, creations, and the whole.                                  *)

\* A thread that converts itself becomes a fiber nobody has heard of.
LEMMA ConvertInv == ASSUME UInv, NEW t \in Threads, ult_convert(t) PROVE UInv' /\ Converts(t)
<1> PICK phase : phase = IF t = Main THEN "create" ELSE "wait"  OBVIOUS
<1>1. /\ cpu[t].frames = <<>> /\ cpu[t].at = "init" /\ Become(t, phase)
      /\ current' = [current EXCEPT ![t] = t] /\ running' = [running EXCEPT ![t] = TRUE]
      /\ context' = [context EXCEPT ![t] = cpu[t]]
      /\ UNCHANGED <<blocked, init_complete, completed_fibers>>
  BY DEF ult_convert, At
<1>2. phase \in Phases /\ phase \in PhasesOf(t) /\ phase \in {"create", "wait"}
  BY Names DEF Phases, PhasesOf, Threads
<1>3. t \in Ults /\ t # NONE /\ t \notin Cells /\ cpu[t] \in Conts
  BY Names DEF Ults, Threads, UInv, TypeOK
<1>4. current[t] = NONE
  <2> SUFFICES ASSUME current[t] # NONE PROVE FALSE
    OBVIOUS
  <2>1. Live(t)
    BY <1>1 DEF Live, Jumping, InFrame
  <2>2. cpu[t].at \in PhasesOf(Runs(t))
    BY <2>1, LiveFacts
  <2> QED  BY <1>1, <2>2 DEF PhasesOf
<1>5. cpu[t].flow = t
  <2>1. cpu[t] = Fresh(t, "init")
    BY <1>4 DEF UInv, Ends
  <2> QED  BY <2>1 DEF Fresh
<1>6. /\ cpu' \in [Threads -> Conts] /\ \A s \in Threads \ {t} : cpu'[s] = cpu[s]
      /\ cpu'[t].flow = t /\ cpu'[t].frames = <<>> /\ cpu'[t].at = phase
      /\ Len(cpu'[t].frames) = 0
  BY <1>1, <1>2, <1>5, PhaseChange
<1>7. /\ current' \in [Threads -> Ults \cup {NONE}] /\ current'[t] = t
      /\ \A s \in Threads \ {t} : current'[s] = current[s]
      /\ running' \in [Ults -> BOOLEAN] /\ running'[t]
      /\ \A u \in Ults \ {t} : running'[u] = running[u]
      /\ context' \in [Ults -> Conts \cup {NONE}]
      /\ \A u \in Ults \ {t} : context'[u] = context[u]
  BY <1>1, <1>3 DEF UInv, TypeOK
<1>8. t \notin Exist
  BY <1>3, <1>4 DEF Exist, Created
<1>9. Created' = Created /\ Exist' = Exist \cup {t}
  <2>1. Created' = Created
    BY <1>3, <1>7 DEF Created, Ults
  <2> QED  BY <1>3, <1>7, <2>1 DEF Exist
<1>10. /\ Runs(t)' = t /\ Live(t)' /\ ~Jumping(t)'
       /\ \A s \in Threads \ {t} :
            /\ Runs(s)' = Runs(s) /\ (Live(s)' <=> Live(s))
            /\ (Jumping(s)' <=> Jumping(s)) /\ Top(s)' = Top(s)
  BY <1>3, <1>6, <1>7 DEF Runs, Live, Jumping, InFrame, Top
<1>11. \A s \in Threads : Runs(s) # t
  <2> SUFFICES ASSUME NEW s \in Threads PROVE Runs(s) # t
    OBVIOUS
  <2>1. CASE current[s] # NONE
    BY <1>8, <2>1 DEF UInv, Runners
  <2>2. CASE current[s] = NONE
    <3>1. cpu[s].frames = <<>>
      BY <2>2, ConvertedIf
    <3> QED  BY <1>3, <2>2, <3>1 DEF Runs, InFrame
  <2> QED  BY <2>1, <2>2
<1>12. Kept /\ Kept'
  <2>1. Single
    BY RunApart DEF UInv
  <2>2. \A s, v \in Threads : current'[s] # NONE /\ current'[v] # NONE /\ Runs(s)' = Runs(v)' => s = v
    <3> SUFFICES ASSUME NEW s \in Threads, NEW v \in Threads, s # v, current'[s] # NONE,
                        current'[v] # NONE, Runs(s)' = Runs(v)'
                 PROVE  FALSE
      OBVIOUS
    <3>1. CASE s # t /\ v # t
      BY <1>7, <1>10, <2>1, <3>1 DEF Single
    <3>2. CASE s = t \/ v = t
      BY <1>10, <1>11, <3>2
    <3> QED  BY <3>1, <3>2
  <2>3. Single'
    BY <2>2 DEF Single
  <2> QED  BY <2>1, <2>3, KeptTrue, PTL
<1>13. Cont(t)' = cpu'[t]
  <2>1. (\A s \in Threads : Live(s) => Cont(Runs(s)) = cpu[s])'
    BY <1>12 DEF Kept
  <2>2. Cont(Runs(t))' = cpu'[t]
    BY <1>10, <2>1
  <2> QED  BY <1>10, <2>2
<1>14. ASSUME NEW u \in Exist PROVE Cont(u)' = Cont(u) /\ u # t
  <2>1. u \in Ults /\ u # t
    BY <1>8 DEF Exist, Created, Ults
  <2>2. \A s \in Threads : Live(s)' /\ Runs(s)' = u => s # t
    BY <1>10, <2>1
  <2>3. \A s \in Threads : Live(s) => s # t
    BY <1>4 DEF Live
  <2> QED  BY <1>6, <1>7, <1>10, <1>12, <2>1, <2>2, <2>3, ContSame
<1>15. Pos(t)' = {}
  BY <1>6, <1>13 DEF Pos
<1>16. ASSUME NEW u \in Exist' PROVE Sound(u)'
  <2>1. CASE u = t
    <3>1. PhasesOf(u)' = PhasesOf(t) /\ cpu'[t] \in Conts
      BY <1>6, <2>1 DEF PhasesOf
    <3> QED  BY <1>2, <1>6, <1>13, <1>15, <2>1, <3>1 DEF Sound
  <2>2. CASE u # t
    <3>1. Sound(u) /\ Cont(u)' = Cont(u)
      BY <1>9, <1>14, <2>2 DEF UInv
    <3>2. \A s \in Threads : Live(s) => s # t
      BY <1>4 DEF Live
    <3> QED  BY <1>7, <1>10, <3>1, <3>2 DEF Sound, Pos, Pends, To, PhasesOf
  <2> QED  BY <2>1, <2>2
<1>17. Runners'
  <2> SUFFICES ASSUME NEW s \in Threads, current'[s] # NONE
               PROVE  /\ Runs(s)' \in Exist' /\ running'[Runs(s)']
                      /\ \A v \in Threads : current'[v] # NONE /\ Runs(v)' = Runs(s)' => v = s
    BY DEF Runners
  <2>1. CASE s = t
    BY <1>7, <1>9, <1>10, <1>11, <2>1
  <2>2. CASE s # t
    <3>1. /\ Runs(s) \in Exist /\ running[Runs(s)] /\ Runs(s) # t
          /\ \A v \in Threads : current[v] # NONE /\ Runs(v) = Runs(s) => v = s
      BY <1>7, <1>11, <2>2 DEF UInv, Runners
    <3>2. Runs(s) \in Ults
      BY <3>1 DEF Exist, Created, Ults
    <3> QED  BY <1>7, <1>9, <1>10, <2>2, <3>1, <3>2
  <2> QED  BY <2>1, <2>2
<1>18. Pending'
  <2>1. Pending
    BY DEF UInv
  <2>2. ASSUME NEW u \in Exist', NEW i \in Pos(u)', Pends(u, i)'
        PROVE  /\ u \in Exist /\ i \in Pos(u) /\ Pends(u, i) /\ To(u, i)' = To(u, i)
               /\ running'[To(u, i)] /\ \A s \in Threads : Runs(s)' # To(u, i)
    <3>1. u \in Exist
      BY <1>9, <1>15, <2>2
    <3>2. i \in Pos(u) /\ Pends(u, i) /\ To(u, i)' = To(u, i)
      BY <1>14, <2>2, <3>1 DEF Pos, Pends, To
    <3>3. To(u, i) \in Exist /\ running[To(u, i)] /\ \A s \in Threads : Runs(s) # To(u, i)
      BY <2>1, <3>1, <3>2 DEF Pending
    <3>4. To(u, i) # t /\ To(u, i) \in Ults
      BY <1>8, <3>3 DEF Exist, Created, Ults
    <3> QED  BY <1>7, <1>10, <3>1, <3>2, <3>3, <3>4
  <2> QED  BY <1>9, <2>1, <2>2, PendingStep
<1>19. Ends'
  <2> SUFFICES ASSUME NEW s \in Threads
               PROVE  /\ current'[s] = NONE => cpu'[s] = Fresh(s, "init")
                      /\ Jumping(s)' => current'[s] \in fibers /\ Top(s)'.to = current'[s]
    BY DEF Ends, Fresh, fibers
  <2>1. CASE s = t
    BY <1>3, <1>7, <1>10, <2>1
  <2>2. CASE s # t
    BY <1>6, <1>7, <1>10, <2>2 DEF UInv, Ends
  <2> QED  BY <2>1, <2>2
<1>20. Begun'
  <2>1. Begun /\ (Ready => Ready')
    BY <1>3, <1>7, <1>9 DEF UInv, Ready, Threads
  <2>2. \A u \in Exist : Pos(u)' = Pos(u)
    BY <1>14 DEF Pos
  <2>3. \A u \in Exist' : \/ Cont(u)'.at \in {"pick", "armed", "work"} /\ u \notin Cells
                         \/ Pos(u)' # {}
                         => Ready
    <3> SUFFICES ASSUME NEW u \in Exist', \/ Cont(u)'.at \in {"pick", "armed", "work"} /\ u \notin Cells
                                         \/ Pos(u)' # {}
                 PROVE  Ready
      OBVIOUS
    <3>1. u # t
      BY <1>2, <1>6, <1>13, <1>15
    <3> QED  BY <1>9, <1>14, <2>1, <2>2, <3>1 DEF Begun
  <2>4. \A s \in Threads : Runs(s)' \in Cells => Ready
    BY <1>3, <1>10, <2>1 DEF Begun
  <2> QED  BY <1>1, <2>1, <2>3, <2>4 DEF Begun
<1>21. Counted' /\ completed_fibers' \in 0..Cardinality(fibers)
  <2>1. ~IsDone(Cont(t)')
    BY <1>2, <1>6, <1>13 DEF IsDone
  <2>2. DoneFibers' = DoneFibers
    BY <1>9, <1>14, <2>1 DEF DoneFibers, IsDone
  <2>3. (\A u \in Exist : Sound(u))'
    BY <1>16
  <2> QED  BY <1>1, <2>2, <2>3, CountStep
<1>22. TypeOK'
  BY <1>1, <1>6, <1>7, <1>21 DEF UInv, TypeOK, fibers
<1>23. Converts(t)
  <2>1. Runs(t) = NONE
    BY <1>1, <1>4 DEF Runs, InFrame
  <2> QED  BY <1>8, <1>9, <1>10, <1>11, <2>1 DEF Converts, Others
<1> QED
  BY <1>16, <1>17, <1>18, <1>19, <1>20, <1>21, <1>22, <1>23 DEF UInv

\* A fiber that is created is suspended where its work begins.
LEMMA CreateInv == ASSUME UInv, NEW c \in Cells, ult_creat(c) PROVE UInv' /\ Creates(c)
<1>1. /\ context[c] = NONE /\ context' = [context EXCEPT ![c] = Fresh(c, "work")]
      /\ UNCHANGED <<current, running, cpu, blocked, init_complete, completed_fibers>>
  BY DEF ult_creat, Created
<1>2. c \in Ults /\ c \notin Threads /\ c \notin Created
  BY <1>1, Names DEF Ults, Threads, Created
<1>3. /\ Fresh(c, "work") \in Conts /\ Fresh(c, "work").flow = c /\ Fresh(c, "work").at = "work"
      /\ Len(Fresh(c, "work").frames) = 0 /\ Fresh(c, "work") # NONE
  <2>1. Fresh(c, "work") \in Conts
    BY <1>2 DEF Fresh, Conts, Phases
  <2> QED  BY <2>1, Names DEF Fresh
<1>4. /\ context' \in [Ults -> Conts \cup {NONE}] /\ context'[c] = Fresh(c, "work")
      /\ \A u \in Ults \ {c} : context'[u] = context[u]
  BY <1>1, <1>2, <1>3 DEF UInv, TypeOK
<1>5. Created' = Created \cup {c} /\ Exist' = Exist \cup {c} /\ c \notin Exist
  <2>1. Created' = Created \cup {c}
    BY <1>2, <1>3, <1>4 DEF Created, Ults
  <2> QED  BY <1>1, <1>2, <2>1 DEF Exist
<1>6. ~Ready
  BY <1>2 DEF Ready
<1>7. /\ \A s \in Threads : Runs(s) # c
      /\ \A s \in Threads :
           /\ Runs(s)' = Runs(s) /\ (Live(s)' <=> Live(s))
           /\ (Jumping(s)' <=> Jumping(s)) /\ Top(s)' = Top(s)
  <2>1. \A s \in Threads : Runs(s) \notin Cells
    BY <1>6 DEF UInv, Begun
  <2> QED  BY <1>1, <2>1 DEF Runs, Live, Jumping, InFrame, Top
<1>8. Kept /\ Kept'
  <2>1. Single /\ Single'
    BY <1>1, <1>7, RunApart DEF UInv, Single
  <2> QED  BY <2>1, KeptTrue, PTL
<1>9. Cont(c)' = Fresh(c, "work")
  BY <1>2, <1>4, <1>7, <1>8 DEF Kept
<1>10. ASSUME NEW u \in Exist PROVE Cont(u)' = Cont(u) /\ u # c
  <2>1. u \in Ults /\ u # c
    BY <1>5 DEF Exist, Created, Ults
  <2> QED  BY <1>1, <1>4, <1>7, <1>8, <2>1, ContSame
<1>11. Pos(c)' = {}
  BY <1>3, <1>9 DEF Pos
<1>12. ASSUME NEW u \in Exist' PROVE Sound(u)'
  <2>1. CASE u = c
    <3>1. "work" \in PhasesOf(c) /\ PhasesOf(u)' = PhasesOf(c)
      BY <1>2, <2>1 DEF PhasesOf, Threads
    <3> QED  BY <1>3, <1>9, <1>11, <2>1, <3>1 DEF Sound
  <2>2. CASE u # c
    <3>1. Sound(u) /\ Cont(u)' = Cont(u)
      BY <1>5, <1>10, <2>2 DEF UInv
    <3> QED  BY <1>1, <1>7, <3>1 DEF Sound, Pos, Pends, To, PhasesOf
  <2> QED  BY <2>1, <2>2
<1>13. Runners'
  <2>1. Runners
    BY DEF UInv
  <2> QED  BY <1>1, <1>5, <1>7, <2>1 DEF Runners
<1>14. Pending'
  <2>1. Pending
    BY DEF UInv
  <2>2. ASSUME NEW u \in Exist', NEW i \in Pos(u)', Pends(u, i)'
        PROVE  /\ u \in Exist /\ i \in Pos(u) /\ Pends(u, i) /\ To(u, i)' = To(u, i)
               /\ running'[To(u, i)] /\ \A s \in Threads : Runs(s)' # To(u, i)
    <3>1. u \in Exist
      BY <1>5, <1>11, <2>2
    <3>2. i \in Pos(u) /\ Pends(u, i) /\ To(u, i)' = To(u, i)
      BY <1>10, <2>2, <3>1 DEF Pos, Pends, To
    <3> QED  BY <1>1, <1>7, <2>1, <3>1, <3>2 DEF Pending
  <2> QED  BY <1>5, <2>1, <2>2, PendingStep
<1>15. Ends'
  <2>1. Ends
    BY DEF UInv
  <2> QED  BY <1>1, <1>7, <2>1 DEF Ends, Fresh, fibers
<1>16. Begun'
  <2>1. /\ ~init_complete /\ \A s \in Threads : Runs(s) \notin Cells
        /\ \A u \in Exist : Cont(u).at \in {"pick", "armed", "work"} => u \in Cells
        /\ \A u \in Exist : Pos(u) = {}
    BY <1>6 DEF UInv, Begun
  <2>2. \A u \in Exist : Pos(u)' = Pos(u)
    BY <1>10 DEF Pos
  <2>3. \A u \in Exist' : (u = c \/ u \in Exist) /\ Pos(u)' = {}
    BY <1>5, <1>11, <2>1, <2>2
  <2>4. \A u \in Exist' : Cont(u)'.at \in {"pick", "armed", "work"} => u \in Cells
    BY <1>10, <2>1, <2>3
  <2> QED  BY <1>1, <1>7, <2>1, <2>3, <2>4 DEF Begun
<1>17. Counted' /\ completed_fibers' \in 0..Cardinality(fibers)
  <2>1. ~IsDone(Cont(c)')
    BY <1>3, <1>9 DEF IsDone
  <2>2. DoneFibers' = DoneFibers
    BY <1>5, <1>10, <2>1 DEF DoneFibers, IsDone
  <2>3. (\A u \in Exist : Sound(u))'
    BY <1>12
  <2> QED  BY <1>1, <2>2, <2>3, CountStep
<1>18. TypeOK'
  BY <1>1, <1>4, <1>17 DEF UInv, TypeOK, fibers
<1>19. Creates(c)
  BY <1>5, <1>7 DEF Creates
<1> QED
  BY <1>12, <1>13, <1>14, <1>15, <1>16, <1>17, <1>18, <1>19 DEF UInv

\* At first no fiber exists.
LEMMA UserInit == ASSUME Init PROVE UInv
<1> USE DEF Init
<1>1. \A t \in Threads : cpu[t] = Fresh(t, "init") /\ current[t] = NONE /\ ~Jumping(t)
  <2>1. \A t \in Threads : cpu[t] = Fresh(t, "init") /\ current[t] = NONE
    OBVIOUS
  <2>2. \A t \in Threads : Fresh(t, "init").frames = <<>>
    BY DEF Fresh
  <2> QED  BY <2>1, <2>2 DEF Jumping, InFrame
<1>2. \A t \in Threads : Fresh(t, "init") \in Conts /\ Fresh(t, "init").frames = <<>>
  BY DEF Fresh, Conts, Phases, Ults
<1>3. \A t \in Threads : Runs(t) = NONE
  BY <1>1, <1>2 DEF Runs, InFrame
<1>4. Exist = {}
  <2>1. Created = {}
    BY DEF Created, Ults
  <2> QED  BY <2>1 DEF Exist
<1>5. TypeOK
  <2>1. Cardinality(fibers) \in 0..Cardinality(fibers)
    BY FibersFinite
  <2> QED  BY <1>1, <1>2, <2>1 DEF TypeOK
<1>6. (\A u \in Exist : Sound(u)) /\ Runners /\ Pending /\ Ends
  BY <1>1, <1>4 DEF Runners, Pending, Ends
<1>7. Begun
  <2>1. NONE \notin Cells
    BY Names DEF Ults
  <2> QED  BY <1>3, <1>4, <2>1 DEF Begun
<1>8. Counted
  <2>1. DoneFibers = {}
    BY <1>4 DEF DoneFibers
  <2>2. Cardinality(DoneFibers) = 0
    BY <2>1, FS_EmptySet
  <2> QED  BY <2>2, FibersFinite DEF Counted
<1> QED
  BY <1>5, <1>6, <1>7, <1>8 DEF UInv

\* A step that changes nothing keeps the invariant.
LEMMA StutterInv == ASSUME UInv, UNCHANGED vars PROVE UInv' /\ Stays
<1>1. UNCHANGED <<current, running, context, cpu, blocked, init_complete, completed_fibers>>
  BY DEF vars
<1>2. Created' = Created /\ Exist' = Exist
  BY <1>1 DEF Created, Exist
<1>3. \A s \in Threads :
        /\ Runs(s)' = Runs(s) /\ (Live(s)' <=> Live(s))
        /\ (Jumping(s)' <=> Jumping(s)) /\ Top(s)' = Top(s)
  BY <1>1 DEF Runs, Live, Jumping, InFrame, Top
<1>4. Kept /\ Kept'
  <2>1. Single /\ Single'
    BY <1>1, <1>3, RunApart DEF UInv, Single
  <2> QED  BY <2>1, KeptTrue, PTL
<1>5. ASSUME NEW u \in Exist PROVE Cont(u)' = Cont(u)
  <2>1. u \in Ults
    BY DEF Exist, Created, Ults
  <2> QED  BY <1>1, <1>3, <1>4, <2>1, ContSame
<1>6. \A u \in Exist : Sound(u)'
  <2> SUFFICES ASSUME NEW u \in Exist PROVE Sound(u)'
    OBVIOUS
  <2>1. Sound(u) /\ Cont(u)' = Cont(u)
    BY <1>5 DEF UInv
  <2> QED  BY <1>1, <1>3, <2>1 DEF Sound, Pos, Pends, To, PhasesOf
<1>7. Runners'
  <2>1. Runners
    BY DEF UInv
  <2> QED  BY <1>1, <1>2, <1>3, <2>1 DEF Runners
<1>8. Pending'
  <2>1. Pending
    BY DEF UInv
  <2>2. ASSUME NEW u \in Exist, NEW i \in Pos(u)', Pends(u, i)'
        PROVE  /\ i \in Pos(u) /\ Pends(u, i) /\ To(u, i)' = To(u, i)
               /\ running'[To(u, i)] /\ \A s \in Threads : Runs(s)' # To(u, i)
    <3>1. i \in Pos(u) /\ Pends(u, i) /\ To(u, i)' = To(u, i)
      BY <1>5, <2>2 DEF Pos, Pends, To
    <3> QED  BY <1>1, <1>3, <2>1, <3>1 DEF Pending
  <2> QED  BY <1>2, <2>1, <2>2, PendingStep
<1>9. Ends'
  <2>1. Ends
    BY DEF UInv
  <2> QED  BY <1>1, <1>3, <2>1 DEF Ends, Fresh, fibers
<1>10. Begun'
  <2>1. Begun /\ (Ready' <=> Ready)
    BY <1>1, <1>2 DEF UInv, Ready
  <2>2. \A u \in Exist : Pos(u)' = Pos(u)
    BY <1>5 DEF Pos
  <2> QED  BY <1>1, <1>2, <1>3, <1>5, <2>1, <2>2 DEF Begun
<1>11. Counted'
  <2>1. DoneFibers' = DoneFibers
    BY <1>2, <1>5 DEF DoneFibers, IsDone
  <2>2. Counted
    BY DEF UInv
  <2> QED  BY <1>1, <2>1, <2>2 DEF Counted, fibers
<1>12. TypeOK'
  BY <1>1 DEF UInv, TypeOK, fibers
<1> QED
  BY <1>2, <1>3, <1>6, <1>7, <1>8, <1>9, <1>10, <1>11, <1>12 DEF UInv, Stays
-----------------------------------------------------------------------------
(* The whole.                                                              *)

\* Every step keeps the invariant, and is one of four to who runs which fiber.
LEMMA UserNext ==
  ASSUME UInv, AlarmInSwitch = FALSE, [Next]_vars
  PROVE  /\ UInv'
         /\ \/ Stays
            \/ \E c \in Cells : Creates(c)
            \/ \E t \in Threads : Converts(t) \/ Leaves(t, Top(t).to)
<1>1. CASE UNCHANGED vars
  BY <1>1, StutterInv
<1>2. CASE Setup
  <2>1. Main \in Threads
    BY DEF Threads
  <2> QED  BY <1>2, <2>1, PhaseInv, CreateInv DEF Setup
<1>3. CASE \E t \in Threads : Run(t)
  BY <1>3, ConvertInv, PhaseInv, SetCurrentInv, LeaveInv, JumpInv, HandlerReturnInv DEF Run
<1>4. CASE \E t \in Threads : Work(t)
  BY <1>4, PhaseInv DEF Work
<1>5. CASE \E t \in Threads : \E u \in fibers : Pick(t, u) \/ Alarm(t, u)
  BY <1>5, PickInv, AlarmInv
<1> QED  BY <1>1, <1>2, <1>3, <1>4, <1>5 DEF Next

LEMMA Inductive == AlarmInSwitch = FALSE /\ Spec => []UInv
<1>1. Init => UInv
  BY UserInit
<1>2. AlarmInSwitch = FALSE /\ UInv /\ [Next]_vars => UInv'
  BY UserNext
<1>3. AlarmInSwitch = FALSE => [](AlarmInSwitch = FALSE)
  OBVIOUS
<1> QED  BY <1>1, <1>2, <1>3, PTL DEF Spec
-----------------------------------------------------------------------------
\* The locks, contexts, continuations and counters keep their types; the
\* count of the fibers that work never leaves 0..Cardinality(fibers).
THEOREM TypeCorrect == ASSUME AlarmInSwitch = FALSE PROVE Spec => []TypeOK
<1>1. UInv => TypeOK
  BY DEF UInv
<1> QED  BY Inductive, <1>1, PTL

\* What a thread executes, or is about to, is the continuation of the fiber it
\* runs; that of a fiber nobody runs is in its context.
LEMMA Seen ==
  ASSUME UInv
  PROVE  /\ \A t \in Threads : current[t] # NONE =>
              /\ Runs(t) \in Exist /\ Executes(t) = Cont(Runs(t))
              /\ \A s \in Threads : Runs(s) = Runs(t) => s = t
         /\ \A t \in Threads : current[t] = NONE => Runs(t) = NONE /\ Executes(t) = Fresh(t, "init")
         /\ \A u \in Idle : Cont(u) = context[u]
         /\ NONE \notin Exist
<1>1. Kept /\ Runners /\ Ends
  BY KeptTrue, RunApart DEF UInv
<1>2. NONE \notin Exist /\ Exist \subseteq Ults
  BY Names DEF Exist, Created, Ults
<1>3. ASSUME NEW t \in Threads, current[t] = NONE
      PROVE  Runs(t) = NONE /\ Executes(t) = Fresh(t, "init")
  <2>1. cpu[t] = Fresh(t, "init") /\ cpu[t].frames = <<>>
    BY <1>1, <1>3, ConvertedIf DEF Ends
  <2> QED  BY <1>3, <2>1 DEF Runs, Executes, InFrame
<1>4. ASSUME NEW t \in Threads, current[t] # NONE
      PROVE  /\ Runs(t) \in Exist /\ Executes(t) = Cont(Runs(t))
             /\ \A s \in Threads : Runs(s) = Runs(t) => s = t
  <2>1. /\ Runs(t) \in Exist
        /\ \A s \in Threads : current[s] # NONE /\ Runs(s) = Runs(t) => s = t
    BY <1>1, <1>4 DEF Runners
  <2>2. \A s \in Threads : Runs(s) = Runs(t) => s = t
    BY <1>2, <1>3, <2>1
  <2>3. CASE Live(t)
    BY <1>1, <2>1, <2>2, <2>3 DEF Kept, Live, Jumping, Executes
  <2>4. CASE Jumping(t)
    <3>1. Top(t).to = current[t] /\ Runs(t) = current[t] /\ Executes(t) = context[current[t]]
      BY <1>1, <2>4 DEF Ends, Jumping, InFrame, Runs, Executes
    <3>2. \A s \in Threads : Live(s) => Runs(s) # Runs(t)
      BY <2>2, <2>4 DEF Live
    <3>3. Cont(Runs(t)) = context[Runs(t)]
      BY <1>1, <1>2, <2>1, <3>2 DEF Kept
    <3> QED  BY <2>1, <2>2, <3>1, <3>3
  <2> QED  BY <1>4, <2>1, <2>2, <2>3, <2>4 DEF Live
<1>5. ASSUME NEW u \in Idle PROVE Cont(u) = context[u]
  <2>1. u \in Ults /\ \A t \in Threads : Runs(t) # u
    BY <1>2 DEF Idle
  <2> QED  BY <1>1, <2>1 DEF Kept
<1> QED  BY <1>2, <1>3, <1>4, <1>5

\* The count main_loop waits for is exactly the number of fibers whose work is
\* ahead of them, wherever their continuations are.
THEOREM CountHolds == ASSUME AlarmInSwitch = FALSE PROVE Spec => []CountTrue
<1>1. UInv => CountTrue
  <2> SUFFICES ASSUME UInv PROVE CountTrue
    OBVIOUS
  <2> DEFINE T == {t \in Threads : IsDone(Executes(t))}
             R == {Runs(t) : t \in T}
             I == {u \in Idle : IsDone(context[u])}
  <2>1. /\ \A t \in T : current[t] # NONE
    <3>1. \A t \in Threads : ~IsDone(Fresh(t, "init"))
      BY DEF Fresh, IsDone
    <3> QED  BY <3>1, Seen
  <2>2. R \cap I = {} /\ DoneFibers = R \cup I
    <3>1. \A t \in T : Runs(t) \in Exist /\ IsDone(Cont(Runs(t))) /\ Runs(t) \notin Idle
      BY <2>1, Seen DEF Idle
    <3>2. \A u \in I : u \in Exist /\ IsDone(Cont(u))
      BY Seen DEF Idle
    <3>3. ASSUME NEW u \in DoneFibers PROVE u \in R \cup I
      <4>1. u \in Exist /\ IsDone(Cont(u)) /\ u # NONE
        BY Seen DEF DoneFibers
      <4>2. CASE u \in Idle
        BY <4>1, <4>2, Seen
      <4>3. CASE u \notin Idle
        <5> PICK t \in Threads : Runs(t) = u
          BY <4>1, <4>3 DEF Idle
        <5>1. t \in T
          BY <4>1, Seen
        <5> QED  BY <5>1
      <4> QED  BY <4>2, <4>3
    <3> QED  BY <3>1, <3>2, <3>3 DEF DoneFibers
  <2>3. IsFiniteSet(DoneFibers)
    BY DoneFinite, FibersFinite, FS_Subset DEF UInv
  <2>4. IsFiniteSet(R) /\ IsFiniteSet(I)
    <3>1. R \subseteq DoneFibers /\ I \subseteq DoneFibers
      BY <2>2
    <3> QED  BY <2>3, <3>1, FS_Subset
  <2>5. IsFiniteSet(T)
    <3>1. IsFiniteSet({Main})
      BY FS_Singleton
    <3>2. IsFiniteSet(Threads)
      BY <3>1, FS_Union, Names DEF Threads
    <3> QED  BY <3>2, FS_Subset
  <2>6. Cardinality(R) = Cardinality(T)
    <3> DEFINE f == [t \in T |-> Runs(t)]
    <3>1. f \in Bijection(T, R)
      <4>1. \A s, t \in T : Runs(s) = Runs(t) => s = t
        BY <2>1, Seen
      <4>2. f \in Injection(T, R)
        BY <4>1 DEF Injection, IsInjective
      <4>3. f \in Surjection(T, R)
        BY DEF Surjection
      <4> QED  BY <4>2, <4>3 DEF Bijection
    <3> HIDE DEF T, R, f
    <3>2. ExistsBijection(T, R)
      BY <3>1 DEF ExistsBijection
    <3> QED  BY <2>5, <3>2, FS_Bijection
  <2>7. Cardinality(DoneFibers) = Cardinality(T) + Cardinality(I)
    <3> HIDE DEF T, R, I
    <3>1. Cardinality(R \cup I) = Cardinality(R) + Cardinality(I) - Cardinality(R \cap I)
      BY <2>4, FS_Union
    <3>2. Cardinality(R \cap I) = 0
      BY <2>2, FS_EmptySet
    <3>3. Cardinality(R) \in Nat /\ Cardinality(I) \in Nat
      BY <2>4, FS_CardinalityType
    <3> QED  BY <2>2, <2>6, <3>1, <3>2, <3>3
  <2>8. completed_fibers = Cardinality(fibers) - Cardinality(T) - Cardinality(I)
    <3> HIDE DEF T, R, I
    <3>1. completed_fibers = Cardinality(fibers) - Cardinality(DoneFibers)
      BY DEF UInv, Counted
    <3>2. Cardinality(T) \in Nat /\ Cardinality(I) \in Nat
      BY <2>4, <2>5, FS_CardinalityType
    <3> QED  BY <2>7, <3>1, <3>2, FibersFinite
  <2> QED  BY <2>8 DEF CountTrue, IsDone
<1> QED  BY Inductive, <1>1, PTL

\* A step changes the flow a thread executes only by a jump, which goes to a
\* fiber of the array.
LEMMA FlowStep ==
  ASSUME UInv, [Next]_vars, NEW t \in Threads
  PROVE  cpu'[t].flow = cpu[t].flow \/ cpu'[t].flow \in fibers
<1>1. cpu \in [Threads -> Conts] /\ \A s \in Threads : cpu[s] \in Conts
  BY DEF UInv, TypeOK
<1>2. ASSUME NEW s \in Threads, NEW c, cpu' = [cpu EXCEPT ![s] = c], c.flow = cpu[s].flow
      PROVE  cpu'[t].flow = cpu[t].flow
  BY <1>1, <1>2
<1>3. ASSUME NEW s \in Threads, NEW phase, Become(s, phase) PROVE cpu'[t].flow = cpu[t].flow
  <2>1. cpu' = [cpu EXCEPT ![s] = [cpu[s] EXCEPT !.at = phase]]
    BY <1>3 DEF Become
  <2>2. [cpu[s] EXCEPT !.at = phase].flow = cpu[s].flow
    BY <1>1 DEF Conts
  <2> QED  BY <1>2, <2>1, <2>2
<1>4. ASSUME NEW s \in Threads, NEW fs, cpu' = [cpu EXCEPT ![s] = [cpu[s] EXCEPT !.frames = fs]]
      PROVE  cpu'[t].flow = cpu[t].flow
  <2>1. [cpu[s] EXCEPT !.frames = fs].flow = cpu[s].flow
    BY <1>1 DEF Conts
  <2> QED  BY <1>2, <1>4, <2>1
<1>5. CASE UNCHANGED cpu
  BY <1>5
<1>6. CASE Setup
  BY <1>3, <1>5, <1>6 DEF Setup, Arm, ult_creat, Threads
<1>7. ASSUME NEW s \in Threads, Run(s) PROVE cpu'[t].flow = cpu[t].flow \/ cpu'[t].flow \in fibers
  <2>1. CASE ult_convert(s) \/ Await(s)
    BY <1>3, <2>1 DEF ult_convert, Await
  <2>2. CASE SetCurrent(s) \/ Leave(s)
    BY <1>4, <2>2 DEF SetCurrent, Leave, Replace
  <2>3. CASE HandlerReturn(s)
    BY <1>4, <2>3 DEF HandlerReturn, Popped
  <2>4. CASE Jump(s)
    <3>1. current[s] \in fibers /\ Top(s).to = current[s] /\ cpu' = [cpu EXCEPT ![s] = context[current[s]]]
      BY <2>4 DEF UInv, Ends, Jump, Jumping
    <3>2. Executes(s) = context[current[s]] /\ Runs(s) = current[s] /\ current[s] # NONE
      BY <2>4, <3>1, Names DEF Jump, Executes, Runs, InFrame, fibers, Ults, Threads
    <3>3. context[current[s]].flow = current[s]
      BY <3>2, Seen DEF UInv, Sound
    <3> QED  BY <1>1, <3>1, <3>3
  <2> QED  BY <1>7, <2>1, <2>2, <2>3, <2>4 DEF Run
<1>8. ASSUME NEW s \in Threads, Work(s) PROVE cpu'[t].flow = cpu[t].flow
  BY <1>3, <1>8 DEF Work, Release, EndOfWork, Announce
<1>9. ASSUME NEW s \in Threads, NEW u \in fibers, Pick(s, u) \/ Alarm(s, u)
      PROVE  cpu'[t].flow = cpu[t].flow
  BY <1>4, <1>9 DEF Pick, Alarm, Push
<1> QED  BY <1>5, <1>6, <1>7, <1>8, <1>9 DEF Next, vars

\* No thread comes back to the flow of a worker that was left.
THEOREM WorkersAbandoned == ASSUME AlarmInSwitch = FALSE PROVE Spec => NobodyGetsBack
<1>1. UInv /\ [Next]_vars =>
        [\A t \in Threads : cpu'[t].flow \in Workers => cpu[t].flow = cpu'[t].flow]_vars
  <2> SUFFICES ASSUME UInv, [Next]_vars, NEW t \in Threads, cpu'[t].flow \in Workers
               PROVE  cpu[t].flow = cpu'[t].flow
    OBVIOUS
  <2>1. cpu'[t].flow \notin fibers
    BY Names DEF fibers
  <2> QED  BY <2>1, FlowStep
<1> QED  BY Inductive, <1>1, PTL DEF Spec, NobodyGetsBack
-----------------------------------------------------------------------------
(* The abstract scheduler, seen through the mapping: who runs which of the *)
(* fibers that exist says all of it.                                       *)
Told(u) == [flow |-> IF u \in Threads THEN u ELSE Fiber(u), pos |-> 0]
Ran(t)  == IF Runs(t) = NONE THEN t ELSE Runs(t)

LEMMA Mapped ==
  ASSUME UInv
  PROVE  /\ \A t \in Threads : Context(Executes(t)) = Told(Ran(t))
         /\ \A u \in Idle : Context(context[u]) = Told(u)
         /\ \A t \in Threads : Runs(t) # NONE => Runs(t) \in Exist
         /\ \A t \in Threads : current[t] # NONE <=> Runs(t) # NONE
         /\ NONE \notin Exist /\ Exist \subseteq Ults
<1>1. NONE \notin Exist /\ Exist \subseteq Ults
  BY Names DEF Exist, Created, Ults
<1>2. \A t \in Threads : current[t] # NONE => Runs(t) \in Exist /\ Executes(t) = Cont(Runs(t))
  BY Seen
<1>3. \A t \in Threads : current[t] = NONE => Runs(t) = NONE /\ Executes(t) = Fresh(t, "init")
  BY Seen
<1>4. \A u \in Exist : Cont(u).flow = u
  BY DEF UInv, Sound
<1>5. \A t \in Threads : Executes(t).flow = Ran(t)
  <2>1. \A t \in Threads : Fresh(t, "init").flow = t
    BY DEF Fresh
  <2> QED  BY <1>1, <1>2, <1>3, <1>4, <2>1 DEF Ran
<1>6. \A u \in Idle : context[u].flow = u
  BY <1>4, Seen DEF Idle
<1> QED  BY <1>1, <1>2, <1>3, <1>5, <1>6 DEF Context, Told

\* What is kept, what is run, what is executed, in these terms.
Keeps  == [f \in {Fiber(u) : u \in Idle} |-> Told(f[1])]
Holds  == [t \in Threads |-> IF Runs(t) = NONE THEN NONE ELSE Fiber(Runs(t))]
OnCpus == [t \in Threads |-> Told(Ran(t))]

Shown ==
  /\ [f \in {Fiber(u) : u \in Idle} |-> Context(context[f[1]])] = Keeps
  /\ [t \in Threads |-> Context(Executes(t))] = OnCpus

LEMMA View == UInv => Shown
<1> SUFFICES ASSUME UInv PROVE Shown
  OBVIOUS
<1>1. \A f \in {Fiber(u) : u \in Idle} : Context(context[f[1]]) = Told(f[1])
  <2> SUFFICES ASSUME NEW u \in Idle PROVE Context(context[Fiber(u)[1]]) = Told(Fiber(u)[1])
    OBVIOUS
  <2>1. Fiber(u)[1] = u
    BY DEF Fiber
  <2> QED  BY <2>1, Mapped
<1>2. \A t \in Threads : Context(Executes(t)) = Told(Ran(t))
  BY Mapped
<1> QED  BY <1>1, <1>2 DEF Shown, Keeps, OnCpus

\* Nothing changes hands.
LEMMA StaysMap == ASSUME Shown, Shown', Stays PROVE UNCHANGED Scheduler!vars
<1>1. Idle' = Idle
  BY DEF Idle, Stays
<1>2. Keeps' = Keeps /\ OnCpus' = OnCpus /\ Holds' = Holds
  BY <1>1 DEF Keeps, OnCpus, Holds, Stays, Ran, Told
<1>3. {Fiber(u) : u \in Exist}' = {Fiber(u) : u \in Exist}
  BY DEF Stays
<1> QED  BY <1>2, <1>3 DEF Shown, Holds, Scheduler!vars

LEMMA ConvertMap ==
  ASSUME UInv, Shown, Shown', NEW t \in Threads, Converts(t) PROVE Scheduler!Adopt(t, Fiber(t))
<1>1. Idle' = Idle
  <2>1. NONE \notin Exist
    BY Mapped
  <2> QED  BY <2>1 DEF Idle, Converts, Others
<1>2. Ran(t)' = Ran(t) /\ \A s \in Threads \ {t} : Ran(s)' = Ran(s)
  BY DEF Ran, Converts, Others
<1>3. Keeps' = Keeps /\ OnCpus' = OnCpus
  BY <1>1, <1>2 DEF Keeps, OnCpus, Told
<1>4. t # NONE /\ Holds[t] = NONE
  BY Names DEF Holds, Converts, Ults
<1>5. Holds' = [Holds EXCEPT ![t] = Fiber(t)]
  BY <1>4 DEF Holds, Converts, Others
<1>6. /\ {Fiber(u) : u \in Exist}' = {Fiber(u) : u \in Exist} \cup {Fiber(t)}
      /\ Fiber(t) \notin {Fiber(u) : u \in Exist}
  BY DEF Converts, Fiber
<1> QED  BY <1>3, <1>4, <1>5, <1>6 DEF Shown, Holds, Scheduler!Adopt

LEMMA CreateMap ==
  ASSUME Shown, Shown', NEW c \in Cells, Creates(c) PROVE Scheduler!NewFiber(Fiber(c))
<1>1. Idle' = Idle \cup {c} /\ c \notin Idle
  BY DEF Idle, Creates
<1>2. \A s \in Threads : Ran(s)' = Ran(s)
  BY DEF Ran, Creates
<1>3. OnCpus' = OnCpus /\ Holds' = Holds
  BY <1>2 DEF OnCpus, Told, Holds, Creates
<1>4. Told(c) = [flow |-> Fiber(c), pos |-> 0] /\ Fiber(c)[1] = c
  BY Names DEF Told, Threads, Fiber
<1>5. DOMAIN Keeps = {Fiber(u) : u \in Idle}
  BY DEF Keeps
<1>6. \A u \in Idle : Fiber(u) # Fiber(c)
  BY <1>1 DEF Fiber
<1>7. Keeps' = [g \in DOMAIN Keeps \cup {Fiber(c)} |->
                  IF g = Fiber(c) THEN [flow |-> Fiber(c), pos |-> 0] ELSE Keeps[g]]
  <2>1. {Fiber(u) : u \in Idle}' = DOMAIN Keeps \cup {Fiber(c)}
    BY <1>1, <1>5
  <2>2. \A g \in DOMAIN Keeps : Keeps[g] = Told(g[1]) /\ g # Fiber(c)
    BY <1>5, <1>6 DEF Keeps
  <2>3. Keeps' = [g \in DOMAIN Keeps \cup {Fiber(c)} |-> Told(g[1])]
    BY <2>1 DEF Keeps, Told
  <2> QED  BY <1>4, <2>2, <2>3
<1>8. /\ {Fiber(u) : u \in Exist}' = {Fiber(u) : u \in Exist} \cup {Fiber(c)}
      /\ Fiber(c) \notin {Fiber(u) : u \in Exist}
  BY DEF Creates, Fiber
<1> QED  BY <1>3, <1>7, <1>8 DEF Shown, Holds, Scheduler!NewFiber, Scheduler!With

LEMMA LeaveMap ==
  ASSUME UInv, Shown, Shown', NEW t \in Threads, NEW n, Leaves(t, n)
  PROVE  Scheduler!SwitchTo(t, Fiber(n)) /\ n \in Ults
<1> PICK r : r = Runs(t)  OBVIOUS
<1>1. /\ r \in Exist /\ r # NONE /\ r \in Ults /\ n \in Exist /\ n # NONE /\ n \in Ults
      /\ \A s \in Threads : s # t => Runs(s) # r
  BY Mapped, Seen DEF Leaves
<1>2. n \in Idle /\ r \notin Idle /\ r # n
  BY <1>1 DEF Idle, Leaves
<1>3. Idle' = (Idle \ {n}) \cup {r}
  BY <1>1, <1>2 DEF Idle, Leaves, Others
<1>4. Ran(t) = r /\ Ran(t)' = n /\ \A s \in Threads \ {t} : Ran(s)' = Ran(s)
  BY <1>1 DEF Ran, Leaves, Others
<1>5. DOMAIN Keeps = {Fiber(u) : u \in Idle} /\ \A u \in Idle : Keeps[Fiber(u)] = Told(u)
  BY DEF Keeps, Fiber
<1>6. OnCpus[t] = Told(r) /\ Holds[t] = Fiber(r) /\ Fiber(r) # NONE
  BY <1>1, <1>4, Names DEF OnCpus, Holds, Fiber
<1>7. OnCpus' = [OnCpus EXCEPT ![t] = Keeps[Fiber(n)]]
  <2>1. Told(n)' = Told(n) /\ \A s \in Threads \ {t} : Told(Ran(s))' = Told(Ran(s))
    BY <1>4 DEF Told
  <2>2. Keeps[Fiber(n)] = Told(n) /\ Told(Ran(t))' = Told(n)
    BY <1>2, <1>4, <1>5 DEF Told
  <2>3. OnCpus' = [s \in Threads |-> IF s = t THEN Told(n) ELSE Told(Ran(s))]
    BY <2>1, <2>2 DEF OnCpus
  <2> QED  BY <2>2, <2>3 DEF OnCpus
<1>8. Holds' = [Holds EXCEPT ![t] = Fiber(n)]
  BY <1>1 DEF Holds, Leaves, Others
<1>9. Keeps' = [g \in (DOMAIN Keeps \ {Fiber(n)}) \cup {Fiber(r)} |->
                  IF g = Fiber(r) THEN Told(r) ELSE Keeps[g]]
  <2>1. {Fiber(u) : u \in Idle}' = (DOMAIN Keeps \ {Fiber(n)}) \cup {Fiber(r)}
    BY <1>3, <1>5 DEF Fiber
  <2>2. \A g \in DOMAIN Keeps : Keeps[g] = Told(g[1])
    BY DEF Keeps
  <2>3. Fiber(r)[1] = r
    BY DEF Fiber
  <2>4. Keeps' = [g \in (DOMAIN Keeps \ {Fiber(n)}) \cup {Fiber(r)} |-> Told(g[1])]
    BY <2>1 DEF Keeps, Told
  <2> QED  BY <2>2, <2>3, <2>4
<1>10. {Fiber(u) : u \in Exist}' = {Fiber(u) : u \in Exist} /\ Fiber(n) \in DOMAIN Keeps
  BY <1>2, <1>5 DEF Leaves
<1> QED
  BY <1>1, <1>6, <1>7, <1>8, <1>9, <1>10 DEF Shown, Holds, Scheduler!SwitchTo, Scheduler!With

\* The user-level threads implement the abstract scheduler: a switch takes
\* effect where set_jmp has saved the fiber that is left and it is unlocked.
THEOREM Implements == ASSUME AlarmInSwitch = FALSE PROVE Spec => ImplementsScheduler
<1>1. Init => Scheduler!Init
  <2> SUFFICES ASSUME Init PROVE Scheduler!Init
    OBVIOUS
  <2>1. UInv /\ Shown
    BY UserInit, View
  <2>2. \A t \in Threads : current[t] = NONE
    BY DEF Init
  <2>3. \A t \in Threads : Runs(t) = NONE
    BY <2>1, <2>2, Seen
  <2>4. Exist = {}
    BY <2>2 DEF Init, Exist, Created, Ults
  <2>5. OnCpus = [t \in Threads |-> [flow |-> t, pos |-> 0]]
    BY <2>3 DEF OnCpus, Ran, Told
  <2>6. Keeps = [f \in {} |-> {}] /\ {Fiber(u) : u \in Exist} = {}
    BY <2>4 DEF Keeps, Idle
  <2>7. Holds = [t \in Threads |-> NONE]
    BY <2>3 DEF Holds
  <2> QED  BY <2>1, <2>5, <2>6, <2>7 DEF Shown, Holds, Scheduler!Init
<1>2. AlarmInSwitch = FALSE /\ UInv /\ UInv' /\ [Next]_vars => [Scheduler!Next]_(Scheduler!vars)
  <2> SUFFICES ASSUME AlarmInSwitch = FALSE, UInv, UInv', [Next]_vars
               PROVE  Scheduler!Next \/ UNCHANGED Scheduler!vars
    OBVIOUS
  <2>1. Shown /\ Shown'
    BY View, PTL
  <2>2. \A u \in Ults : Fiber(u) \in Ults \X {"ult"}
    BY DEF Fiber
  <2>3. CASE Stays
    BY <2>1, <2>3, StaysMap
  <2>4. ASSUME NEW c \in Cells, Creates(c) PROVE Scheduler!Next
    BY <2>1, <2>2, <2>4, CreateMap DEF Scheduler!Next, Ults
  <2>5. ASSUME NEW t \in Threads, Converts(t) PROVE Scheduler!Next
    BY <2>1, <2>2, <2>5, ConvertMap DEF Scheduler!Next, Ults
  <2>6. ASSUME NEW t \in Threads, NEW n, n = Top(t).to, Leaves(t, n) PROVE Scheduler!Next
    BY <2>1, <2>2, <2>6, LeaveMap DEF Scheduler!Next
  <2> QED  BY <2>3, <2>4, <2>5, <2>6, UserNext
<1> QED
  BY <1>1, <1>2, Inductive, PTL DEF Spec, ImplementsScheduler, Scheduler!Spec
=============================================================================
