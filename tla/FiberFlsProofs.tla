--------------------------- MODULE FiberFlsProofs ---------------------------
(***************************************************************************)
(* Fiber-local storage keeps its promise to every fiber, for any number of *)
(* threads, fibers and words, wherever the slab puts the arrays: what a    *)
(* stray index reaches is one word at the end of a neighbouring array.     *)
(***************************************************************************)
EXTENDS FiberFls, TLAPS

(* Types.  Only a fiber that exists has arrays, and only such a one is run. *)
Homed ==
  /\ \A f \in Fibers : fls[f] = NONE <=> bitmap_fls[f] = NONE
  /\ \A t \in Threads : running[t] # NONE => Exists(running[t])
TypeInv == TypeOK /\ Homed

\* What a call answers: its fiber, its name, the index and the result.
Answers == (Fibers \cup {NONE}) \X {"none", "alloc", "free", "get", "set"} \X Int \X Int

LEMMA Answered ==
  ASSUME NEW f \in Fibers, NEW c \in {"alloc", "free", "get", "set"}, NEW i \in Int, NEW r \in Int
  PROVE  <<f, c, i, r>> \in Answers
BY DEF Answers

\* A word that a call reaches is a word of a slot of the slab.
LEMMA Reached ==
  ASSUME TypeOK, NEW s \in Slots, NEW i \in -1..FlsSize
  PROVE  /\ SlotOf(s, i) \in AllSlots /\ WordOf(i) \in Index
         /\ Word(s, i) \in Int /\ s \in AllSlots
         /\ i \in Index => SlotOf(s, i) = s /\ WordOf(i) = i /\ Word(s, i) = memory[s][i]
<1>1. s \in Int /\ SlotOf(s, i) \in {s - 1, s, s + 1}
  BY FlsAssumption DEF SlotOf
<1>2. SlotOf(s, i) \in AllSlots /\ s \in AllSlots
  BY <1>1 DEF AllSlots
<1>3. WordOf(i) \in Index
  BY FlsAssumption DEF WordOf, Index
<1>4. memory[SlotOf(s, i)] \in [Index -> Int]
  BY <1>2 DEF TypeOK
<1>5. Word(s, i) \in Int
  BY <1>2, <1>3, <1>4 DEF Word
<1>6. i \in Index => SlotOf(s, i) = s /\ WordOf(i) = i
  BY FlsAssumption DEF SlotOf, WordOf, Index
<1> QED  BY <1>2, <1>3, <1>5, <1>6 DEF Word

\* A store to such a word leaves memory a row of slots, and the rest alone.
LEMMA Written ==
  ASSUME TypeOK, NEW s \in Slots, NEW i \in -1..FlsSize, NEW v \in Int, Write(s, i, v)
  PROVE  /\ memory' \in [AllSlots -> [Index -> Int]]
         /\ \A r \in AllSlots : r # SlotOf(s, i) => memory'[r] = memory[r]
         /\ i \in Index => memory'[s] = [memory[s] EXCEPT ![i] = v]
<1> PICK r, w : r = SlotOf(s, i) /\ w = WordOf(i)
  OBVIOUS
<1>1. r \in AllSlots /\ w \in Index
  BY Reached
<1>2. memory' = [memory EXCEPT ![r] = [memory[r] EXCEPT ![w] = v]]
  BY DEF Write
<1>3. [memory[r] EXCEPT ![w] = v] \in [Index -> Int]
  BY <1>1 DEF TypeOK
<1>4. i \in Index => r = s /\ w = i
  BY Reached
<1> QED  BY <1>1, <1>2, <1>3, <1>4 DEF TypeOK

\* Every step keeps the types.
LEMMA NextType == TypeInv /\ [Next]_vars => TypeInv'
<1> SUFFICES ASSUME TypeInv, [Next]_vars PROVE TypeInv'
  OBVIOUS
<1> USE FlsAssumption DEF TypeInv, Homed, Exists
<1>1. CASE UNCHANGED vars
  BY <1>1 DEF vars, TypeOK
<1>2. ASSUME NEW f \in Fibers, Create(f) PROVE TypeInv'
  <2>1. PICK s \in Slots, b \in Slots :
          /\ fls' = [fls EXCEPT ![f] = s] /\ bitmap_fls' = [bitmap_fls EXCEPT ![f] = b]
          /\ memory' = [memory EXCEPT ![s] = Zeroed, ![b] = Zeroed]
    BY <1>2 DEF Create
  <2>2. Zeroed \in [Index -> Int]
    BY DEF Zeroed
  <2>3. memory' \in [AllSlots -> [Index -> Int]]
    BY <2>1, <2>2 DEF TypeOK
  <2> QED  BY <1>2, <2>1, <2>3 DEF Create, TypeOK
<1>3. ASSUME NEW t \in Threads, NEW f \in Fibers, Run(t, f) PROVE TypeInv'
  BY <1>3 DEF Run, TypeOK
<1>4. ASSUME NEW f \in Fibers, Exists(f), FlsCall(f) PROVE TypeInv'
  <2>1. fls[f] \in Slots /\ bitmap_fls[f] \in Slots /\ UNCHANGED <<running, fls, bitmap_fls>>
    BY <1>4 DEF TypeOK, FlsCall, flsAlloc, flsAllocFull, flsFree, flsGetValue, flsSetValue
  <2> HIDE DEF Exists
  <2> DEFINE Typed == memory' \in [AllSlots -> [Index -> Int]] /\ answer' \in Answers
  <2> SUFFICES Typed
    BY <2>1 DEF TypeOK, Exists, Answers
  <2>2. memory \in [AllSlots -> [Index -> Int]]
    BY DEF TypeOK
  <2>3. CASE flsAlloc(f)
    <3>1. PICK i \in Index, v \in Int : Write(bitmap_fls[f], i, v) /\ answer' = <<f, "alloc", 0, i>>
      BY <2>3 DEF flsAlloc, Clear
    <3>2. i \in -1..FlsSize /\ i \in Int
      BY DEF Index
    <3>3. memory' \in [AllSlots -> [Index -> Int]]
      BY <2>1, <3>1, <3>2, Written
    <3> QED  BY <3>1, <3>2, <3>3, Answered
  <2>4. CASE flsAllocFull(f)
    <3>1. PICK i \in -1..FlsSize, v \in Int : Write(bitmap_fls[f], i, v) /\ answer' = <<f, "alloc", 0, i>>
      BY <2>4 DEF flsAllocFull, NotFound
    <3>2. memory' \in [AllSlots -> [Index -> Int]]
      BY <2>1, <3>1, Written
    <3>3. i \in Int
      OBVIOUS
    <3> QED  BY <3>1, <3>2, <3>3, Answered
  <2>5. ASSUME NEW i \in Indices PROVE i \in -1..FlsSize /\ i \in Int
    OBVIOUS
  <2>6. ASSUME NEW i \in Indices, flsFree(f, i) PROVE Typed
    <3>1. CASE Write(bitmap_fls[f], i, 0) /\ answer' = <<f, "free", i, 1>>
      <4>1. PICK v \in Int : Write(bitmap_fls[f], i, v)
        BY <3>1
      <4>2. memory' \in [AllSlots -> [Index -> Int]]
        BY <2>1, <2>5, <4>1, Written
      <4> QED  BY <2>5, <3>1, <4>2, Answered
    <3>2. CASE UNCHANGED memory /\ answer' = <<f, "free", i, 0>>
      BY <2>2, <2>5, <3>2, Answered
    <3> QED  BY <2>6, <3>1, <3>2 DEF flsFree
  <2>7. ASSUME NEW i \in Indices, flsGetValue(f, i) PROVE Typed
    <3>1. Word(fls[f], i) \in Int
      BY <2>1, <2>5, Reached
    <3>2. PICK r \in Int : answer' = <<f, "get", i, r>> /\ UNCHANGED memory
      BY <2>7, <3>1 DEF flsGetValue
    <3> QED  BY <2>2, <2>5, <3>2, Answered
  <2>8. ASSUME NEW i \in Indices, NEW v \in Values, flsSetValue(f, i, v) PROVE Typed
    <3>1. answer' = <<f, "set", i, 0>> /\ v \in Int
      BY <2>8 DEF flsSetValue
    <3>2. memory' \in [AllSlots -> [Index -> Int]]
      <4>1. CASE Write(fls[f], i, v)
        BY <2>1, <2>5, <3>1, <4>1, Written
      <4> QED  BY <2>2, <2>8, <4>1 DEF flsSetValue
    <3> QED  BY <2>5, <3>1, <3>2, Answered
  <2> HIDE DEF Typed
  <2> QED  BY <1>4, <2>3, <2>4, <2>6, <2>7, <2>8 DEF FlsCall
<1> QED
  BY <1>1, <1>2, <1>3, <1>4 DEF Next, TypeOK

\* No call reaches memory that is not there, whatever index it is given: the
\* arrays stay in their slots, and memory a row of slots of FlsSize words.
THEOREM TypeCorrect == Spec => []TypeOK
<1>1. Init => TypeInv
  BY FlsAssumption DEF Init, TypeInv, TypeOK, Homed, Exists, Zeroed
<1>2. TypeInv => TypeOK
  BY DEF TypeInv
<1> QED  BY <1>1, <1>2, NextType, PTL DEF Spec
-----------------------------------------------------------------------------
(* The store. *)

\* No slot of the slab is given twice.
Apart ==
  /\ \A f, g \in Fibers : Exists(f) /\ Exists(g) => fls[f] # bitmap_fls[g]
  /\ \A f, g \in Fibers : Exists(f) /\ f # g => fls[f] # fls[g] /\ bitmap_fls[f] # bitmap_fls[g]

StoreInv == TypeInv /\ Apart

\* Arrays are given from slots that are not taken.
LEMMA NextApart == StoreInv /\ [Next]_vars => Apart'
<1> SUFFICES ASSUME StoreInv, [Next]_vars PROVE Apart'
  OBVIOUS
<1> USE FlsAssumption DEF StoreInv, TypeInv, TypeOK, Homed, Apart, Exists
<1>1. CASE UNCHANGED <<fls, bitmap_fls>>
  BY <1>1
<1>2. ASSUME NEW f \in Fibers, Create(f) PROVE Apart'
  <2>1. PICK s \in Slots \ Taken, b \in Slots \ Taken :
          /\ s # b /\ fls[f] = NONE
          /\ fls' = [fls EXCEPT ![f] = s] /\ bitmap_fls' = [bitmap_fls EXCEPT ![f] = b]
    BY <1>2 DEF Create
  <2>2. \A g \in Fibers : fls[g] \notin {s, b} /\ bitmap_fls[g] \notin {s, b}
    BY DEF Taken
  <2> QED  BY <2>1, <2>2
<1>3. Next => UNCHANGED <<fls, bitmap_fls>> \/ \E f \in Fibers : Create(f)
  BY DEF Next, Run, FlsCall, flsAlloc, flsAllocFull, flsFree, flsGetValue, flsSetValue
<1> QED  BY <1>1, <1>2, <1>3 DEF vars

\* What a fiber holds is what the words of its own arrays say.
LEMMA OwnWords ==
  /\ \A s : \A i \in Index : SlotOf(s, i) = s /\ WordOf(i) = i /\ InRange(i)
  /\ \A f \in Fibers : Exists(f) => Granted(f) = {i \in Index : memory[bitmap_fls[f]][i] # 0}
  /\ \A f \in Fibers : Exists(f)' => Granted(f)' = {i \in Index : memory'[bitmap_fls'[f]][i] # 0}
<1>1. \A s : \A i \in Index : SlotOf(s, i) = s /\ WordOf(i) = i /\ InRange(i)
  BY FlsAssumption DEF Index, SlotOf, WordOf, InRange
<1> QED  BY <1>1 DEF Granted, Clear, Word

\* A call on the slot of one fiber is not noticed by another.
LEMMA OthersKeep ==
  ASSUME StoreInv, NEW g \in Fibers, UNCHANGED <<fls, bitmap_fls>>
  PROVE  /\ Exists(g) => fls[g] \in Slots /\ bitmap_fls[g] \in Slots
         /\ (Exists(g) => memory'[fls[g]] = memory[fls[g]]) => ValueOf(g)' = ValueOf(g)
         /\ (Exists(g) => memory'[bitmap_fls[g]] = memory[bitmap_fls[g]]) => Granted(g)' = Granted(g)
<1>1. Exists(g)' <=> Exists(g)
  BY DEF Exists
<1>2. Exists(g) => fls[g] \in Slots /\ bitmap_fls[g] \in Slots
  BY DEF StoreInv, TypeInv, TypeOK, Homed, Exists
<1>3. (Exists(g) => memory'[fls[g]] = memory[fls[g]]) => ValueOf(g)' = ValueOf(g)
  BY <1>1 DEF ValueOf
<1>4. (Exists(g) => memory'[bitmap_fls[g]] = memory[bitmap_fls[g]]) => Granted(g)' = Granted(g)
  <2>1. CASE Exists(g)
    BY <1>1, <2>1, OwnWords
  <2>2. CASE ~Exists(g)
    BY <1>1, <2>2 DEF Granted
  <2> QED  BY <2>1, <2>2
<1> QED  BY <1>2, <1>3, <1>4

\* A store of v in word w of slot r, and of nothing else.
Stored(r, w, v) ==
  /\ UNCHANGED <<fls, bitmap_fls>>
  /\ memory'[r] = [memory[r] EXCEPT ![w] = v]
  /\ \A s \in AllSlots : s # r => memory'[s] = memory[s]

LEMMA WriteStores ==
  ASSUME StoreInv, NEW s \in Slots, NEW i \in -1..FlsSize, NEW v,
         Write(s, i, v), UNCHANGED <<fls, bitmap_fls>>
  PROVE  Stored(SlotOf(s, i), WordOf(i), v)
<1> PICK r, w : r = SlotOf(s, i) /\ w = WordOf(i)
  OBVIOUS
<1>1. TypeOK
  BY DEF StoreInv, TypeInv
<1>2. r \in AllSlots /\ w \in Index
  BY <1>1, Reached
<1>3. memory' = [memory EXCEPT ![r] = [memory[r] EXCEPT ![w] = v]]
  BY DEF Write
<1> QED  BY <1>1, <1>2, <1>3 DEF Stored, TypeOK

\* The words of a fiber's bitmap and values, and where they are.
LEMMA ArraysOf ==
  ASSUME StoreInv, NEW f \in Fibers, Exists(f)
  PROVE  /\ fls[f] \in Slots /\ bitmap_fls[f] \in Slots
         /\ fls[f] \in AllSlots /\ bitmap_fls[f] \in AllSlots
         /\ memory[fls[f]] \in [Index -> Int] /\ memory[bitmap_fls[f]] \in [Index -> Int]
<1>1. TypeOK /\ Homed
  BY DEF StoreInv, TypeInv
<1>2. fls[f] \in Slots /\ bitmap_fls[f] \in Slots
  BY <1>1 DEF TypeOK, Homed, Exists
<1>3. \A s \in Slots : s \in AllSlots
  BY DEF AllSlots
<1> QED  BY <1>1, <1>2, <1>3 DEF TypeOK

\* A store to the bitmap of a fiber grants or takes back one slot ...
LEMMA BitStored ==
  ASSUME StoreInv, NEW f \in Fibers, Exists(f), NEW i \in Index, NEW v \in Int,
         Stored(bitmap_fls[f], i, v)
  PROVE  /\ Granted(f)' = IF v = 0 THEN Granted(f) \ {i} ELSE Granted(f) \cup {i}
         /\ \A g \in Fibers \ {f} : Granted(g)' = Granted(g)
         /\ \A g \in Fibers : ValueOf(g)' = ValueOf(g)
<1> PICK b : b = bitmap_fls[f]
  OBVIOUS
<1>1. /\ memory'[b] = [memory[b] EXCEPT ![i] = v] /\ memory[b] \in [Index -> Int]
      /\ \A r \in AllSlots : r # b => memory'[r] = memory[r]
      /\ UNCHANGED <<fls, bitmap_fls>>
  BY ArraysOf DEF Stored
<1>2. Exists(f)' /\ bitmap_fls'[f] = b
  BY <1>1 DEF Exists
<1>3. Granted(f)' = IF v = 0 THEN Granted(f) \ {i} ELSE Granted(f) \cup {i}
  BY <1>1, <1>2, OwnWords
<1>4. \A s \in Slots : s \in AllSlots
  BY DEF AllSlots
<1>5. \A g \in Fibers : Exists(g) => fls[g] # b /\ (g # f => bitmap_fls[g] # b)
  BY DEF StoreInv, Apart
<1> QED  BY <1>1, <1>3, <1>4, <1>5, OthersKeep

\* ... and one to its values sets one.
LEMMA ValueStored ==
  ASSUME StoreInv, NEW f \in Fibers, Exists(f), NEW i \in Index, NEW v \in Int,
         Stored(fls[f], i, v)
  PROVE  /\ ValueOf(f)' = [ValueOf(f) EXCEPT ![i] = v]
         /\ \A g \in Fibers \ {f} : ValueOf(g)' = ValueOf(g)
         /\ \A g \in Fibers : Granted(g)' = Granted(g)
<1> PICK a : a = fls[f]
  OBVIOUS
<1>1. /\ memory'[a] = [memory[a] EXCEPT ![i] = v]
      /\ \A r \in AllSlots : r # a => memory'[r] = memory[r]
      /\ UNCHANGED <<fls, bitmap_fls>>
  BY DEF Stored
<1>2. ValueOf(f)' = [ValueOf(f) EXCEPT ![i] = v]
  BY <1>1 DEF ValueOf, Exists
<1>3. \A s \in Slots : s \in AllSlots
  BY DEF AllSlots
<1>4. \A g \in Fibers : Exists(g) => bitmap_fls[g] # a /\ (g # f => fls[g] # a)
  BY DEF StoreInv, Apart
<1> QED  BY <1>1, <1>2, <1>3, <1>4, OthersKeep

\* A write for an index of a slot is to the array itself.
LEMMA WriteOwn ==
  ASSUME StoreInv, NEW f \in Fibers, Exists(f), NEW i \in Index, NEW v \in Int,
         UNCHANGED <<fls, bitmap_fls>>
  PROVE  /\ Write(bitmap_fls[f], i, v) => Stored(bitmap_fls[f], i, v)
         /\ Write(fls[f], i, v) => Stored(fls[f], i, v)
<1>1. i \in -1..FlsSize
  BY FlsAssumption DEF Index
<1> QED  BY <1>1, ArraysOf, WriteStores, OwnWords

\* A write for a stray index is to one word of one fiber, or of none: the
\* first or the last one of an array.
LEMMA StraySpills ==
  ASSUME StoreInv, NEW s \in Slots, NEW i \in -1..FlsSize, i \notin Index, NEW v \in Int,
         Write(s, i, v), UNCHANGED <<fls, bitmap_fls>>
  PROVE  Store!Spill(i, v)
<1> PICK r, w : r = SlotOf(s, i) /\ w = WordOf(i)
  OBVIOUS
<1>1. w \in Index /\ w = Store!Edge(i)
  BY FlsAssumption DEF WordOf, Store!Edge, Index
<1>2. Stored(r, w, v)
  BY WriteStores
<1>3. CASE \E g \in Fibers : Exists(g) /\ bitmap_fls[g] = r
  <2>1. PICK g \in Fibers : Exists(g) /\ bitmap_fls[g] = r
    BY <1>3
  <2>2. /\ Granted(g)' = IF v = 0 THEN Granted(g) \ {w} ELSE Granted(g) \cup {w}
        /\ \A h \in Fibers \ {g} : Granted(h)' = Granted(h)
        /\ \A h \in Fibers : ValueOf(h)' = ValueOf(h)
    BY <1>1, <1>2, <2>1, BitStored
  <2> QED  BY <1>1, <2>2 DEF Store!Spill
<1>4. CASE \E g \in Fibers : Exists(g) /\ fls[g] = r
  <2>1. PICK g \in Fibers : Exists(g) /\ fls[g] = r
    BY <1>4
  <2>2. /\ ValueOf(g)' = [ValueOf(g) EXCEPT ![w] = v]
        /\ \A h \in Fibers \ {g} : ValueOf(h)' = ValueOf(h)
        /\ \A h \in Fibers : Granted(h)' = Granted(h)
    BY <1>1, <1>2, <2>1, ValueStored
  <2> QED  BY <1>1, <2>2 DEF Store!Spill
<1>5. CASE \A g \in Fibers : Exists(g) => bitmap_fls[g] # r /\ fls[g] # r
  <2>1. \A t \in Slots : t \in AllSlots
    BY DEF AllSlots
  <2>2. \A g \in Fibers : Granted(g)' = Granted(g) /\ ValueOf(g)' = ValueOf(g)
    BY <1>2, <1>5, <2>1, OthersKeep DEF Stored
  <2> QED  BY <2>2 DEF Store!Spill
<1> QED  BY <1>3, <1>4, <1>5

\* Every step is a step of the store, or none.
LEMMA StepMaps == StoreInv /\ [Next]_vars => [Store!Next]_(Store!vars)
<1> SUFFICES ASSUME StoreInv, [Next]_vars PROVE Store!Next \/ UNCHANGED Store!vars
  BY DEF Store!Next, Store!vars
<1> DEFINE Maps == Store!Next \/ UNCHANGED Store!vars
<1>1. ASSUME \A g \in Fibers : Granted(g)' = Granted(g) /\ ValueOf(g)' = ValueOf(g),
             answer' = answer
      PROVE  Maps
  <2>1. /\ [g \in Fibers |-> Granted(g)]' = [g \in Fibers |-> Granted(g)]
        /\ [g \in Fibers |-> ValueOf(g)]' = [g \in Fibers |-> ValueOf(g)]
    BY <1>1
  <2> QED  BY <1>1, <2>1 DEF Store!vars
<1>2. CASE UNCHANGED vars
  BY <1>1, <1>2 DEF vars, Granted, ValueOf, Exists, Clear, Word
<1>3. ASSUME NEW t \in Threads, NEW f \in Fibers, Run(t, f) PROVE Maps
  BY <1>1, <1>3 DEF Run, Granted, ValueOf, Exists, Clear, Word
<1>4. ASSUME NEW f \in Fibers, Create(f) PROVE Maps
  <2>1. PICK s \in Slots \ Taken, b \in Slots \ Taken :
          /\ s # b /\ ~Exists(f) /\ answer' = answer
          /\ fls' = [fls EXCEPT ![f] = s] /\ bitmap_fls' = [bitmap_fls EXCEPT ![f] = b]
          /\ memory' = [memory EXCEPT ![s] = Zeroed, ![b] = Zeroed]
    BY <1>4 DEF Create
  <2>2. s \in AllSlots /\ b \in AllSlots
    BY DEF AllSlots
  <2> USE FlsAssumption DEF StoreInv, TypeInv, TypeOK, Homed, Exists
  <2>3. memory'[s] = Zeroed /\ memory'[b] = Zeroed /\ \A r \in AllSlots \ {s, b} : memory'[r] = memory[r]
    BY <2>1, <2>2
  <2>4. Exists(f)' /\ fls'[f] = s /\ bitmap_fls'[f] = b
    BY <2>1
  <2>5. Granted(f) = {} /\ ValueOf(f) = Zeroed
    BY <2>1 DEF Granted, ValueOf
  <2>6. ValueOf(f)' = Zeroed
    BY <2>3, <2>4 DEF ValueOf
  <2>7. Granted(f)' = {}
    BY <2>3, <2>4, OwnWords DEF Zeroed
  <2>8. ASSUME NEW g \in Fibers \ {f} PROVE Granted(g)' = Granted(g) /\ ValueOf(g)' = ValueOf(g)
    <3>1. fls'[g] = fls[g] /\ bitmap_fls'[g] = bitmap_fls[g] /\ (Exists(g)' <=> Exists(g))
      BY <2>1
    <3>2. CASE ~Exists(g)
      BY <3>1, <3>2 DEF Granted, ValueOf
    <3>3. CASE Exists(g)
      <4>1. fls[g] \in AllSlots \ {s, b} /\ bitmap_fls[g] \in AllSlots \ {s, b}
        <5>1. fls[g] \in Slots /\ bitmap_fls[g] \in Slots
          BY <3>3
        <5>2. \A r \in Slots : r \in AllSlots
          BY DEF AllSlots
        <5>3. fls[g] \in Taken /\ bitmap_fls[g] \in Taken /\ s \notin Taken /\ b \notin Taken
          BY DEF Taken
        <5> HIDE DEF StoreInv, TypeInv, TypeOK, Homed, Exists
        <5> QED  BY <5>1, <5>2, <5>3
      <4>2. /\ memory'[fls'[g]] = memory[fls[g]]
            /\ memory'[bitmap_fls'[g]] = memory[bitmap_fls[g]]
        BY <2>3, <3>1, <4>1
      <4>3. ValueOf(g)' = ValueOf(g)
        BY <3>1, <3>3, <4>2 DEF ValueOf
      <4> HIDE DEF StoreInv, TypeInv, TypeOK, Homed, Exists
      <4>4. Granted(g)' = Granted(g)
        BY <3>1, <3>3, <4>2, OwnWords
      <4> QED  BY <4>3, <4>4
    <3> QED  BY <3>2, <3>3
  <2> HIDE DEF Exists
  <2> QED  BY <1>1, <2>1, <2>5, <2>6, <2>7, <2>8
<1>5. ASSUME NEW f \in Fibers, Exists(f), FlsCall(f) PROVE Maps
  <2>1. UNCHANGED <<fls, bitmap_fls>>
    BY <1>5 DEF FlsCall, flsAlloc, flsAllocFull, flsFree, flsGetValue, flsSetValue
  <2>2. CASE flsAlloc(f)
    <3>1. PICK i \in Clear(f) : Write(bitmap_fls[f], i, 1) /\ answer' = <<f, "alloc", 0, i>>
      BY <2>2 DEF flsAlloc
    <3>2. i \in Index \ Granted(f)
      BY <1>5, <3>1 DEF Granted, Clear
    <3>3. /\ Granted(f)' = Granted(f) \cup {i}
          /\ \A g \in Fibers \ {f} : Granted(g)' = Granted(g)
          /\ \A g \in Fibers : ValueOf(g)' = ValueOf(g)
      <4>1. Stored(bitmap_fls[f], i, 1)
        BY <1>5, <2>1, <3>1, <3>2, WriteOwn
      <4> QED  BY <1>5, <3>2, <4>1, BitStored
    <3>4. Store!Alloc(f)
      BY <3>1, <3>2, <3>3 DEF Store!Alloc, Store!Index, Index
    <3> QED  BY <3>4 DEF Store!Next
  <2>3. CASE flsAllocFull(f)
    <3>1. Write(bitmap_fls[f], -1, 1) /\ answer' = <<f, "alloc", 0, -1>> /\ Clear(f) = {}
      BY <2>3 DEF flsAllocFull, NotFound
    <3>2. bitmap_fls[f] \in Slots /\ -1 \in -1..FlsSize /\ -1 \notin Index
      BY <1>5, ArraysOf, FlsAssumption DEF Index
    <3>3. Store!Spill(-1, 1)
      BY <2>1, <3>1, <3>2, StraySpills
    <3>4. Granted(f) = Index
      BY <1>5, <3>1 DEF Granted
    <3>5. Store!NoSlot(f)
      BY <3>1, <3>3, <3>4 DEF Store!NoSlot, Store!Index, Index
    <3> QED  BY <3>5 DEF Store!Next
  <2>4. ASSUME NEW i \in Index, InUse(f, i) <=> i \in Granted(f)
        PROVE  /\ flsFree(f, i) => Maps
               /\ flsGetValue(f, i) => Maps
               /\ \A v \in Values : flsSetValue(f, i, v) => Maps
    <3>1. ASSUME flsFree(f, i) PROVE Store!Free(f, i)
      <4>1. CASE i \in Granted(f)
        <5>1. Write(bitmap_fls[f], i, 0) /\ answer' = <<f, "free", i, 1>>
          BY <2>4, <3>1, <4>1 DEF flsFree
        <5>2. /\ Granted(f)' = Granted(f) \ {i}
              /\ \A g \in Fibers \ {f} : Granted(g)' = Granted(g)
              /\ \A g \in Fibers : ValueOf(g)' = ValueOf(g)
          <6>1. Stored(bitmap_fls[f], i, 0)
            BY <1>5, <2>1, <5>1, WriteOwn
          <6> QED  BY <1>5, <6>1, BitStored
        <5> QED  BY <4>1, <5>1, <5>2 DEF Store!Free
      <4>2. CASE i \notin Granted(f)
        <5>1. UNCHANGED memory /\ answer' = <<f, "free", i, 0>>
          BY <2>4, <3>1, <4>2 DEF flsFree
        <5>2. \A g \in Fibers : Granted(g)' = Granted(g) /\ ValueOf(g)' = ValueOf(g)
          BY <2>1, <5>1, OthersKeep
        <5> QED  BY <4>2, <5>1, <5>2 DEF Store!Free
      <4> QED  BY <4>1, <4>2
    <3>2. ASSUME flsGetValue(f, i) PROVE Store!Get(f, i)
      <4>1. UNCHANGED memory
        BY <3>2 DEF flsGetValue
      <4>2. \A g \in Fibers : Granted(g)' = Granted(g) /\ ValueOf(g)' = ValueOf(g)
        BY <2>1, <4>1, OthersKeep
      <4>3. Word(fls[f], i) = ValueOf(f)[i]
        BY <1>5, OwnWords DEF Word, ValueOf
      <4> QED  BY <2>4, <3>2, <4>2, <4>3 DEF flsGetValue, Store!Get
    <3>3. ASSUME NEW v \in Values, flsSetValue(f, i, v) PROVE Store!Set(f, i, v)
      <4>1. CASE i \in Granted(f)
        <5>1. Write(fls[f], i, v) /\ answer' = <<f, "set", i, 0>> /\ v \in Int
          BY <2>4, <3>3, <4>1, FlsAssumption DEF flsSetValue
        <5>2. /\ ValueOf(f)' = [ValueOf(f) EXCEPT ![i] = v]
              /\ \A g \in Fibers \ {f} : ValueOf(g)' = ValueOf(g)
              /\ \A g \in Fibers : Granted(g)' = Granted(g)
          <6>1. Stored(fls[f], i, v)
            BY <1>5, <2>1, <5>1, WriteOwn
          <6> QED  BY <1>5, <5>1, <6>1, ValueStored
        <5> QED  BY <4>1, <5>1, <5>2 DEF Store!Set
      <4>2. CASE i \notin Granted(f)
        <5>1. UNCHANGED memory /\ answer' = <<f, "set", i, 0>>
          BY <2>4, <3>3, <4>2 DEF flsSetValue
        <5>2. \A g \in Fibers : Granted(g)' = Granted(g) /\ ValueOf(g)' = ValueOf(g)
          BY <2>1, <5>1, OthersKeep
        <5> QED  BY <4>2, <5>1, <5>2 DEF Store!Set
      <4> QED  BY <4>1, <4>2
    <3> QED  BY <3>1, <3>2, <3>3 DEF Store!Next, Store!Index, Index
  <2>5. \A i \in Index : InUse(f, i) <=> i \in Granted(f)
    BY <1>5, OwnWords DEF InUse, Word
  <2>6. ASSUME NEW i \in Indices, i \notin Index
        PROVE  /\ flsFree(f, i) => Maps
               /\ flsGetValue(f, i) => Maps
               /\ \A v \in Values : flsSetValue(f, i, v) => Maps
    <3>1. i \in -1..FlsSize /\ i \in Int /\ i \in Indices \ Store!Index
      BY <2>6, FlsAssumption DEF Store!Index, Index
    <3>2. fls[f] \in Slots /\ bitmap_fls[f] \in Slots
      BY <1>5, ArraysOf
    <3>3. ASSUME UNCHANGED memory
          PROVE  /\ [g \in Fibers |-> Granted(g)]' = [g \in Fibers |-> Granted(g)]
                 /\ [g \in Fibers |-> ValueOf(g)]' = [g \in Fibers |-> ValueOf(g)]
      <4>1. \A g \in Fibers : Granted(g)' = Granted(g) /\ ValueOf(g)' = ValueOf(g)
        BY <2>1, <3>3, OthersKeep
      <4> QED  BY <4>1
    <3>4. ASSUME flsFree(f, i) PROVE Store!FreeStray(f, i)
      <4>1. CASE Write(bitmap_fls[f], i, 0) /\ answer' = <<f, "free", i, 1>>
        <5>1. Store!Spill(i, 0)
          BY <2>1, <2>6, <3>1, <3>2, <4>1, StraySpills
        <5> QED  BY <4>1, <5>1 DEF Store!FreeStray
      <4>2. CASE UNCHANGED memory /\ answer' = <<f, "free", i, 0>>
        BY <3>3, <4>2 DEF Store!FreeStray
      <4> QED  BY <3>4, <4>1, <4>2 DEF flsFree
    <3>5. ASSUME flsGetValue(f, i) PROVE Store!GetStray(f, i)
      <4>1. TypeOK
        BY DEF StoreInv, TypeInv
      <4>2. Word(fls[f], i) \in Int
        BY <3>1, <3>2, <4>1, Reached
      <4>3. PICK r \in Int : answer' = <<f, "get", i, r>> /\ UNCHANGED memory
        BY <3>5, <4>2 DEF flsGetValue
      <4> QED  BY <3>3, <4>3 DEF Store!GetStray
    <3>6. ASSUME NEW v \in Values, flsSetValue(f, i, v) PROVE Store!SetStray(f, i, v)
      <4>1. answer' = <<f, "set", i, 0>> /\ v \in Int
        BY <3>6, FlsAssumption DEF flsSetValue
      <4>2. Store!Spill(i, v)
        <5>1. CASE Write(fls[f], i, v)
          BY <2>1, <2>6, <3>1, <3>2, <4>1, <5>1, StraySpills
        <5>2. CASE UNCHANGED memory
          BY <3>3, <5>2 DEF Store!Spill
        <5> QED  BY <3>6, <5>1, <5>2 DEF flsSetValue
      <4> QED  BY <4>1, <4>2 DEF Store!SetStray
    <3> QED  BY <3>1, <3>4, <3>5, <3>6 DEF Store!Next
  <2> QED  BY <1>5, <2>2, <2>3, <2>4, <2>5, <2>6 DEF FlsCall
<1> QED
  BY <1>2, <1>3, <1>4, <1>5 DEF Next, StoreInv, TypeInv, TypeOK, Homed

\* Every slot belongs to the fiber that allocated it, wherever that runs, and
\* a value set is the value got, but for one word at the end of an array when
\* an index is stray: fiber-local storage implements the store in any slab.
THEOREM Implements == Spec => ImplementsStore
<1>1. Init => StoreInv
  BY FlsAssumption DEF Init, StoreInv, TypeInv, TypeOK, Homed, Exists, Zeroed, Apart
<1>2. StoreInv /\ [Next]_vars => StoreInv'
  BY NextType, NextApart DEF StoreInv
<1>3. Init => Store!Init
  BY DEF Init, Store!Init, Granted, ValueOf, Exists, Zeroed, Store!Index, Index
<1> QED
  BY <1>1, <1>2, <1>3, StepMaps, PTL DEF Spec, ImplementsStore, Store!Spec
=============================================================================
