--------------------------- MODULE GsmCellProofs ---------------------------
(***************************************************************************)
(* What holds of GsmCell for every number of channels and of calls, and    *)
(* every order in which the queue returns its events.                      *)
(***************************************************************************)
EXTENDS GsmCell, FiniteSetTheorems, WellFoundedInduction, TLAPS

\* A cell that has not seen its first event has nothing; a running one is
\* still short of the calls it must complete.
PhaseOK ==
  /\ loop = "init" => /\ busy = {} /\ DOMAIN node = {} /\ ends = [c \in Chan |-> 0]
                      /\ count = [free |-> 0, complete |-> 0, arriving |-> 0, blocked |-> 0]
  /\ loop = "running" => count.complete < CompleteCalls

\* Blocked and completed calls never outnumber those that arrived.
BlockedOK == loop = "running" => count.blocked + count.complete <= count.arriving

\* Every call that arrived was blocked, is over, or holds a channel.
CallsAddUp ==
  loop \in {"running", "over"} =>
    count.arriving = count.blocked + count.complete + Cardinality(busy)

IInv == TypeOK /\ PhaseOK /\ BlockedOK /\ ChannelsAgree /\ CallsAddUp

\* Sets of channels: how their size changes by one channel, and its bounds.
LEMMA ChannelSets ==
  ASSUME NEW S \in SUBSET Chan
  PROVE  /\ Cardinality(S) \in 0..Channels
         /\ \A c \in Chan : /\ c \notin S => Cardinality(S \cup {c}) = Cardinality(S) + 1
                            /\ c \in S => Cardinality(S \ {c}) = Cardinality(S) - 1
<1>1. IsFiniteSet(Chan) /\ Cardinality(Chan) = Channels
  BY GsmCellAssumption, FS_Interval DEF Chan
<1>2. IsFiniteSet(S) /\ Cardinality(S) \in Nat /\ Cardinality(S) <= Channels
  BY <1>1, FS_Subset, FS_CardinalityType
<1> QED  BY <1>2, FS_AddElement, FS_RemoveElement

LEMMA InitInv == Init => IInv
<1> SUFFICES ASSUME Init PROVE IInv
  OBVIOUS
<1>1. TypeOK
  BY GsmCellAssumption DEF Init, TypeOK, Chan, Ptr, Null
<1> QED
  BY <1>1 DEF Init, IInv, PhaseOK, BlockedOK, ChannelsAgree, CallsAddUp

LEMMA FirstEventInv == IInv /\ InitEvent => IInv'
<1> SUFFICES ASSUME IInv, InitEvent PROVE IInv'
  OBVIOUS
<1> USE GsmCellAssumption DEF IInv, InitEvent
<1>1. count' = [free |-> Channels, complete |-> 0, arriving |-> 0, blocked |-> 0]
  BY DEF PhaseOK
<1>2. Cardinality({}) = 0
  BY FS_EmptySet
<1>3. TypeOK'
  BY <1>1 DEF TypeOK
<1>4. /\ busy' = {} /\ DOMAIN node' = {} /\ \A c \in Chan : ends'[c] = 0
      /\ count'.free = Channels /\ count'.complete = 0
      /\ count'.arriving = 0 /\ count'.blocked = 0
  BY <1>1 DEF PhaseOK
<1>5. ChannelsAgree' /\ CallsAddUp'
  BY <1>2, <1>4 DEF ChannelsAgree, CallsAddUp
<1> QED
  BY <1>3, <1>4, <1>5 DEF PhaseOK, BlockedOK

LEMMA BlockedInv == IInv /\ StartBlocked => IInv'
<1> SUFFICES ASSUME IInv, StartBlocked PROVE IInv'
  OBVIOUS
<1> USE GsmCellAssumption DEF IInv, StartBlocked
<1>1. count.blocked \in Nat /\ count.arriving \in Nat /\ count.complete \in Nat
      /\ count.free \in 0..Channels
  BY DEF TypeOK
<1>2. Cardinality(busy) \in 0..Channels
  BY ChannelSets DEF TypeOK
<1>3. TypeOK'
  <2>1. count' = [free |-> count.free, complete |-> count.complete,
                  arriving |-> count.arriving + 1, blocked |-> count.blocked + 1]
    BY DEF TypeOK
  <2>2. count.arriving + 1 \in 0..MaxArriving /\ count.blocked + 1 \in 0..MaxArriving
    BY <1>1 DEF TypeOK, BlockedOK
  <2> QED  BY <2>1, <2>2 DEF TypeOK
<1>4. ChannelsAgree' /\ CallsAddUp'
  BY <1>1, <1>2 DEF ChannelsAgree, CallsAddUp, TypeOK
<1> QED
  BY <1>1, <1>3, <1>4 DEF PhaseOK, BlockedOK, TypeOK

LEMMA ServedInv == IInv /\ StartServed => IInv'
<1> SUFFICES ASSUME IInv, StartServed PROVE IInv'
  OBVIOUS
<1> USE GsmCellAssumption DEF IInv
<1>1. /\ count.blocked \in 0..MaxArriving /\ count.arriving \in 0..MaxArriving
      /\ count.complete \in 0..CompleteCalls /\ count.free \in 0..Channels
  BY DEF TypeOK, StartServed
<1>2. /\ loop = "running" /\ count.free # 0 /\ count.arriving < MaxArriving
      /\ count' = [count EXCEPT !.arriving = @ + 1, !.free = @ - 1]
      /\ starts' = starts
  BY DEF StartServed, Full
<1>3. /\ count' \in [free : 0..Channels, complete : 0..CompleteCalls,
                     arriving : 0..MaxArriving, blocked : 0..MaxArriving]
      /\ count'.free = count.free - 1 /\ count'.arriving = count.arriving + 1
      /\ count'.blocked = count.blocked /\ count'.complete = count.complete
  <2>1. count' = [free |-> count.free - 1, complete |-> count.complete,
                  arriving |-> count.arriving + 1, blocked |-> count.blocked]
    BY <1>2 DEF TypeOK
  <2>2. count.arriving + 1 \in 0..MaxArriving /\ count.free - 1 \in 0..Channels
    BY <1>1, <1>2
  <2> QED  BY <1>1, <2>1, <2>2
<1>4. CASE \E c \in Chan : IsFirstFree(c)
  <2>1. PICK c \in Chan : IsFirstFree(c) /\ allocation(c)
                          /\ ends' = [ends EXCEPT ![c] = @ + 1] /\ loop' = loop
    BY <1>4 DEF StartServed
  <2>2. c \notin busy /\ busy' = busy \cup {c} /\ head' = c /\ node' = Linked(c)
    BY <2>1 DEF IsFirstFree, allocation
  <2>3. Cardinality(busy) \in 0..Channels /\ Cardinality(busy') = Cardinality(busy) + 1
    BY <2>2, ChannelSets DEF TypeOK
  <2>4. DOMAIN node' = DOMAIN node \cup {c}
    BY <2>2 DEF Linked
  <2>5. \A i \in DOMAIN node' : node'[i] \in [next : Ptr, prev : Ptr]
    BY <2>1, <2>2 DEF Linked, TypeOK, Ptr
  <2>6. TypeOK'
    BY <1>2, <1>3, <2>1, <2>2, <2>4, <2>5 DEF TypeOK, Ptr
  <2>7. ChannelsAgree'
    BY <1>1, <1>2, <1>3, <2>1, <2>2, <2>3, <2>4 DEF ChannelsAgree, TypeOK
  <2>8. CallsAddUp'
    BY <1>1, <1>2, <1>3, <2>1, <2>3 DEF CallsAddUp
  <2> QED
    BY <1>1, <1>2, <1>3, <2>1, <2>6, <2>7, <2>8 DEF PhaseOK, BlockedOK
<1>5. CASE ~\E c \in Chan : IsFirstFree(c)
  BY <1>2, <1>3, <1>5 DEF StartServed, TypeOK, ChannelsAgree, CallsAddUp, PhaseOK, BlockedOK
<1> QED  BY <1>4, <1>5

LEMMA EndInv == ASSUME NEW c \in Chan, IInv, EndCall(c) PROVE IInv'
<1> USE GsmCellAssumption DEF IInv
<1>1. /\ count.blocked \in 0..MaxArriving /\ count.arriving \in 0..MaxArriving
      /\ count.complete \in 0..CompleteCalls /\ count.free \in 0..Channels
  BY DEF TypeOK
<1>2. loop = "running" /\ count.complete < CompleteCalls /\ ends[c] > 0
  BY DEF EndCall, PhaseOK
<1>3. c \in busy /\ c \in DOMAIN node
  BY <1>2 DEF ChannelsAgree
<1>4. /\ Cardinality(busy) \in 0..Channels
      /\ Cardinality(busy \ {c}) = Cardinality(busy) - 1
      /\ Cardinality(busy \ {c}) \in 0..Channels
  BY <1>3, ChannelSets DEF TypeOK
<1>5. count.free < Channels
  BY <1>1, <1>2, <1>4 DEF ChannelsAgree
<1>6. /\ count' = [count EXCEPT !.free = @ + 1, !.complete = @ + 1]
      /\ ends' = [ends EXCEPT ![c] = @ - 1] /\ starts' = starts
  BY DEF EndCall, Ended
<1>7. /\ count' \in [free : 0..Channels, complete : 0..CompleteCalls,
                     arriving : 0..MaxArriving, blocked : 0..MaxArriving]
      /\ count'.free = count.free + 1 /\ count'.complete = count.complete + 1
      /\ count'.blocked = count.blocked /\ count'.arriving = count.arriving
  <2>1. count' = [free |-> count.free + 1, complete |-> count.complete + 1,
                  arriving |-> count.arriving, blocked |-> count.blocked]
    BY <1>6 DEF TypeOK
  <2>2. count.complete + 1 \in 0..CompleteCalls /\ count.free + 1 \in 0..Channels
    BY <1>1, <1>2, <1>5
  <2> QED  BY <1>1, <2>1, <2>2
<1>8. ends' \in [Chan -> Nat]
  BY <1>2, <1>6 DEF TypeOK
<1>9. CASE c \in Walk
  <2>1. /\ busy' = busy \ {c} /\ node' = Unlinked(c)
        /\ head' = IF c = head THEN node[c].prev ELSE head
        /\ loop' = IF count'.complete = CompleteCalls THEN "over" ELSE loop
    BY <1>9 DEF EndCall, deallocation, Cleared
  <2>2. DOMAIN node' = DOMAIN node \ {c}
    BY <2>1 DEF Unlinked
  <2>3. \A i \in DOMAIN node' : node'[i] \in [next : Ptr, prev : Ptr]
    BY <1>3, <2>1 DEF Unlinked, TypeOK
  <2>4. head' \in Ptr
    BY <1>3, <2>1 DEF TypeOK
  <2>5. TypeOK'
    BY <1>2, <1>6, <1>7, <1>8, <2>1, <2>2, <2>3, <2>4 DEF TypeOK
  <2>6. ChannelsAgree'
    BY <1>1, <1>2, <1>3, <1>4, <1>6, <1>7, <2>1, <2>2 DEF ChannelsAgree, TypeOK
  <2>7. CallsAddUp'
    BY <1>1, <1>2, <1>4, <1>7, <2>1 DEF CallsAddUp
  <2>8. BlockedOK'
    BY <1>1, <1>2, <1>4, <1>7, <2>1, <2>7 DEF CallsAddUp, BlockedOK
  <2>9. PhaseOK'
    BY <1>1, <1>2, <1>7, <2>1 DEF PhaseOK
  <2> QED  BY <2>5, <2>6, <2>7, <2>8, <2>9
<1>10. CASE c \notin Walk
  <2>1. loop' = "aborted" /\ busy' = busy /\ head' = head /\ node' = node
    BY <1>10 DEF EndCall
  <2> QED
    BY <1>6, <1>7, <1>8, <2>1
       DEF TypeOK, ChannelsAgree, CallsAddUp, PhaseOK, BlockedOK
<1> QED  BY <1>9, <1>10

\* No event can break the invariant.
LEMMA NextInv == IInv /\ [ProcessEvent]_vars => IInv'
<1> SUFFICES ASSUME IInv, [ProcessEvent]_vars PROVE IInv'
  OBVIOUS
<1>1. CASE UNCHANGED vars
  BY <1>1 DEF vars, IInv, TypeOK, PhaseOK, BlockedOK, ChannelsAgree, CallsAddUp
<1> QED
  BY <1>1, FirstEventInv, BlockedInv, ServedInv, EndInv DEF ProcessEvent

LEMMA Invariant == Spec => []IInv
BY InitInv, NextInv, PTL DEF Spec

\* The fields keep their types whatever the number of channels: the unsigned
\* free count of model.c never goes below 0 or above CHANNELS_PER_CELL.
THEOREM CellTypes == Spec => []TypeOK
<1>1. IInv => TypeOK
  BY DEF IInv
<1> QED  BY <1>1, Invariant, PTL

\* The free count, the bit map, the list's nodes and the queued END_CALL
\* events of a running cell name the same channels.
THEOREM ChannelAgreement == Spec => []ChannelsAgree
<1>1. IInv => ChannelsAgree
  BY DEF IInv
<1> QED  BY <1>1, Invariant, PTL

\* No call is lost: each one that arrived was blocked, is over, or holds a
\* channel.
THEOREM CallAccounting == Spec => []CallsAddUp
<1>1. IInv => CallsAddUp
  BY DEF IInv
<1> QED  BY <1>1, Invariant, PTL
-----------------------------------------------------------------------------
(* The list of channels, whatever its length: its nodes have ranks 1, 2,   *)
(* ... from its last node to its head.                                     *)

Ranks(r, n) ==
  /\ \A i \in DOMAIN node : r[i] \in 1..n
  /\ \A i, j \in DOMAIN node : r[i] = r[j] => i = j
  /\ \A m \in 1..n : \E i \in DOMAIN node : r[i] = m
  /\ IF n = 0 THEN head = Null ELSE head \in DOMAIN node /\ r[head] = n
  /\ \A i \in DOMAIN node :
       /\ IF r[i] = 1 THEN node[i].prev = Null
                      ELSE node[i].prev \in DOMAIN node /\ r[node[i].prev] = r[i] - 1
       /\ IF r[i] = n THEN node[i].next = Null
                      ELSE node[i].next \in DOMAIN node /\ r[node[i].next] = r[i] + 1

Ranked == LET n == Cardinality(DOMAIN node)
          IN  \E r \in [DOMAIN node -> 1..n] : Ranks(r, n)

\* A set of positions has a first one.
LEMMA Least ==
  ASSUME NEW n \in Nat, NEW I, I \subseteq 0..n, I # {}
  PROVE  \E m \in I : \A k \in I : m <= k
<1> DEFINE T_ == {1..m : m \in I}
           R_ == StrictSubsetOrdering(1..n)
<1>1. IsWellFoundedOn(R_, FiniteSubsetsOf(1..n))
  BY FS_StrictSubsetOrderingWellFounded
<1>2. T_ \subseteq FiniteSubsetsOf(1..n) /\ T_ # {}
  <2>1. ASSUME NEW m \in I PROVE 1..m \in FiniteSubsetsOf(1..n)
    <3>1. m \in Int /\ m <= n
      OBVIOUS
    <3> QED  BY <3>1, FS_Interval DEF FiniteSubsetsOf
  <2> QED  BY <2>1
<1>3. PICK x \in T_ : \A y \in T_ : ~(<<y, x>> \in R_)
  <2> HIDE DEF T_, R_
  <2> QED  BY <1>1, <1>2, WFMin
<1>4. PICK m \in I : x = 1..m
  OBVIOUS
<1>5. ASSUME NEW k \in I, k < m PROVE FALSE
  <2>1. 1..k \in T_ /\ 1..k \in SUBSET (1..n) /\ 1..m \in SUBSET (1..n)
    OBVIOUS
  <2>2. 1..k \subseteq 1..m /\ 1..k # 1..m
    <3>1. m \in 1..m /\ m \notin 1..k
      BY <1>5
    <3> QED  BY <1>5, <3>1
  <2> QED  BY <1>3, <1>4, <2>1, <2>2 DEF StrictSubsetOrdering
<1> QED  BY <1>5

\* The walk from the head goes down the ranks, and past the last node.
LEMMA WalkMeetsAll ==
  ASSUME DOMAIN node \subseteq Chan, NEW n \in Nat, n = Cardinality(DOMAIN node),
         NEW r, Ranks(r, n)
  PROVE  Walk = DOMAIN node
<1> DEFINE nodes == DOMAIN node
           met == [k \in 0..n |-> IF k < n THEN CHOOSE i \in nodes : r[i] = n - k ELSE Null]
           step(f, k) == IF k = 0 THEN head
                         ELSE IF f[k - 1] \in nodes THEN node[f[k - 1]].prev ELSE Null
           at == CHOOSE f : f = [k \in 0..n |-> step(f, k)]
<1>1. Null \notin nodes
  BY GsmCellAssumption DEF Chan, Null
<1>2. \A k \in 0..n : k < n => met[k] \in nodes /\ r[met[k]] = n - k
  <2> SUFFICES ASSUME NEW k \in 0..n, k < n PROVE met[k] \in nodes /\ r[met[k]] = n - k
    OBVIOUS
  <2>1. \E i \in nodes : r[i] = n - k
    BY DEF Ranks
  <2>2. met[k] = CHOOSE i \in nodes : r[i] = n - k
    OBVIOUS
  <2> HIDE DEF met
  <2> QED  BY <2>1, <2>2
<1>3. met[n] = Null /\ met \in [0..n -> nodes \cup {Null}]
  <2>1. met[n] = Null
    OBVIOUS
  <2>2. \A k \in 0..n : met[k] \in nodes \cup {Null}
    BY <1>2, <2>1
  <2> QED  BY <2>1, <2>2
<1>4. ASSUME NEW k \in 0..n PROVE met[k] = step(met, k)
  <2> HIDE DEF met
  <2>1. CASE k = 0
    BY <1>2, <1>3, <2>1 DEF Ranks
  <2>2. CASE k # 0
    <3>1. k - 1 \in 0..n /\ met[k - 1] \in nodes /\ r[met[k - 1]] = n - k + 1
      BY <1>2, <2>2
    <3> PICK i \in nodes : i = met[k - 1]
      BY <3>1
    <3>2. CASE k = n
      <4>1. r[i] = 1
        BY <3>1, <3>2
      <4> QED  BY <1>3, <2>2, <3>2, <4>1 DEF Ranks
    <3>3. CASE k < n
      <4>1. r[i] = n - k + 1 /\ r[i] # 1
        BY <3>1, <3>3
      <4>2. node[i].prev \in nodes /\ r[node[i].prev] = n - k
        BY <4>1 DEF Ranks
      <4>3. met[k] \in nodes /\ r[met[k]] = n - k
        BY <1>2, <3>3
      <4> QED  BY <2>2, <4>2, <4>3 DEF Ranks
    <3> QED  BY <3>2, <3>3
  <2> QED  BY <2>1, <2>2
<1>5. at = [k \in 0..n |-> step(at, k)]
  <2>1. met = [k \in 0..n |-> step(met, k)]
    <3> HIDE DEF step
    <3> QED  BY <1>3, <1>4
  <2>2. \E f : f = [k \in 0..n |-> step(f, k)]
    <3> HIDE DEF met, step
    <3> QED  BY <2>1
  <2> HIDE DEF step, met
  <2> QED  BY <2>2
<1>6. \A k \in 0..n : at[k] = met[k]
  <2> DEFINE bad == {k \in 0..n : at[k] # met[k]}
  <2> SUFFICES ASSUME bad # {} PROVE FALSE
    OBVIOUS
  <2>1. PICK m \in bad : \A k \in bad : m <= k
    <3> HIDE DEF met, at
    <3>1. bad \subseteq 0..n
      OBVIOUS
    <3> HIDE DEF bad
    <3> QED  BY <3>1, Least
  <2>2. at[m] = step(at, m) /\ met[m] = step(met, m) /\ m \in 0..n
    BY <1>4, <1>5
  <2>3. m # 0 => at[m - 1] = met[m - 1]
    <3> SUFFICES ASSUME m # 0, at[m - 1] # met[m - 1] PROVE FALSE
      OBVIOUS
    <3> HIDE DEF at, met
    <3>1. m - 1 \in 0..n /\ m - 1 < m /\ n \in Nat
      BY <2>2
    <3>2. m - 1 \in bad
      BY <3>1
    <3> HIDE DEF bad
    <3> QED  BY <2>1, <2>2, <3>1, <3>2
  <2> HIDE DEF at, met
  <2> QED  BY <2>1, <2>2, <2>3
<1>7. Walk = {at[k] : k \in DOMAIN at} \ {Null}
  BY DEF Walk
<1>8. DOMAIN at = 0..n
  <2> HIDE DEF step
  <2>1. DOMAIN [k \in 0..n |-> step(at, k)] = 0..n
    OBVIOUS
  <2> HIDE DEF at
  <2> QED  BY <1>5, <2>1
<1> HIDE DEF at, met
<1>9. Walk \subseteq nodes
  BY <1>3, <1>6, <1>7, <1>8
<1>10. ASSUME NEW i \in nodes PROVE i \in Walk
  <2>1. r[i] \in 1..n
    BY DEF Ranks
  <2>2. n - r[i] \in 0..n /\ n - r[i] < n /\ n - (n - r[i]) = r[i]
    BY <2>1
  <2>3. met[n - r[i]] = i
    BY <1>2, <2>2 DEF Ranks
  <2> QED  BY <1>1, <1>6, <1>7, <1>8, <2>2, <2>3
<1> QED  BY <1>9, <1>10

\* A list with ranks is well linked.
LEMMA RankedLinks == ASSUME TypeOK, Ranked PROVE WellLinked
<1> DEFINE n == Cardinality(DOMAIN node)
<1>1. n \in 0..Channels /\ (n = 0 <=> DOMAIN node = {})
  <2>1. IsFiniteSet(DOMAIN node)
    <3>1. IsFiniteSet(Chan)
      BY GsmCellAssumption, FS_Interval DEF Chan
    <3> QED  BY <3>1, FS_Subset DEF TypeOK
  <2> QED  BY <2>1, ChannelSets, FS_EmptySet DEF TypeOK
<1>2. PICK r \in [DOMAIN node -> 1..n] : Ranks(r, n)
  BY DEF Ranked
<1>3. Walk = DOMAIN node
  BY <1>1, <1>2, WalkMeetsAll DEF TypeOK
<1> HIDE DEF n
<1>4. head # Null => head \in DOMAIN node /\ node[head].next = Null
  BY <1>2 DEF Ranks
<1>5. ASSUME NEW i \in DOMAIN node
      PROVE  /\ node[i].prev # Null => node[i].prev \in DOMAIN node /\ node[node[i].prev].next = i
             /\ node[i].next # Null => node[i].next \in DOMAIN node /\ node[node[i].next].prev = i
  <2>0. r[i] \in 1..n
    BY <1>2 DEF Ranks
  <2>1. ASSUME node[i].prev # Null
        PROVE  node[i].prev \in DOMAIN node /\ node[node[i].prev].next = i
    <3>1. node[i].prev \in DOMAIN node /\ r[node[i].prev] = r[i] - 1
      BY <1>2, <2>1 DEF Ranks
    <3> PICK j \in DOMAIN node : j = node[i].prev
      BY <3>1
    <3>2. r[j] # n /\ r[j] + 1 = r[i]
      BY <1>1, <2>0, <3>1
    <3>3. node[j].next \in DOMAIN node /\ r[node[j].next] = r[i]
      BY <1>2, <3>2 DEF Ranks
    <3> QED  BY <1>2, <3>1, <3>3 DEF Ranks
  <2>2. ASSUME node[i].next # Null
        PROVE  node[i].next \in DOMAIN node /\ node[node[i].next].prev = i
    <3>1. node[i].next \in DOMAIN node /\ r[node[i].next] = r[i] + 1
      BY <1>2, <2>2 DEF Ranks
    <3> PICK j \in DOMAIN node : j = node[i].next
      BY <3>1
    <3>2. r[j] # 1 /\ r[j] - 1 = r[i]
      BY <1>1, <2>0, <3>1
    <3>3. node[j].prev \in DOMAIN node /\ r[node[j].prev] = r[i]
      BY <1>2, <3>2 DEF Ranks
    <3> QED  BY <1>2, <3>1, <3>3 DEF Ranks
  <2> QED  BY <2>1, <2>2
<1> QED  BY <1>3, <1>4, <1>5 DEF WellLinked

\* A node put in front gets the next rank.
LEMMA AllocationRanks ==
  ASSUME TypeOK, Ranked, NEW c \in Chan \ DOMAIN node, allocation(c) PROVE Ranked'
<1> PICK n : n = Cardinality(DOMAIN node)
  OBVIOUS
<1>1. n \in 0..Channels /\ Cardinality(DOMAIN node \cup {c}) = n + 1
  BY ChannelSets DEF TypeOK
<1>2. PICK r \in [DOMAIN node -> 1..n] : Ranks(r, n)
  BY DEF Ranked
<1>3. head' = c /\ node' = Linked(c) /\ DOMAIN node' = DOMAIN node \cup {c}
  BY DEF allocation, Linked
<1>4. Cardinality(DOMAIN node)' = n + 1
  BY <1>1, <1>3
<1>5. \A i \in DOMAIN node : r[i] \in 1..n
  BY <1>2
<1>6. PICK s \in [DOMAIN node' -> 1..(n + 1)] : s[c] = n + 1 /\ \A i \in DOMAIN node : s[i] = r[i]
  <2> DEFINE up == [i \in DOMAIN node \cup {c} |-> IF i = c THEN n + 1 ELSE r[i]]
  <2>1. up \in [DOMAIN node' -> 1..(n + 1)]
    BY <1>1, <1>3, <1>5
  <2>2. up[c] = n + 1 /\ \A i \in DOMAIN node : up[i] = r[i]
    OBVIOUS
  <2> QED  BY <2>1, <2>2
<1>7. /\ node'[c] = [next |-> Null, prev |-> head]
      /\ \A i \in DOMAIN node : /\ node'[i].prev = node[i].prev
                                /\ node'[i].next = IF i = head THEN c ELSE node[i].next
  <2>1. \A i \in DOMAIN node : node[i] = [next |-> node[i].next, prev |-> node[i].prev]
    BY DEF TypeOK
  <2> QED  BY <1>3, <2>1 DEF Linked
<1>8. ASSUME NEW i \in DOMAIN node
      PROVE  /\ IF s[i] = 1 THEN node'[i].prev = Null
                            ELSE node'[i].prev \in DOMAIN node' /\ s[node'[i].prev] = s[i] - 1
             /\ IF s[i] = n + 1 THEN node'[i].next = Null
                            ELSE node'[i].next \in DOMAIN node' /\ s[node'[i].next] = s[i] + 1
  <2>1. IF s[i] = 1 THEN node'[i].prev = Null
                    ELSE node'[i].prev \in DOMAIN node' /\ s[node'[i].prev] = s[i] - 1
    BY <1>2, <1>3, <1>5, <1>6, <1>7 DEF Ranks
  <2>2. CASE i = head
    <3>1. s[i] = n /\ node'[i].next = c
      BY <1>1, <1>2, <1>5, <1>6, <1>7, <2>2 DEF Ranks
    <3> QED  BY <1>1, <1>3, <1>5, <1>6, <2>1, <3>1
  <2>3. CASE i # head
    <3>1. r[i] # n /\ r[i] # n + 1
      BY <1>1, <1>2, <1>5, <1>6, <2>3 DEF Ranks
    <3>2. node[i].next \in DOMAIN node /\ r[node[i].next] = r[i] + 1
      BY <1>2, <3>1 DEF Ranks
    <3> QED  BY <1>3, <1>5, <1>6, <1>7, <2>1, <2>3, <3>1, <3>2
  <2> QED  BY <2>2, <2>3
<1>9. /\ IF s[c] = 1 THEN node'[c].prev = Null
                     ELSE node'[c].prev \in DOMAIN node' /\ s[node'[c].prev] = s[c] - 1
      /\ node'[c].next = Null
  BY <1>1, <1>2, <1>3, <1>5, <1>6, <1>7 DEF Ranks
<1>10. \A i, j \in DOMAIN node' : s[i] = s[j] => i = j
  BY <1>1, <1>2, <1>3, <1>5, <1>6 DEF Ranks
<1>11. \A m \in 1..(n + 1) : \E i \in DOMAIN node' : s[i] = m
  <2> SUFFICES ASSUME NEW m \in 1..(n + 1) PROVE \E i \in DOMAIN node' : s[i] = m
    OBVIOUS
  <2>1. CASE m = n + 1
    BY <1>3, <1>5, <1>6, <2>1
  <2>2. CASE m # n + 1
    <3>1. PICK i \in DOMAIN node : r[i] = m
      BY <1>1, <1>2, <2>2 DEF Ranks
    <3> QED  BY <1>3, <1>5, <1>6, <3>1
  <2> QED  BY <2>1, <2>2
<1>12. Ranks(s, n + 1)'
  <2>1. head' \in DOMAIN node' /\ s[head'] = n + 1 /\ n + 1 # 0
    BY <1>1, <1>3, <1>5, <1>6
  <2>2. \A i \in DOMAIN node' : i = c \/ i \in DOMAIN node
    BY <1>3
  <2> QED  BY <1>5, <1>6, <1>8, <1>9, <1>10, <1>11, <2>1, <2>2 DEF Ranks
<1> QED  BY <1>4, <1>6, <1>12 DEF Ranked

\* Taking a node out moves those in front of it one rank down.
LEMMA DeallocationRanks ==
  ASSUME TypeOK, Ranked, NEW c \in DOMAIN node, deallocation(c) PROVE Ranked'
<1> PICK n \in Nat : n = Cardinality(DOMAIN node)
  BY ChannelSets DEF TypeOK
<1>1. n \in 0..Channels /\ Cardinality(DOMAIN node \ {c}) = n - 1 /\ n - 1 \in 0..Channels
  <2>1. DOMAIN node \in SUBSET Chan /\ DOMAIN node \ {c} \in SUBSET Chan /\ c \in Chan
    BY DEF TypeOK
  <2> QED  BY <2>1, ChannelSets
<1>2. PICK r \in [DOMAIN node -> 1..n] : Ranks(r, n)
  BY DEF Ranked
<1> PICK k \in 1..n : k = r[c]
  BY <1>2 DEF Ranks
<1>3. /\ head' = IF c = head THEN node[c].prev ELSE head
      /\ node' = Unlinked(c) /\ DOMAIN node' = DOMAIN node \ {c}
  BY DEF deallocation, Unlinked
<1>4. Cardinality(DOMAIN node)' = n - 1
  BY <1>1, <1>3
<1>5. \A i \in DOMAIN node' : i \in DOMAIN node /\ i # c /\ r[i] \in 1..n /\ r[i] # k
  BY <1>2, <1>3 DEF Ranks
<1>6. PICK s \in [DOMAIN node' -> 1..(n - 1)] :
        \A i \in DOMAIN node' : s[i] = IF r[i] > k THEN r[i] - 1 ELSE r[i]
  <2>1. \A i \in DOMAIN node' : (IF r[i] > k THEN r[i] - 1 ELSE r[i]) \in 1..(n - 1)
    BY <1>5
  <2>2. [i \in DOMAIN node' |-> IF r[i] > k THEN r[i] - 1 ELSE r[i]] \in [DOMAIN node' -> 1..(n - 1)]
    BY <2>1
  <2> QED  BY <2>2
<1>7. \A i \in DOMAIN node' :
        /\ node'[i].prev = IF i = node[c].next THEN node[c].prev ELSE node[i].prev
        /\ node'[i].next = IF i = node[c].prev /\ i # node[c].next THEN node[c].next
                           ELSE node[i].next
  <2>1. \A i \in DOMAIN node : node[i] = [next |-> node[i].next, prev |-> node[i].prev]
    BY DEF TypeOK
  <2> QED  BY <1>3, <2>1 DEF Unlinked
<1>8. /\ IF k = 1 THEN node[c].prev = Null
                  ELSE node[c].prev \in DOMAIN node' /\ r[node[c].prev] = k - 1
      /\ IF k = n THEN node[c].next = Null
                  ELSE node[c].next \in DOMAIN node' /\ r[node[c].next] = k + 1
  BY <1>1, <1>2, <1>3 DEF Ranks
<1>9. Null \notin DOMAIN node
  BY GsmCellAssumption DEF TypeOK, Chan, Null
<1>16. \A i, j \in DOMAIN node : r[i] = r[j] => i = j
  BY <1>2 DEF Ranks
<1>17. ASSUME NEW i \in DOMAIN node'
       PROVE  /\ i = node[c].next <=> r[i] = k + 1
              /\ i = node[c].prev <=> r[i] = k - 1
  <2>1. CASE k = n
    BY <1>5, <1>6, <1>8, <1>9, <1>16, <2>1
  <2>2. CASE k # n /\ k = 1
    BY <1>5, <1>6, <1>8, <1>9, <1>16, <2>2
  <2>3. CASE k # n /\ k # 1
    BY <1>5, <1>6, <1>8, <1>16, <2>3
  <2> QED  BY <2>1, <2>2, <2>3
<1>10. ASSUME NEW i \in DOMAIN node'
       PROVE  IF s[i] = 1 THEN node'[i].prev = Null
                          ELSE node'[i].prev \in DOMAIN node' /\ s[node'[i].prev] = s[i] - 1
  <2>1. i = node[c].next <=> r[i] = k + 1
    BY <1>17
  <2>2. CASE r[i] = k + 1
    <3>1. s[i] = k /\ node'[i].prev = node[c].prev
      BY <1>5, <1>6, <1>7, <2>1, <2>2
    <3>2. k # 1 => node[c].prev \in DOMAIN node' /\ s[node[c].prev] = k - 1
      BY <1>5, <1>6, <1>8
    <3> QED  BY <1>8, <3>1, <3>2
  <2>3. CASE r[i] # k + 1
    <3>1. node'[i].prev = node[i].prev
      BY <1>7, <2>1, <2>3
    <3>2. CASE r[i] = 1
      <4>1. s[i] = 1 /\ node[i].prev = Null
        BY <1>2, <1>5, <1>6, <3>2 DEF Ranks
      <4> QED  BY <3>1, <4>1
    <3>3. CASE r[i] # 1
      <4>1. node[i].prev \in DOMAIN node /\ r[node[i].prev] = r[i] - 1
        BY <1>2, <1>5, <1>6, <3>3 DEF Ranks
      <4> PICK j \in DOMAIN node : j = node[i].prev
        BY <4>1
      <4>2. r[j] = r[i] - 1 /\ r[j] # k /\ j # c
        BY <1>5, <1>6, <2>3, <4>1
      <4>3. j \in DOMAIN node' /\ s[j] = s[i] - 1
        BY <1>3, <1>5, <1>6, <2>3, <4>2
      <4>4. s[i] # 1
        BY <1>5, <1>6, <4>3
      <4> QED  BY <3>1, <4>3, <4>4
    <3> QED  BY <3>2, <3>3
  <2> QED  BY <2>2, <2>3
<1>11. ASSUME NEW i \in DOMAIN node'
       PROVE  IF s[i] = n - 1 THEN node'[i].next = Null
                              ELSE node'[i].next \in DOMAIN node' /\ s[node'[i].next] = s[i] + 1
  <2>1. /\ i = node[c].prev <=> r[i] = k - 1
        /\ i = node[c].next => r[i] = k + 1
    BY <1>17
  <2>2. CASE r[i] = k - 1
    <3>1. s[i] = k - 1 /\ node'[i].next = node[c].next
      BY <1>5, <1>6, <1>7, <2>1, <2>2
    <3>2. k # n => node[c].next \in DOMAIN node' /\ s[node[c].next] = k
      BY <1>5, <1>6, <1>8
    <3> QED  BY <1>1, <1>8, <3>1, <3>2
  <2>3. CASE r[i] # k - 1
    <3>1. node'[i].next = node[i].next
      BY <1>7, <2>1, <2>3
    <3>2. CASE r[i] = n
      <4>1. s[i] = n - 1 /\ node[i].next = Null
        BY <1>2, <1>5, <1>6, <3>2 DEF Ranks
      <4> QED  BY <3>1, <4>1
    <3>3. CASE r[i] # n
      <4>1. node[i].next \in DOMAIN node /\ r[node[i].next] = r[i] + 1
        BY <1>2, <1>5, <1>6, <3>3 DEF Ranks
      <4> PICK j \in DOMAIN node : j = node[i].next
        BY <4>1
      <4>2. r[j] = r[i] + 1 /\ r[j] # k /\ j # c
        BY <1>5, <1>6, <2>3, <4>1
      <4>3. j \in DOMAIN node' /\ s[j] = s[i] + 1
        BY <1>3, <1>5, <1>6, <2>3, <4>2
      <4>4. s[i] # n - 1
        BY <1>5, <1>6, <4>3
      <4> QED  BY <3>1, <4>3, <4>4
    <3> QED  BY <3>2, <3>3
  <2> QED  BY <2>2, <2>3
<1>12. \A i, j \in DOMAIN node' : s[i] = s[j] => i = j
  <2> SUFFICES ASSUME NEW i \in DOMAIN node', NEW j \in DOMAIN node', s[i] = s[j] PROVE i = j
    OBVIOUS
  <2>1. r[i] = r[j]
    BY <1>5, <1>6
  <2> QED  BY <1>2, <1>5, <1>6, <2>1 DEF Ranks
<1>13. \A m \in 1..(n - 1) : \E i \in DOMAIN node' : s[i] = m
  <2> SUFFICES ASSUME NEW m \in 1..(n - 1) PROVE \E i \in DOMAIN node' : s[i] = m
    OBVIOUS
  <2>1. CASE m < k
    <3>1. PICK i \in DOMAIN node : r[i] = m
      BY <1>1, <1>2, <2>1 DEF Ranks
    <3>2. i \in DOMAIN node' /\ s[i] = m
      BY <1>3, <1>5, <1>6, <2>1, <3>1
    <3> QED  BY <3>2
  <2>2. CASE m >= k
    <3>1. PICK i \in DOMAIN node : r[i] = m + 1
      BY <1>1, <1>2, <2>2 DEF Ranks
    <3>2. i \in DOMAIN node' /\ s[i] = m
      BY <1>3, <1>5, <1>6, <2>2, <3>1
    <3> QED  BY <3>2
  <2> QED  BY <1>1, <2>1, <2>2
<1>14. IF n - 1 = 0 THEN head' = Null ELSE head' \in DOMAIN node' /\ s[head'] = n - 1
  <2>1. n # 0 /\ head \in DOMAIN node /\ r[head] = n
    BY <1>1, <1>2 DEF Ranks
  <2>2. CASE c = head
    <3>1. head' = node[c].prev /\ k = n
      BY <1>3, <2>1, <2>2
    <3>2. n # 1 => head' \in DOMAIN node' /\ s[head'] = n - 1
      BY <1>1, <1>5, <1>6, <1>8, <3>1
    <3> QED  BY <1>1, <1>8, <3>1, <3>2
  <2>3. CASE c # head
    <3>1. head' = head /\ k # n /\ head \in DOMAIN node'
      BY <1>2, <1>3, <2>1, <2>3 DEF Ranks
    <3>2. s[head'] = n - 1 /\ n # 1
      BY <1>1, <1>5, <1>6, <2>1, <3>1
    <3> QED  BY <1>1, <3>1, <3>2
  <2> QED  BY <2>2, <2>3
<1>15. Ranks(s, n - 1)'
  BY <1>6, <1>10, <1>11, <1>12, <1>13, <1>14 DEF Ranks
<1> QED  BY <1>4, <1>6, <1>15 DEF Ranked

\* While the counter says so there is a clear bit, and the scan finds the first.
LEMMA FreeFound ==
  ASSUME IInv, loop = "running", count.free # 0 PROVE \E c \in Chan : IsFirstFree(c)
<1> DEFINE clear == Chan \ busy
<1>1. clear # {}
  <2> SUFFICES ASSUME busy = Chan PROVE FALSE
    BY DEF IInv, TypeOK
  <2>1. Cardinality(Chan) = Channels
    BY GsmCellAssumption, FS_Interval DEF Chan
  <2> QED  BY <2>1, GsmCellAssumption DEF IInv, TypeOK, ChannelsAgree
<1>2. clear \subseteq 0..(Channels - 1) /\ Channels - 1 \in Nat
  BY GsmCellAssumption DEF Chan
<1>3. PICK c \in clear : \A d \in clear : c <= d
  <2> HIDE DEF clear
  <2> QED  BY <1>1, <1>2, Least
<1>4. \A d \in 0..(c - 1) : d \in Chan /\ d < c
  BY <1>2, GsmCellAssumption DEF Chan
<1> QED  BY <1>3, <1>4, GsmCellAssumption DEF IsFirstFree, Chan

LInv == IInv /\ Ranked /\ NeverAborts

LEMMA ListInvariant == Spec => []LInv
<1>1. Init => LInv
  <2> SUFFICES ASSUME Init PROVE LInv
    OBVIOUS
  <2>1. DOMAIN node = {} /\ head = Null
    BY DEF Init
  <2> PICK n : n = Cardinality(DOMAIN node)
    OBVIOUS
  <2>2. n = 0
    BY <2>1, FS_EmptySet
  <2>3. [i \in {} |-> 0] \in [DOMAIN node -> 1..n] /\ Ranks([i \in {} |-> 0], n)
    BY <2>1, <2>2 DEF Ranks
  <2>4. Ranked
    BY <2>3 DEF Ranked
  <2> QED  BY <2>4, InitInv DEF LInv, NeverAborts, Init
<1>2. LInv /\ [ProcessEvent]_vars => LInv'
  <2> SUFFICES ASSUME LInv, [ProcessEvent]_vars PROVE LInv'
    OBVIOUS
  <2>1. IInv'
    BY NextInv DEF LInv
  <2>2. TypeOK /\ Ranked /\ IInv /\ loop # "aborted"
    BY DEF LInv, IInv, NeverAborts
  <2>3. node' = node /\ head' = head => Ranked'
    BY <2>2 DEF Ranked, Ranks
  <2>4. CASE InitEvent \/ StartBlocked \/ UNCHANGED vars
    BY <2>1, <2>2, <2>3, <2>4
       DEF InitEvent, StartBlocked, vars, LInv, NeverAborts
  <2>5. CASE StartServed
    <3>1. loop = "running" /\ count.free # 0 /\ starts' = starts
      BY <2>5 DEF StartServed, Full
    <3>2. \E c \in Chan : IsFirstFree(c)
      BY <2>2, <3>1, FreeFound
    <3>3. PICK c \in Chan : IsFirstFree(c) /\ allocation(c) /\ loop' = loop
      BY <2>5, <3>2 DEF StartServed
    <3>4. c \notin DOMAIN node
      BY <2>2, <3>1, <3>3 DEF IsFirstFree, IInv, ChannelsAgree
    <3>5. Ranked'
      BY <2>2, <3>3, <3>4, AllocationRanks
    <3> QED  BY <2>1, <2>2, <3>1, <3>3, <3>5 DEF LInv, NeverAborts
  <2>6. ASSUME NEW c \in Chan, EndCall(c) PROVE LInv'
    <3>1. loop = "running" /\ ends[c] > 0 /\ starts' = starts
      BY <2>6 DEF EndCall
    <3>2. c \in DOMAIN node
      BY <2>2, <3>1 DEF IInv, ChannelsAgree
    <3>3. c \in Walk
      BY <2>2, <3>2, RankedLinks DEF WellLinked
    <3>4. deallocation(c) /\ loop' \in {"over", loop}
      BY <2>6, <3>3 DEF EndCall
    <3>5. Ranked'
      BY <2>2, <3>2, <3>4, DeallocationRanks
    <3> QED  BY <2>1, <2>2, <3>1, <3>4, <3>5 DEF LInv, NeverAborts
  <2> QED  BY <2>4, <2>5, <2>6 DEF ProcessEvent
<1> QED  BY <1>1, <1>2, PTL DEF Spec

\* The channel list is well linked, however long, and a walk from its head
\* meets every channel in use.
THEOREM ListHolds == Spec => []WellLinked
<1>1. LInv => WellLinked
  BY RankedLinks DEF LInv, IInv
<1> QED  BY <1>1, ListInvariant, PTL

\* allocation() always finds a clear bit and deallocation() its node: neither
\* abort() of channel.c is reached.
THEOREM AbortsNever == Spec => []NeverAborts
<1>1. LInv => NeverAborts
  BY DEF LInv
<1> QED  BY <1>1, ListInvariant, PTL
=============================================================================
