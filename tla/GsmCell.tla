------------------------------ MODULE GsmCell ------------------------------
(***************************************************************************)
(* One cell of the simulation of the test bed: the work of one fiber.      *)
(* main_loop takes an event from the cell's queue, hands it to             *)
(* ProcessEvent, and stops after CompleteCalls calls.                      *)
(*                                                                         *)
(* A channel in use is kept in four places: the free count, the bit map,   *)
(* a doubly linked list, and the END_CALL event that will release it.      *)
(* The queue may return its events in any order (CalQueue says what it     *)
(* does promise), so times are left out, and so are powers and fadings.    *)
(***************************************************************************)
EXTENDS Integers, FiniteSets

CONSTANTS
  Channels,       \* CHANNELS_PER_CELL
  CompleteCalls,  \* COMPLETE_CALLS
  MaxArriving     \* bound on the calls that arrive

ASSUME GsmCellAssumption ==
  /\ Channels \in Nat \ {0}
  /\ CompleteCalls \in Nat \ {0}
  /\ MaxArriving \in Nat

VARIABLES
  loop,     \* main_loop: at its first event, running, over, or aborted
  count,    \* channel_counter, complete_calls, arriving_calls, blocked_on_setup
  busy,     \* the channels whose bit of channel_state is set
  head,     \* the list channels: its first node, the last one allocated
  node,     \* its nodes by channel_id, with their next and prev
  starts,   \* START_CALL events in the queue
  ends      \* END_CALL events in the queue, by channel
vars == <<loop, count, busy, head, node, starts, ends>>

Chan == 0..(Channels - 1)
Null == -1
Ptr == Chan \cup {Null}

\* main puts INIT in the queue; the state of the cell is NULL.
Init ==
  /\ loop = "init"
  /\ count = [free |-> 0, complete |-> 0, arriving |-> 0, blocked |-> 0]
  /\ busy = {}
  /\ head = Null
  /\ node = << >>
  /\ starts = 0
  /\ ends = [c \in Chan |-> 0]

InitEvent ==
  /\ loop = "init"
  /\ loop' = "running"
  /\ count' = [count EXCEPT !.free = Channels]
  /\ starts' = 1
  /\ UNCHANGED <<busy, head, node, ends>>
-----------------------------------------------------------------------------
\* Mutant of IsFirstFree: the scan starts from 1.
IsFirstFreeButOne(c) == c # 0 /\ c \notin busy /\ \A d \in 1..(c - 1) : d \in busy

\* The channel allocation() finds: the first whose bit is clear.
IsFirstFree(c) == c \notin busy /\ \A d \in 0..(c - 1) : d \in busy

\* Put a node for channel c in front of the list.
Linked(c) ==
  [i \in DOMAIN node \cup {c} |->
     IF i = c THEN [next |-> Null, prev |-> head]
     ELSE IF i = head THEN [node[i] EXCEPT !.next = c]
     ELSE node[i]]

allocation(c) ==
  /\ busy' = busy \cup {c}
  /\ node' = Linked(c)
  /\ head' = c

\* The nodes a walk along prev from the head meets.
Walk ==
  LET at[k \in 0..Cardinality(DOMAIN node)] ==
        IF k = 0 THEN head
        ELSE IF at[k - 1] \in DOMAIN node THEN node[at[k - 1]].prev ELSE Null
  IN  {at[k] : k \in DOMAIN at} \ {Null}

\* Mutant of Unlinked: the node behind c keeps its next.
UnlinkedOneWay(c) ==
  [i \in DOMAIN node \ {c} |->
     IF i = node[c].next THEN [node[i] EXCEPT !.prev = node[c].prev] ELSE node[i]]

\* Take the node of channel c out: at the head the node behind it loses its
\* next, elsewhere its neighbours are joined.
Unlinked(c) ==
  [i \in DOMAIN node \ {c} |->
     IF i = node[c].next THEN [node[i] EXCEPT !.prev = node[c].prev]
     ELSE IF i = node[c].prev THEN [node[i] EXCEPT !.next = node[c].next]
     ELSE node[i]]

\* Mutant of Cleared: the bit stays set.
ClearedNot(c) == busy

\* RESET_CHANNEL.
Cleared(c) == busy \ {c}

deallocation(c) ==
  /\ busy' = Cleared(c)
  /\ head' = IF c = head THEN node[c].prev ELSE head
  /\ node' = Unlinked(c)
-----------------------------------------------------------------------------
\* Mutant of Full: no test of the counter.
FullNever == FALSE

\* The test of a START_CALL for a free channel.
Full == count.free = 0

\* A START_CALL, blocked or served, schedules the next one: starts stays.
StartBlocked ==
  /\ loop = "running" /\ starts > 0 /\ count.arriving < MaxArriving
  /\ Full
  /\ count' = [count EXCEPT !.arriving = @ + 1, !.blocked = @ + 1]
  /\ UNCHANGED <<loop, busy, head, node, starts, ends>>

\* Without a clear bit allocation() aborts: "Unable to allocate channel, but
\* the counter says I have ..."
StartServed ==
  /\ loop = "running" /\ starts > 0 /\ count.arriving < MaxArriving
  /\ ~Full
  /\ count' = [count EXCEPT !.arriving = @ + 1, !.free = @ - 1]
  /\ UNCHANGED starts
  /\ IF \E c \in Chan : IsFirstFree(c)
     THEN /\ \E c \in Chan :
               /\ IsFirstFree(c)
               /\ allocation(c)
               /\ ends' = [ends EXCEPT ![c] = @ + 1]
          /\ UNCHANGED loop
     ELSE loop' = "aborted" /\ UNCHANGED <<busy, head, node, ends>>

\* What an END_CALL counts, before it releases the channel.
Ended == [count EXCEPT !.free = @ + 1, !.complete = @ + 1]

\* Without a node for c deallocation() aborts: "Unable to deallocate on ..."
EndCall(c) ==
  /\ loop = "running" /\ ends[c] > 0
  /\ count' = Ended
  /\ ends' = [ends EXCEPT ![c] = @ - 1]
  /\ UNCHANGED starts
  /\ IF c \in Walk
     THEN /\ deallocation(c)
          /\ loop' = IF Ended.complete = CompleteCalls THEN "over" ELSE loop
     ELSE loop' = "aborted" /\ UNCHANGED <<busy, head, node>>

ProcessEvent ==
  \/ InitEvent
  \/ StartBlocked
  \/ StartServed
  \/ \E c \in Chan : EndCall(c)

Spec == Init /\ [][ProcessEvent]_vars
-----------------------------------------------------------------------------
\* The types of the cell's fields; the free count never passes either end.
TypeOK ==
  /\ loop \in {"init", "running", "over", "aborted"}
  /\ count \in [free : 0..Channels, complete : 0..CompleteCalls,
                arriving : 0..MaxArriving, blocked : 0..MaxArriving]
  /\ busy \subseteq Chan
  /\ head \in Ptr
  /\ DOMAIN node \subseteq Chan
  /\ \A i \in DOMAIN node : node[i] \in [next : Ptr, prev : Ptr]
  /\ starts \in Nat
  /\ ends \in [Chan -> Nat]

\* The four records of a channel in use agree: as many channels are free as
\* the counter says, those with a set bit are the listed ones, and each of
\* them has exactly one END_CALL on its way.
ChannelsAgree ==
  loop = "running" =>
    /\ count.free + Cardinality(busy) = Channels
    /\ busy = DOMAIN node
    /\ \A c \in Chan : ends[c] = IF c \in busy THEN 1 ELSE 0

\* The list is well linked: next undoes prev, the head has no next, and the
\* walk that deallocation and fading_recheck make meets every node.
WellLinked ==
  /\ Walk = DOMAIN node
  /\ head # Null => head \in DOMAIN node /\ node[head].next = Null
  /\ \A i \in DOMAIN node :
       /\ node[i].prev # Null => node[i].prev \in DOMAIN node /\ node[node[i].prev].next = i
       /\ node[i].next # Null => node[i].next \in DOMAIN node /\ node[node[i].next].prev = i

\* The two abort() calls of channel.c are never reached.
NeverAborts == loop # "aborted"
=============================================================================
