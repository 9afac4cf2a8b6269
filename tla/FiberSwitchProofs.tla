------------------------- MODULE FiberSwitchProofs -------------------------
(***************************************************************************)
(* What holds of FiberSwitch for every number of threads and fibers and    *)
(* every bucket function.  The first part allows creations that race.  The *)
(* second is about a process that creates one fiber at a time and no more  *)
(* fibers than there are ids: the table is sound, switches do what they    *)
(* report, no fiber gets another's flow, and the abstract scheduler is     *)
(* implemented.                                                            *)
(***************************************************************************)
EXTENDS FiberSwitch, FiniteSetTheorems, TLAPS

(* Types.  A handler dereferences its cursor only where it is a fiber, and *)
(* the id it increments is one.                                            *)
LocalsOK ==
  \A t \in Threads :
    /\ pc[t] \in CreatePcs \cup {"lockNew", "decide", "load"} => new[t] \in Fibers
    /\ pc[t] = "storeId" => tmp[t] \in Ids
TypeInv == TypeOK /\ LocalsOK

\* The initial state has the types.
LEMMA InitType == Init => TypeInv
BY SwitchAssumption
   DEF Init, TypeInv, TypeOK, LocalsOK, Ids, Flows, Contexts, Pcs, CreatePcs,
       SwitchPcs, FlsPcs

\* Progress and ids stay within their width.
LEMMA StepType == \A p \in 0..PosMax : Step(p) \in 0..PosMax
BY SwitchAssumption DEF Step

LEMMA NextIdType == \A i \in Ids : NextId(i) \in Ids
BY SwitchAssumption DEF NextId, Ids

\* Entering a call leaves every user context a context.
LEMMA EnterType ==
  ASSUME NEW t \in Threads, cpu \in [Threads -> Contexts], Enter(t)
  PROVE  cpu' \in [Threads -> Contexts] /\ cpu'[t] \in Contexts
<1>1. cpu[t] \in Contexts /\ cpu[t].pos \in 0..PosMax
  BY DEF Contexts
<1>2. cpu' = [cpu EXCEPT ![t] = [cpu[t] EXCEPT !.pos = Step(cpu[t].pos)]]
  BY DEF Enter
<1>3. [cpu[t] EXCEPT !.pos = Step(cpu[t].pos)] \in Contexts
  BY <1>1, StepType DEF Contexts
<1> QED  BY <1>2, <1>3

\* Every step keeps the types.
LEMMA NextType == TypeInv /\ [Next]_vars => TypeInv'
<1> SUFFICES ASSUME TypeInv, [Next]_vars PROVE TypeInv'
  OBVIOUS
<1> USE SwitchAssumption
    DEF TypeInv, TypeOK, LocalsOK, Pcs, CreatePcs, SwitchPcs, FlsPcs, Goto,
        procVars, attrVars, fiberVars, localVars
<1>1. CASE UNCHANGED vars
  BY <1>1 DEF vars
<1>2. ASSUME NEW t \in Threads, CallConvertAgain(t) PROVE TypeInv'
  BY <1>2, EnterType DEF CallConvertAgain
<1>3. ASSUME NEW t \in Threads, CallFls(t) PROVE TypeInv'
  <2>1. cpu' \in [Threads -> Contexts]
    BY <1>3, EnterType DEF CallFls
  <2>2. CASE Goto(t, "lockFls") /\ UNCHANGED grace
    BY <1>3, <2>1, <2>2 DEF CallFls
  <2>3. CASE Goto(t, "sync") /\ StartGrace(t)
    <3>1. grace' \in [Threads -> SUBSET Threads]
      BY <2>3 DEF StartGrace
    <3> QED
      BY <1>3, <2>1, <2>3, <3>1 DEF CallFls
  <2> QED
    BY <1>3, <2>2, <2>3 DEF CallFls
<1>4. ASSUME NEW t \in Threads, NEW f \in Fibers, CallConvert(t, f) PROVE TypeInv'
  <2>1. cpu' \in [Threads -> Contexts] /\ cpu'[t] \in Contexts
    BY <1>4, EnterType DEF CallConvert
  <2> QED
    BY <1>4, <2>1 DEF CallConvert, Allocate, Flows
<1>5. ASSUME NEW t \in Threads, NEW f \in Fibers, CallCreate(t, f) PROVE TypeInv'
  <2>1. cpu' \in [Threads -> Contexts]
    BY <1>5, EnterType DEF CallCreate
  <2>2. [flow |-> f, pos |-> 0] \in Contexts
    BY DEF Contexts, Flows
  <2> QED
    BY <1>5, <2>1, <2>2 DEF CallCreate, Allocate, Flows
<1>6. ASSUME NEW t \in Threads, NEW i \in Ids, CallSwitch(t, i) PROVE TypeInv'
  <2>1. cpu' \in [Threads -> Contexts]
    BY <1>6, EnterType DEF CallSwitch
  <2>2. CASE t \in threads
    <3>1. old' = [old EXCEPT ![t] = runner[t]] /\ want' = [want EXCEPT ![t] = i]
          /\ pc' = [pc EXCEPT ![t] = "lockOld"]
      BY <1>6, <2>2 DEF CallSwitch
    <3> QED
      BY <1>6, <2>1, <3>1 DEF CallSwitch
  <2>3. CASE t \notin threads
    BY <1>6, <2>1, <2>3 DEF CallSwitch
  <2> QED
    BY <2>2, <2>3
<1>7. ASSUME NEW t \in Threads, LockOld(t) PROVE TypeInv'
  BY <1>7, ZenonT(60) DEF LockOld, Lock, Ids
<1>8. ASSUME NEW t \in Threads, LockNew(t) PROVE TypeInv'
  BY <1>8 DEF LockNew, Lock
<1>9. ASSUME NEW t \in Threads, LockFls(t) PROVE TypeInv'
  BY <1>9 DEF LockFls, Lock
<1>10. ASSUME NEW t \in Threads, LoadId(t) PROVE TypeInv'
  BY <1>10 DEF LoadId, Ids
<1>11. ASSUME NEW t \in Threads, StoreId(t) PROVE TypeInv'
  BY <1>11, NextIdType DEF StoreId, Ids
<1>12. ASSUME NEW t \in Threads, LoadLen(t) PROVE TypeInv'
  BY <1>12 DEF LoadLen
<1>13. ASSUME NEW t \in Threads, StoreLen(t) PROVE TypeInv'
  BY <1>13 DEF StoreLen
<1>14. ASSUME NEW t \in Threads, Link(t) PROVE TypeInv'
  <2>1. next' \in [Fibers -> Fibers \cup {NONE}]
    BY <1>14 DEF Link, Ids
  <2>2. selected_thread' \in [Fibers -> Threads \cup {NONE}]
        /\ runner' \in [Threads -> Fibers \cup {NONE}]
    <3>1. CASE Converting(t)
      <4>1. new[t] \in Fibers
        BY <1>14 DEF Link
      <4>2. selected_thread' = [selected_thread EXCEPT ![new[t]] = t]
            /\ runner' = [runner EXCEPT ![t] = new[t]]
        BY <1>14, <3>1 DEF Link
      <4> QED
        BY <4>1, <4>2
    <3>2. CASE ~Converting(t)
      BY <1>14, <3>2 DEF Link, Converting
    <3> QED
      BY <3>1, <3>2
  <2> QED
    BY <1>14, <2>1, <2>2 DEF Link
<1>15. ASSUME NEW t \in Threads, Publish(t) PROVE TypeInv'
  BY <1>15 DEF Publish, LeaveSection, Ids
<1>16. ASSUME NEW t \in Threads, WalkPast(t) PROVE TypeInv'
  BY <1>16 DEF WalkPast
<1>17. ASSUME NEW t \in Threads, WalkMatch(t) PROVE TypeInv'
  BY <1>17 DEF WalkMatch
<1>18. ASSUME NEW t \in Threads, SwitchRefused(t) PROVE TypeInv'
  BY <1>18 DEF SwitchRefused, ReleaseNew, Unlock
<1>19. ASSUME NEW t \in Threads, SaveOld(t) PROVE TypeInv'
  BY <1>19 DEF SaveOld
<1>20. ASSUME NEW t \in Threads, LoadNew(t) PROVE TypeInv'
  BY <1>20 DEF LoadNew, ReleaseNew, Unlock
<1>21. ASSUME NEW t \in Threads, UnlockOld(t) PROVE TypeInv'
  BY <1>21 DEF UnlockOld, Unlock, StartGrace
<1>22. ASSUME NEW t \in Threads, UnlockFls(t) PROVE TypeInv'
  BY <1>22 DEF UnlockFls, Unlock, StartGrace
<1>23. ASSUME NEW t \in Threads, SyncDone(t) PROVE TypeInv'
  BY <1>23 DEF SyncDone, Ids
<1> QED
  BY <1>1, <1>2, <1>3, <1>4, <1>5, <1>6, <1>7, <1>8, <1>9, <1>10, <1>11, <1>12, <1>13, <1>14, <1>15, <1>16, <1>17, <1>18, <1>19, <1>20, <1>21, <1>22, <1>23
     DEF Next, Call, Acquire, Kernel

\* Every variable of the handlers keeps its type, for every instance.
THEOREM TypeCorrect == Spec => []TypeOK
<1>1. Spec => []TypeInv
  BY InitType, NextType, PTL DEF Spec
<1>2. TypeInv => TypeOK
  BY DEF TypeInv
<1> QED  BY <1>1, <1>2, PTL
-----------------------------------------------------------------------------
(* Exclusion.  Every pointer is null or an allocated fiber, ...             *)
HeapRefs ==
  /\ \A b \in Buckets : head[b] \in heap \cup {NONE}
  /\ \A f \in Fibers : next[f] \in heap \cup {NONE}
  /\ \A t \in Threads :
       /\ runner[t] \in heap \cup {NONE}
       /\ old[t] \in heap \cup {NONE}
       /\ new[t] \in heap \cup {NONE}

\* ... a fiber being created is known to its creator only, ...
Private == \A t \in Threads : Creating(t) =>
  /\ \A b \in Buckets : head[b] # new[t]
  /\ \A f \in Fibers : next[f] # new[t]
  /\ \A u \in Threads : old[u] # new[t]
  /\ \A u \in Threads \ {t} : new[u] # new[t] /\ runner[u] # new[t]

\* ... a converted thread has a runner, which its calls start from, ...
RunnerOK ==
  /\ \A t \in threads :
       runner[t] = NONE => pc[t] \in CreatePcs \ {"publish"} /\ Converting(t)
  /\ \A t \in Threads :
       /\ pc[t] = "lockOld" => runner[t] # NONE /\ old[t] = runner[t]
       /\ pc[t] \in FlsPcs => runner[t] # NONE

\* ... a runner is marked, except between the two halves of an exchange, ...
Marked == \A t \in Threads : runner[t] # NONE =>
  \/ selected_thread[runner[t]] = t
  \/ pc[t] = "load" /\ runner[t] = old[t]

\* ... and inside its critical sections a thread does hold the locks, and
\* nobody else marks the fibers they guard.
Held == \A t \in Threads :
  /\ pc[t] \in {"walk", "lockNew", "decide", "load"} =>
       old[t] \in Fibers /\ lock_fiber[old[t]] = t /\ selected_thread[old[t]] \in {t, NONE}
  /\ pc[t] \in {"decide", "load"} => lock_fiber[new[t]] = t /\ new[t] # old[t]
  /\ pc[t] = "load" => selected_thread[new[t]] = NONE
  /\ pc[t] = "unlockFls" => lock_fiber[runner[t]] = t

IInv == TypeInv /\ HeapRefs /\ Private /\ RunnerOK /\ Marked /\ Held /\ LocksInside

\* The initial state satisfies the inductive invariant.
LEMMA InitInv == Init => IInv
<1> SUFFICES ASSUME Init PROVE IInv
  OBVIOUS
<1>1. TypeInv
  BY InitType
<1> QED
  BY <1>1, SwitchAssumption
     DEF Init, IInv, HeapRefs, Private, Creating, CreatePcs, FlsPcs, RunnerOK, Marked, Held,
         LocksInside

\* A pointer is only ever set to a fiber that was reached or just allocated.
LEMMA NextHeapRefs == IInv /\ [Next]_vars => HeapRefs'
<1> SUFFICES ASSUME IInv, [Next]_vars PROVE HeapRefs'
  OBVIOUS
<1> USE SwitchAssumption
    DEF IInv, TypeInv, TypeOK, LocalsOK, HeapRefs, CreatePcs,
        Goto, procVars, attrVars, fiberVars, localVars
<1>1. CASE UNCHANGED vars
  BY <1>1 DEF vars
<1>2. ASSUME NEW t \in Threads, CallConvertAgain(t) PROVE HeapRefs'
  BY <1>2 DEF CallConvertAgain
<1>3. ASSUME NEW t \in Threads, CallFls(t) PROVE HeapRefs'
  BY <1>3 DEF CallFls
<1>4. ASSUME NEW t \in Threads, NEW f \in Fibers, CallConvert(t, f) PROVE HeapRefs'
  BY <1>4 DEF CallConvert, Allocate
<1>5. ASSUME NEW t \in Threads, NEW f \in Fibers, CallCreate(t, f) PROVE HeapRefs'
  BY <1>5 DEF CallCreate, Allocate
<1>6. ASSUME NEW t \in Threads, NEW i \in Ids, CallSwitch(t, i) PROVE HeapRefs'
  <2>1. CASE t \in threads
    <3>1. old' = [old EXCEPT ![t] = runner[t]] /\ pc' = [pc EXCEPT ![t] = "lockOld"]
      BY <1>6, <2>1 DEF CallSwitch
    <3> QED
      BY <1>6, <2>1, <3>1 DEF CallSwitch
  <2>2. CASE t \notin threads
    BY <1>6, <2>2 DEF CallSwitch
  <2> QED
    BY <2>1, <2>2
<1>7. ASSUME NEW t \in Threads, LockOld(t) PROVE HeapRefs'
  <2>1. new' = [new EXCEPT ![t] = NONE] \/ new' = [new EXCEPT ![t] = head[Bucket[want[t]]]]
    BY <1>7 DEF LockOld
  <2>2. Bucket[want[t]] \in Buckets
    BY DEF Ids
  <2> QED
    BY <1>7, <2>1, <2>2 DEF LockOld, Lock
<1>8. ASSUME NEW t \in Threads, LockNew(t) PROVE HeapRefs'
  BY <1>8 DEF LockNew, Lock
<1>9. ASSUME NEW t \in Threads, LockFls(t) PROVE HeapRefs'
  BY <1>9 DEF LockFls, Lock
<1>10. ASSUME NEW t \in Threads, LoadId(t) PROVE HeapRefs'
  BY <1>10 DEF LoadId
<1>11. ASSUME NEW t \in Threads, StoreId(t) PROVE HeapRefs'
  BY <1>11 DEF StoreId
<1>12. ASSUME NEW t \in Threads, LoadLen(t) PROVE HeapRefs'
  BY <1>12 DEF LoadLen
<1>13. ASSUME NEW t \in Threads, StoreLen(t) PROVE HeapRefs'
  BY <1>13 DEF StoreLen
<1>14. ASSUME NEW t \in Threads, Link(t) PROVE HeapRefs'
  <2>1. new[t] \in Fibers /\ runner' \in {runner, [runner EXCEPT ![t] = new[t]]}
    BY <1>14 DEF Link
  <2>2. next' = [next EXCEPT ![new[t]] = head[Bucket[id[new[t]]]]]
    BY <1>14 DEF Link
  <2>3. Bucket[id[new[t]]] \in Buckets
    BY <2>1 DEF Ids
  <2> QED
    BY <1>14, <2>1, <2>2, <2>3 DEF Link
<1>15. ASSUME NEW t \in Threads, Publish(t) PROVE HeapRefs'
  BY <1>15 DEF Publish
<1>16. ASSUME NEW t \in Threads, WalkPast(t) PROVE HeapRefs'
  BY <1>16 DEF WalkPast
<1>17. ASSUME NEW t \in Threads, WalkMatch(t) PROVE HeapRefs'
  BY <1>17 DEF WalkMatch
<1>18. ASSUME NEW t \in Threads, SwitchRefused(t) PROVE HeapRefs'
  BY <1>18 DEF SwitchRefused, ReleaseNew, Unlock
<1>19. ASSUME NEW t \in Threads, SaveOld(t) PROVE HeapRefs'
  BY <1>19 DEF SaveOld, Free
<1>20. ASSUME NEW t \in Threads, LoadNew(t) PROVE HeapRefs'
  BY <1>20 DEF LoadNew, ReleaseNew, Unlock
<1>21. ASSUME NEW t \in Threads, UnlockOld(t) PROVE HeapRefs'
  BY <1>21 DEF UnlockOld, Unlock
<1>22. ASSUME NEW t \in Threads, UnlockFls(t) PROVE HeapRefs'
  BY <1>22 DEF UnlockFls, Unlock
<1>23. ASSUME NEW t \in Threads, SyncDone(t) PROVE HeapRefs'
  BY <1>23 DEF SyncDone
<1> QED
  BY <1>1, <1>2, <1>3, <1>4, <1>5, <1>6, <1>7, <1>8, <1>9, <1>10, <1>11, <1>12, <1>13, <1>14, <1>15, <1>16, <1>17, <1>18, <1>19, <1>20, <1>21, <1>22, <1>23
     DEF Next, Call, Acquire, Kernel

\* A fiber under creation is published by its creator's last store.
LEMMA NextPrivate == IInv /\ [Next]_vars => Private'
<1> SUFFICES ASSUME IInv, [Next]_vars PROVE Private'
  OBVIOUS
<1> USE SwitchAssumption
    DEF IInv, TypeInv, TypeOK, LocalsOK, HeapRefs, Private, Creating, CreatePcs,
        Goto, procVars, attrVars, fiberVars, localVars
<1>1. CASE UNCHANGED vars
  BY <1>1 DEF vars
<1>2. ASSUME NEW t \in Threads, CallConvertAgain(t) PROVE Private'
  BY <1>2 DEF CallConvertAgain
<1>3. ASSUME NEW t \in Threads, CallFls(t) PROVE Private'
  <2>1. CASE pc' = [pc EXCEPT ![t] = "lockFls"]
    BY <1>3, <2>1 DEF CallFls
  <2>2. CASE pc' = [pc EXCEPT ![t] = "sync"]
    BY <1>3, <2>2 DEF CallFls
  <2> QED
    BY <1>3, <2>1, <2>2 DEF CallFls
<1>4. ASSUME NEW t \in Threads, NEW f \in Fibers, CallConvert(t, f) PROVE Private'
  BY <1>4 DEF CallConvert, Allocate
<1>5. ASSUME NEW t \in Threads, NEW f \in Fibers, CallCreate(t, f) PROVE Private'
  BY <1>5 DEF CallCreate, Allocate
<1>6. ASSUME NEW t \in Threads, NEW i \in Ids, CallSwitch(t, i) PROVE Private'
  <2>1. CASE t \in threads
    <3>1. old' = [old EXCEPT ![t] = runner[t]] /\ pc' = [pc EXCEPT ![t] = "lockOld"]
      BY <1>6, <2>1 DEF CallSwitch
    <3> QED
      BY <1>6, <2>1, <3>1 DEF CallSwitch
  <2>2. CASE t \notin threads
    BY <1>6, <2>2 DEF CallSwitch
  <2> QED
    BY <2>1, <2>2
<1>7. ASSUME NEW t \in Threads, LockOld(t) PROVE Private'
  <2>1. new' = [new EXCEPT ![t] = NONE] \/ new' = [new EXCEPT ![t] = head[Bucket[want[t]]]]
    BY <1>7 DEF LockOld
  <2>2. Bucket[want[t]] \in Buckets
    BY DEF Ids
  <2> QED
    BY <1>7, <2>1, <2>2 DEF LockOld, Lock
<1>8. ASSUME NEW t \in Threads, LockNew(t) PROVE Private'
  BY <1>8 DEF LockNew, Lock
<1>9. ASSUME NEW t \in Threads, LockFls(t) PROVE Private'
  BY <1>9 DEF LockFls, Lock
<1>10. ASSUME NEW t \in Threads, LoadId(t) PROVE Private'
  BY <1>10 DEF LoadId
<1>11. ASSUME NEW t \in Threads, StoreId(t) PROVE Private'
  BY <1>11 DEF StoreId
<1>12. ASSUME NEW t \in Threads, LoadLen(t) PROVE Private'
  BY <1>12 DEF LoadLen
<1>13. ASSUME NEW t \in Threads, StoreLen(t) PROVE Private'
  BY <1>13 DEF StoreLen
<1>14. ASSUME NEW t \in Threads, Link(t) PROVE Private'
  <2>1. new[t] \in Fibers /\ runner' \in {runner, [runner EXCEPT ![t] = new[t]]}
    BY <1>14 DEF Link
  <2>2. next' = [next EXCEPT ![new[t]] = head[Bucket[id[new[t]]]]]
    BY <1>14 DEF Link
  <2>3. Bucket[id[new[t]]] \in Buckets
    BY <2>1 DEF Ids
  <2> QED
    BY <1>14, <2>1, <2>2, <2>3 DEF Link
<1>15. ASSUME NEW t \in Threads, Publish(t) PROVE Private'
  BY <1>15 DEF Publish
<1>16. ASSUME NEW t \in Threads, WalkPast(t) PROVE Private'
  BY <1>16 DEF WalkPast
<1>17. ASSUME NEW t \in Threads, WalkMatch(t) PROVE Private'
  BY <1>17 DEF WalkMatch
<1>18. ASSUME NEW t \in Threads, SwitchRefused(t) PROVE Private'
  BY <1>18 DEF SwitchRefused, ReleaseNew, Unlock
<1>19. ASSUME NEW t \in Threads, SaveOld(t) PROVE Private'
  BY <1>19 DEF SaveOld, Free
<1>20. ASSUME NEW t \in Threads, LoadNew(t) PROVE Private'
  BY <1>20 DEF LoadNew, ReleaseNew, Unlock
<1>21. ASSUME NEW t \in Threads, UnlockOld(t) PROVE Private'
  BY <1>21 DEF UnlockOld, Unlock
<1>22. ASSUME NEW t \in Threads, UnlockFls(t) PROVE Private'
  BY <1>22 DEF UnlockFls, Unlock
<1>23. ASSUME NEW t \in Threads, SyncDone(t) PROVE Private'
  BY <1>23 DEF SyncDone
<1> QED
  BY <1>1, <1>2, <1>3, <1>4, <1>5, <1>6, <1>7, <1>8, <1>9, <1>10, <1>11, <1>12, <1>13, <1>14, <1>15, <1>16, <1>17, <1>18, <1>19, <1>20, <1>21, <1>22, <1>23
     DEF Next, Call, Acquire, Kernel

\* A thread converted before a call has a runner in it.
LEMMA NextRunnerOK == IInv /\ [Next]_vars => RunnerOK'
<1> SUFFICES ASSUME IInv, [Next]_vars PROVE RunnerOK'
  OBVIOUS
<1> USE SwitchAssumption
    DEF IInv, TypeInv, TypeOK, LocalsOK, HeapRefs, RunnerOK, Converting, CreatePcs, FlsPcs,
        Goto, procVars, attrVars, fiberVars, localVars
<1>1. CASE UNCHANGED vars
  BY <1>1 DEF vars
<1>2. ASSUME NEW t \in Threads, CallConvertAgain(t) PROVE RunnerOK'
  BY <1>2 DEF CallConvertAgain
<1>3. ASSUME NEW t \in Threads, CallFls(t) PROVE RunnerOK'
  <2>1. CASE pc' = [pc EXCEPT ![t] = "lockFls"]
    BY <1>3, <2>1 DEF CallFls
  <2>2. CASE pc' = [pc EXCEPT ![t] = "sync"]
    BY <1>3, <2>2 DEF CallFls
  <2> QED
    BY <1>3, <2>1, <2>2 DEF CallFls
<1>4. ASSUME NEW t \in Threads, NEW f \in Fibers, CallConvert(t, f) PROVE RunnerOK'
  BY <1>4 DEF CallConvert, Allocate, Pcs
<1>5. ASSUME NEW t \in Threads, NEW f \in Fibers, CallCreate(t, f) PROVE RunnerOK'
  BY <1>5 DEF CallCreate, Allocate, Pcs
<1>6. ASSUME NEW t \in Threads, NEW i \in Ids, CallSwitch(t, i) PROVE RunnerOK'
  <2>1. CASE t \in threads
    <3>1. old' = [old EXCEPT ![t] = runner[t]] /\ pc' = [pc EXCEPT ![t] = "lockOld"]
      BY <1>6, <2>1 DEF CallSwitch
    <3>2. pc[t] = "user" /\ runner[t] # NONE /\ UNCHANGED <<threads, runner, new, entry_point>>
      BY <1>6, <2>1 DEF CallSwitch
    <3> QED
      BY <2>1, <3>1, <3>2 DEF CallSwitch
  <2>2. CASE t \notin threads
    BY <1>6, <2>2 DEF CallSwitch
  <2> QED
    BY <2>1, <2>2
<1>7. ASSUME NEW t \in Threads, LockOld(t) PROVE RunnerOK'
  BY <1>7 DEF LockOld, Lock
<1>8. ASSUME NEW t \in Threads, LockNew(t) PROVE RunnerOK'
  BY <1>8 DEF LockNew, Lock
<1>9. ASSUME NEW t \in Threads, LockFls(t) PROVE RunnerOK'
  BY <1>9 DEF LockFls, Lock
<1>10. ASSUME NEW t \in Threads, LoadId(t) PROVE RunnerOK'
  BY <1>10 DEF LoadId
<1>11. ASSUME NEW t \in Threads, StoreId(t) PROVE RunnerOK'
  BY <1>11 DEF StoreId
<1>12. ASSUME NEW t \in Threads, LoadLen(t) PROVE RunnerOK'
  BY <1>12 DEF LoadLen
<1>13. ASSUME NEW t \in Threads, StoreLen(t) PROVE RunnerOK'
  BY <1>13 DEF StoreLen
<1>14. ASSUME NEW t \in Threads, Link(t) PROVE RunnerOK'
  BY <1>14 DEF Link
<1>15. ASSUME NEW t \in Threads, Publish(t) PROVE RunnerOK'
  BY <1>15 DEF Publish
<1>16. ASSUME NEW t \in Threads, WalkPast(t) PROVE RunnerOK'
  BY <1>16 DEF WalkPast
<1>17. ASSUME NEW t \in Threads, WalkMatch(t) PROVE RunnerOK'
  BY <1>17 DEF WalkMatch
<1>18. ASSUME NEW t \in Threads, SwitchRefused(t) PROVE RunnerOK'
  BY <1>18 DEF SwitchRefused, ReleaseNew, Unlock
<1>19. ASSUME NEW t \in Threads, SaveOld(t) PROVE RunnerOK'
  BY <1>19 DEF SaveOld, Free
<1>20. ASSUME NEW t \in Threads, LoadNew(t) PROVE RunnerOK'
  BY <1>20 DEF LoadNew, ReleaseNew, Unlock
<1>21. ASSUME NEW t \in Threads, UnlockOld(t) PROVE RunnerOK'
  BY <1>21 DEF UnlockOld, Unlock
<1>22. ASSUME NEW t \in Threads, UnlockFls(t) PROVE RunnerOK'
  BY <1>22 DEF UnlockFls, Unlock
<1>23. ASSUME NEW t \in Threads, SyncDone(t) PROVE RunnerOK'
  BY <1>23 DEF SyncDone
<1> QED
  BY <1>1, <1>2, <1>3, <1>4, <1>5, <1>6, <1>7, <1>8, <1>9, <1>10, <1>11, <1>12, <1>13, <1>14, <1>15, <1>16, <1>17, <1>18, <1>19, <1>20, <1>21, <1>22, <1>23
     DEF Next, Call, Acquire, Kernel

\* Only the thread that runs a fiber takes its mark away.
LEMMA NextMarked == IInv /\ [Next]_vars => Marked'
<1> SUFFICES ASSUME IInv, [Next]_vars PROVE Marked'
  OBVIOUS
<1> USE SwitchAssumption
    DEF IInv, TypeInv, TypeOK, LocalsOK, HeapRefs, Private, Creating, RunnerOK, Marked, Held, CreatePcs, FlsPcs,
        Goto, procVars, attrVars, fiberVars, localVars
<1>1. CASE UNCHANGED vars
  BY <1>1 DEF vars
<1>2. ASSUME NEW t \in Threads, CallConvertAgain(t) PROVE Marked'
  BY <1>2 DEF CallConvertAgain
<1>3. ASSUME NEW t \in Threads, CallFls(t) PROVE Marked'
  BY <1>3 DEF CallFls
<1>4. ASSUME NEW t \in Threads, NEW f \in Fibers, CallConvert(t, f) PROVE Marked'
  BY <1>4 DEF CallConvert, Allocate
<1>5. ASSUME NEW t \in Threads, NEW f \in Fibers, CallCreate(t, f) PROVE Marked'
  BY <1>5 DEF CallCreate, Allocate
<1>6. ASSUME NEW t \in Threads, NEW i \in Ids, CallSwitch(t, i) PROVE Marked'
  BY <1>6 DEF CallSwitch
<1>7. ASSUME NEW t \in Threads, LockOld(t) PROVE Marked'
  BY <1>7 DEF LockOld, Lock
<1>8. ASSUME NEW t \in Threads, LockNew(t) PROVE Marked'
  BY <1>8 DEF LockNew, Lock
<1>9. ASSUME NEW t \in Threads, LockFls(t) PROVE Marked'
  BY <1>9 DEF LockFls, Lock
<1>10. ASSUME NEW t \in Threads, LoadId(t) PROVE Marked'
  BY <1>10 DEF LoadId
<1>11. ASSUME NEW t \in Threads, StoreId(t) PROVE Marked'
  BY <1>11 DEF StoreId
<1>12. ASSUME NEW t \in Threads, LoadLen(t) PROVE Marked'
  BY <1>12 DEF LoadLen
<1>13. ASSUME NEW t \in Threads, StoreLen(t) PROVE Marked'
  BY <1>13 DEF StoreLen
<1>14. ASSUME NEW t \in Threads, Link(t) PROVE Marked'
  BY <1>14 DEF Link
<1>15. ASSUME NEW t \in Threads, Publish(t) PROVE Marked'
  BY <1>15 DEF Publish
<1>16. ASSUME NEW t \in Threads, WalkPast(t) PROVE Marked'
  BY <1>16 DEF WalkPast
<1>17. ASSUME NEW t \in Threads, WalkMatch(t) PROVE Marked'
  BY <1>17 DEF WalkMatch
<1>18. ASSUME NEW t \in Threads, SwitchRefused(t) PROVE Marked'
  BY <1>18 DEF SwitchRefused, ReleaseNew, Unlock
<1>19. ASSUME NEW t \in Threads, SaveOld(t) PROVE Marked'
  BY <1>19 DEF SaveOld, Free
<1>20. ASSUME NEW t \in Threads, LoadNew(t) PROVE Marked'
  BY <1>20 DEF LoadNew, ReleaseNew, Unlock
<1>21. ASSUME NEW t \in Threads, UnlockOld(t) PROVE Marked'
  BY <1>21 DEF UnlockOld, Unlock
<1>22. ASSUME NEW t \in Threads, UnlockFls(t) PROVE Marked'
  BY <1>22 DEF UnlockFls, Unlock
<1>23. ASSUME NEW t \in Threads, SyncDone(t) PROVE Marked'
  BY <1>23 DEF SyncDone
<1> QED
  BY <1>1, <1>2, <1>3, <1>4, <1>5, <1>6, <1>7, <1>8, <1>9, <1>10, <1>11, <1>12, <1>13, <1>14, <1>15, <1>16, <1>17, <1>18, <1>19, <1>20, <1>21, <1>22, <1>23
     DEF Next, Call, Acquire, Kernel

\* The locks and marks a critical section relies on are stable.
LEMMA NextHeld == IInv /\ [Next]_vars => Held'
<1> SUFFICES ASSUME IInv, [Next]_vars PROVE Held'
  OBVIOUS
<1> USE SwitchAssumption
    DEF IInv, TypeInv, TypeOK, LocalsOK, HeapRefs, Private, Creating, RunnerOK, Marked, Held, CreatePcs, FlsPcs,
        Goto, procVars, attrVars, fiberVars, localVars
<1>1. CASE UNCHANGED vars
  BY <1>1 DEF vars
<1>2. ASSUME NEW t \in Threads, CallConvertAgain(t) PROVE Held'
  BY <1>2 DEF CallConvertAgain
<1>3. ASSUME NEW t \in Threads, CallFls(t) PROVE Held'
  BY <1>3 DEF CallFls
<1>4. ASSUME NEW t \in Threads, NEW f \in Fibers, CallConvert(t, f) PROVE Held'
  BY <1>4 DEF CallConvert, Allocate
<1>5. ASSUME NEW t \in Threads, NEW f \in Fibers, CallCreate(t, f) PROVE Held'
  BY <1>5 DEF CallCreate, Allocate
<1>6. ASSUME NEW t \in Threads, NEW i \in Ids, CallSwitch(t, i) PROVE Held'
  BY <1>6 DEF CallSwitch
<1>7. ASSUME NEW t \in Threads, LockOld(t) PROVE Held'
  BY <1>7 DEF LockOld, Lock
<1>8. ASSUME NEW t \in Threads, LockNew(t) PROVE Held'
  BY <1>8 DEF LockNew, Lock
<1>9. ASSUME NEW t \in Threads, LockFls(t) PROVE Held'
  BY <1>9 DEF LockFls, Lock
<1>10. ASSUME NEW t \in Threads, LoadId(t) PROVE Held'
  BY <1>10 DEF LoadId
<1>11. ASSUME NEW t \in Threads, StoreId(t) PROVE Held'
  BY <1>11 DEF StoreId
<1>12. ASSUME NEW t \in Threads, LoadLen(t) PROVE Held'
  BY <1>12 DEF LoadLen
<1>13. ASSUME NEW t \in Threads, StoreLen(t) PROVE Held'
  BY <1>13 DEF StoreLen
<1>14. ASSUME NEW t \in Threads, Link(t) PROVE Held'
  BY <1>14 DEF Link
<1>15. ASSUME NEW t \in Threads, Publish(t) PROVE Held'
  BY <1>15 DEF Publish
<1>16. ASSUME NEW t \in Threads, WalkPast(t) PROVE Held'
  BY <1>16 DEF WalkPast
<1>17. ASSUME NEW t \in Threads, WalkMatch(t) PROVE Held'
  BY <1>17 DEF WalkMatch
<1>18. ASSUME NEW t \in Threads, SwitchRefused(t) PROVE Held'
  BY <1>18 DEF SwitchRefused, ReleaseNew, Unlock
<1>19. ASSUME NEW t \in Threads, SaveOld(t) PROVE Held'
  BY <1>19 DEF SaveOld, Free
<1>20. ASSUME NEW t \in Threads, LoadNew(t) PROVE Held'
  BY <1>20 DEF LoadNew, ReleaseNew, Unlock
<1>21. ASSUME NEW t \in Threads, UnlockOld(t) PROVE Held'
  BY <1>21 DEF UnlockOld, Unlock
<1>22. ASSUME NEW t \in Threads, UnlockFls(t) PROVE Held'
  BY <1>22 DEF UnlockFls, Unlock
<1>23. ASSUME NEW t \in Threads, SyncDone(t) PROVE Held'
  BY <1>23 DEF SyncDone
<1> QED
  BY <1>1, <1>2, <1>3, <1>4, <1>5, <1>6, <1>7, <1>8, <1>9, <1>10, <1>11, <1>12, <1>13, <1>14, <1>15, <1>16, <1>17, <1>18, <1>19, <1>20, <1>21, <1>22, <1>23
     DEF Next, Call, Acquire, Kernel

\* Locks are taken and given back by the section they belong to.
LEMMA NextLocksInside == IInv /\ [Next]_vars => LocksInside'
<1> SUFFICES ASSUME IInv, [Next]_vars PROVE LocksInside'
  OBVIOUS
<1> USE SwitchAssumption
    DEF IInv, TypeInv, TypeOK, LocalsOK, RunnerOK, Held, LocksInside, CreatePcs, FlsPcs,
        Goto, procVars, attrVars, fiberVars, localVars
<1>1. CASE UNCHANGED vars
  BY <1>1 DEF vars
<1>2. ASSUME NEW t \in Threads, CallConvertAgain(t) PROVE LocksInside'
  BY <1>2 DEF CallConvertAgain
<1>3. ASSUME NEW t \in Threads, CallFls(t) PROVE LocksInside'
  <2>1. CASE pc' = [pc EXCEPT ![t] = "lockFls"]
    BY <1>3, <2>1 DEF CallFls
  <2>2. CASE pc' = [pc EXCEPT ![t] = "sync"]
    BY <1>3, <2>2 DEF CallFls
  <2> QED
    BY <1>3, <2>1, <2>2 DEF CallFls
<1>4. ASSUME NEW t \in Threads, NEW f \in Fibers, CallConvert(t, f) PROVE LocksInside'
  BY <1>4 DEF CallConvert, Allocate
<1>5. ASSUME NEW t \in Threads, NEW f \in Fibers, CallCreate(t, f) PROVE LocksInside'
  BY <1>5 DEF CallCreate, Allocate
<1>6. ASSUME NEW t \in Threads, NEW i \in Ids, CallSwitch(t, i) PROVE LocksInside'
  BY <1>6 DEF CallSwitch
<1>7. ASSUME NEW t \in Threads, LockOld(t) PROVE LocksInside'
  BY <1>7 DEF LockOld, Lock
<1>8. ASSUME NEW t \in Threads, LockNew(t) PROVE LocksInside'
  BY <1>8 DEF LockNew, Lock
<1>9. ASSUME NEW t \in Threads, LockFls(t) PROVE LocksInside'
  BY <1>9 DEF LockFls, Lock
<1>10. ASSUME NEW t \in Threads, LoadId(t) PROVE LocksInside'
  BY <1>10 DEF LoadId
<1>11. ASSUME NEW t \in Threads, StoreId(t) PROVE LocksInside'
  BY <1>11 DEF StoreId
<1>12. ASSUME NEW t \in Threads, LoadLen(t) PROVE LocksInside'
  BY <1>12 DEF LoadLen
<1>13. ASSUME NEW t \in Threads, StoreLen(t) PROVE LocksInside'
  BY <1>13 DEF StoreLen
<1>14. ASSUME NEW t \in Threads, Link(t) PROVE LocksInside'
  BY <1>14 DEF Link
<1>15. ASSUME NEW t \in Threads, Publish(t) PROVE LocksInside'
  BY <1>15 DEF Publish
<1>16. ASSUME NEW t \in Threads, WalkPast(t) PROVE LocksInside'
  BY <1>16 DEF WalkPast
<1>17. ASSUME NEW t \in Threads, WalkMatch(t) PROVE LocksInside'
  BY <1>17 DEF WalkMatch
<1>18. ASSUME NEW t \in Threads, SwitchRefused(t) PROVE LocksInside'
  BY <1>18 DEF SwitchRefused, ReleaseNew, Unlock
<1>19. ASSUME NEW t \in Threads, SaveOld(t) PROVE LocksInside'
  BY <1>19 DEF SaveOld, Free
<1>20. ASSUME NEW t \in Threads, LoadNew(t) PROVE LocksInside'
  BY <1>20 DEF LoadNew, ReleaseNew, Unlock
<1>21. ASSUME NEW t \in Threads, UnlockOld(t) PROVE LocksInside'
  BY <1>21 DEF UnlockOld, Unlock
<1>22. ASSUME NEW t \in Threads, UnlockFls(t) PROVE LocksInside'
  BY <1>22 DEF UnlockFls, Unlock
<1>23. ASSUME NEW t \in Threads, SyncDone(t) PROVE LocksInside'
  BY <1>23 DEF SyncDone
<1> QED
  BY <1>1, <1>2, <1>3, <1>4, <1>5, <1>6, <1>7, <1>8, <1>9, <1>10, <1>11, <1>12, <1>13, <1>14, <1>15, <1>16, <1>17, <1>18, <1>19, <1>20, <1>21, <1>22, <1>23
     DEF Next, Call, Acquire, Kernel

\* The invariant is inductive, and holds of every reachable state.
LEMMA Inductive == Spec => []IInv
<1>1. IInv /\ [Next]_vars => IInv'
  BY NextType, NextHeapRefs, NextPrivate, NextRunnerOK, NextMarked, NextHeld,
     NextLocksInside DEF IInv
<1> QED
  BY InitInv, <1>1, PTL DEF Spec

\* No fiber is ever run by two threads, for any number of threads and fibers
\* and even if creations race: of two threads that had the same runner one
\* would not be its mark, hence be between the halves of an exchange and hold
\* its lock, under which the mark is the holder's or nobody's.
THEOREM Exclusion == Spec => []Exclusive
<1>1. IInv => Exclusive
  <2> SUFFICES ASSUME IInv, NEW t \in Threads, NEW u \in Threads,
                      runner[t] = runner[u], runner[t] # NONE
               PROVE  t = u
    BY DEF Exclusive
  <2>1. CASE selected_thread[runner[t]] = t /\ selected_thread[runner[u]] = u
    BY <2>1
  <2>2. CASE pc[t] = "load" /\ runner[t] = old[t]
    <3>1. lock_fiber[old[t]] = t /\ selected_thread[old[t]] \in {t, NONE}
      BY <2>2 DEF IInv, Held
    <3>2. \/ selected_thread[old[t]] = u
          \/ pc[u] = "load" /\ old[u] = old[t]
      BY <2>2 DEF IInv, Marked
    <3>3. pc[u] = "load" => lock_fiber[old[u]] = u
      BY DEF IInv, Held
    <3> QED
      BY <3>1, <3>2, <3>3, SwitchAssumption
  <2>3. CASE pc[u] = "load" /\ runner[u] = old[u]
    BY <2>3, SwitchAssumption DEF IInv, Marked, Held
  <2> QED
    BY <2>1, <2>2, <2>3 DEF IInv, Marked
<1> QED
  BY Inductive, <1>1, PTL

\* No handler keeps a fiber's lock beyond the stretch that releases it.
THEOREM LockDiscipline == Spec => []LocksInside
<1>1. IInv => LocksInside
  BY DEF IInv
<1> QED
  BY Inductive, <1>1, PTL
-----------------------------------------------------------------------------
(* An orderly process: the theorems from here on suppose Orderly. *)
\* The hypothesis of every theorem below: creations that race lose fibers
\* (run switch_clash), and so do ids that are given twice.
Orderly == SerialCreate /\ IsFiniteSet(Fibers) /\ Cardinality(Fibers) <= MaxId + 1

Serial == \A t, u \in Threads : Creating(t) /\ Creating(u) => t = u

(* Ids.  The n-th fiber to be named gets id n, the last one perhaps 0; the  *)
(* age of a fiber is that n.                                                *)
NoIdYet(t) == pc[t] \in {"loadId", "storeId"}
HasId(t)   == pc[t] \in {"loadLen", "storeLen", "link", "publish"}
Named      == heap \ {new[t] : t \in {u \in Threads : NoIdYet(u)}}
Age(f)     == IF id[f] = 0 THEN MaxId + 1 ELSE id[f]

IdsOK ==
  /\ Cardinality(Named) <= MaxId => last_fib_id = Cardinality(Named)
  /\ \A f \in Named : Age(f) <= Cardinality(Named)
  /\ \A f, g \in Named : id[f] = id[g] => f = g
  /\ \A t \in Threads :
       /\ pc[t] = "storeId" => tmp[t] = last_fib_id
       /\ HasId(t) => Age(new[t]) = Cardinality(Named)

(* A chain leads from younger fibers to older ones, so that a walk comes to *)
(* each at most once.                                                       *)
ChainsOK ==
  \A f \in Fibers : next[f] # NONE => f \in Named /\ Age(next[f]) < Age(f)

(* What a switch has done so far: nothing, or one exchange, to the fiber it *)
(* was asked for, and then all that is left of the chain is older.          *)
Untouched(t) == runner[t] = old[t] /\ ret[t] = -1
Exchanged(t) == ret[t] = 0 /\ runner[t] # NONE /\ id[runner[t]] = want[t]
WalkOK(t) ==
  /\ pc[t] \notin SwitchPcs \cup {"sync"} => old[t] = NONE
  /\ pc[t] \notin SwitchPcs \cup {"sync"} => ret[t] = -1
  /\ pc[t] \in {"lockOld", "lockNew", "decide", "load"} => Untouched(t)
  /\ pc[t] \in {"lockNew", "decide", "load"} => id[new[t]] = want[t]
  /\ pc[t] = "walk" =>
       \/ Untouched(t)
       \/ Exchanged(t) /\ (new[t] # NONE => Age(new[t]) < Age(runner[t]))
  /\ pc[t] = "sync" /\ old[t] # NONE => Untouched(t) \/ Exchanged(t)
WalksOK == \A t \in Threads : WalkOK(t)

(* Marks and runners agree; before its conversion is linked a thread has    *)
(* neither.                                                                 *)
MarksOK ==
  /\ \A f \in Fibers : selected_thread[f] # NONE => runner[selected_thread[f]] = f
  /\ \A t \in Threads :
       /\ pc[t] = "load" => selected_thread[old[t]] = NONE
       /\ t \notin threads => runner[t] = NONE
       /\ Creating(t) /\ Converting(t) =>
            t \in threads /\ runner[t] = IF pc[t] = "publish" THEN new[t] ELSE NONE

(* A context is of the flow of its fiber, on a processor or saved.          *)
RunFlow(t) == cpu[t].flow = IF runner[t] = NONE THEN t ELSE entry_point[runner[t]]
Handing(t) == pc[t] = "load" => regs[old[t]] = cpu[t]
Starting(t) == Creating(t) /\ ~Converting(t) =>
  /\ regs[new[t]] = [flow |-> new[t], pos |-> 0]
  /\ entry_point[new[t]] = new[t] /\ runner[t] # new[t]
Idle(f) == \A t \in Threads : runner[t] # f
FlowsOK ==
  /\ \A t \in Threads : RunFlow(t) /\ Handing(t) /\ Starting(t)
  /\ \A f \in heap : Idle(f) => regs[f].flow = entry_point[f]

(* The names and the link of a fiber under creation, between their stores.  *)
Linked(f) ==
  \/ head[Bucket[id[f]]] = f
  \/ \E g \in Published : Bucket[id[g]] = Bucket[id[f]] /\ next[g] = f
Listed(f) == \E n \in names : n[1] < len /\ n[2] = id[f]
Entering(t) ==
  /\ pc[t] = "storeLen" => tmp[t] = len /\ <<len, id[new[t]]>> \in names
  /\ pc[t] \in {"link", "publish"} => Listed(new[t])
  /\ pc[t] = "publish" => next[new[t]] = head[Bucket[id[new[t]]]]
TableOK ==
  /\ \A f \in Published : Linked(f) /\ Listed(f)
  /\ \A t \in Threads : Entering(t)

SInv == IInv /\ Serial /\ IdsOK /\ ChainsOK /\ WalksOK /\ MarksOK /\ FlowsOK /\ TableOK
-----------------------------------------------------------------------------
\* The actions, by what they are about: a fiber under creation, or not.
Creation(t) ==
  \/ \E f \in Fibers : CallConvert(t, f) \/ CallCreate(t, f)
  \/ LoadId(t) \/ StoreId(t) \/ LoadLen(t) \/ StoreLen(t) \/ Link(t) \/ Publish(t)
Walking(t) ==
  \/ CallConvertAgain(t) \/ CallFls(t) \/ \E i \in Ids : CallSwitch(t, i)
  \/ LockOld(t) \/ LockNew(t) \/ LockFls(t)
  \/ WalkPast(t) \/ WalkMatch(t) \/ SwitchRefused(t) \/ SaveOld(t) \/ LoadNew(t)
  \/ UnlockOld(t) \/ UnlockFls(t) \/ SyncDone(t)

\* What a step of t that creates nothing leaves alone.
Elsewhere(t) ==
  /\ UNCHANGED <<threads, head, next, last_fib_id, names, len, heap, id,
                 creator, entry_point, tmp>>
  /\ ~Creating(t) /\ ~Creating(t)'
  /\ \A u \in Threads \ {t} : pc'[u] = pc[u] /\ new'[u] = new[u]

\* Every step is a step of one thread, of the one kind or of the other.
LEMMA StepKinds == [Next]_vars => UNCHANGED vars \/ \E t \in Threads : Creation(t) \/ Walking(t)
BY Zenon DEF Next, Call, Acquire, Kernel, Creation, Walking

LEMMA WalkingElsewhere == ASSUME TypeOK, NEW t \in Threads, Walking(t) PROVE Elsewhere(t)
<1> USE DEF TypeOK, Elsewhere, Creating, CreatePcs, Goto, procVars, attrVars, fiberVars, localVars
<1>1. CASE CallConvertAgain(t)
  BY <1>1 DEF CallConvertAgain
<1>2. CASE CallFls(t)
  <2>1. pc' = [pc EXCEPT ![t] = "lockFls"] \/ pc' = [pc EXCEPT ![t] = "sync"]
    BY <1>2 DEF CallFls
  <2> QED  BY <1>2, <2>1 DEF CallFls
<1>3. ASSUME NEW i \in Ids, CallSwitch(t, i) PROVE Elsewhere(t)
  <2>1. pc' = [pc EXCEPT ![t] = "lockOld"] \/ pc' = pc
    BY <1>3 DEF CallSwitch
  <2> QED  BY <1>3, <2>1 DEF CallSwitch
<1>4. CASE LockOld(t)
  BY <1>4 DEF LockOld
<1>5. CASE LockNew(t)
  BY <1>5 DEF LockNew
<1>6. CASE LockFls(t)
  BY <1>6 DEF LockFls
<1>7. CASE WalkPast(t)
  BY <1>7 DEF WalkPast
<1>8. CASE WalkMatch(t)
  BY <1>8 DEF WalkMatch
<1>9. CASE SwitchRefused(t)
  BY <1>9 DEF SwitchRefused, ReleaseNew
<1>10. CASE SaveOld(t)
  BY <1>10 DEF SaveOld
<1>11. CASE LoadNew(t)
  BY <1>11 DEF LoadNew, ReleaseNew
<1>12. CASE UnlockOld(t)
  BY <1>12 DEF UnlockOld
<1>13. CASE UnlockFls(t)
  BY <1>13 DEF UnlockFls
<1>14. CASE SyncDone(t)
  BY <1>14 DEF SyncDone
<1> QED
  BY <1>1, <1>2, <1>3, <1>4, <1>5, <1>6, <1>7, <1>8, <1>9, <1>10, <1>11, <1>12, <1>13, <1>14
     DEF Walking

\* Initially nothing is marked, created or under way.
LEMMA InitSInv == Orderly /\ Init => SInv
<1> SUFFICES ASSUME Orderly, Init PROVE SInv
  OBVIOUS
<1> USE SwitchAssumption
<1>1. IInv
  BY InitInv
<1>2. Serial /\ ChainsOK /\ MarksOK
  BY DEF Init, Serial, ChainsOK, MarksOK, Creating, CreatePcs
<1>7. FlowsOK
  BY DEF Init, FlowsOK, RunFlow, Handing, Starting, Creating, CreatePcs
<1>3. Named = {} /\ Cardinality({}) = 0
  BY FS_EmptySet DEF Init, Named
<1>4. IdsOK
  BY <1>3 DEF Init, IdsOK, HasId
<1>5. WalksOK
  BY DEF Init, WalksOK, WalkOK, SwitchPcs
<1>6. TableOK
  BY DEF Init, TableOK, Published, Entering
<1> QED
  BY <1>1, <1>2, <1>4, <1>5, <1>6, <1>7 DEF SInv

\* At most one creation is under way.
LEMMA NextSerial == Orderly /\ SInv /\ [Next]_vars => Serial'
<1> SUFFICES ASSUME Orderly, SInv, [Next]_vars PROVE Serial'
  OBVIOUS
<1> USE DEF Orderly, SInv, IInv, TypeInv, Serial, Creating
<1>1. CASE UNCHANGED vars
  BY <1>1 DEF vars, localVars
<1>2. ASSUME NEW t \in Threads, Walking(t) PROVE Serial'
  <2>1. Elsewhere(t)
    BY <1>2, WalkingElsewhere
  <2> QED  BY <2>1 DEF Elsewhere
<1>3. ASSUME NEW t \in Threads, Creation(t) PROVE Serial'
  <2> USE DEF TypeOK, CreatePcs, Goto
  <2>1. ASSUME NEW f \in Fibers, CallConvert(t, f) \/ CallCreate(t, f) PROVE Serial'
    BY <2>1 DEF CallConvert, CallCreate, Allocate
  <2>2. CASE LoadId(t) \/ StoreId(t) \/ LoadLen(t) \/ StoreLen(t) \/ Link(t) \/ Publish(t)
    BY <2>2 DEF LoadId, StoreId, LoadLen, StoreLen, Link, Publish
  <2> QED  BY <1>3, <2>1, <2>2 DEF Creation
<1> QED  BY <1>1, <1>2, <1>3, StepKinds
-----------------------------------------------------------------------------
\* How many fibers have an id, and that one more can be given while a
\* creation has not got its own yet.
LEMMA NamedSize ==
  ASSUME Orderly, TypeOK
  PROVE  /\ IsFiniteSet(Named) /\ Cardinality(Named) \in 0..(MaxId + 1)
         /\ \A f \in Fibers : f \notin Named => Cardinality(Named) <= MaxId
<1> USE SwitchAssumption DEF Orderly
<1>1. Named \subseteq Fibers
  BY DEF TypeOK, Named
<1>2. IsFiniteSet(Named) /\ Cardinality(Named) <= Cardinality(Fibers)
  BY <1>1, FS_Subset
<1>3. Cardinality(Named) \in Nat /\ Cardinality(Fibers) \in Nat
  BY <1>2, FS_CardinalityType
<1>4. ASSUME NEW f \in Fibers, f \notin Named PROVE Cardinality(Named) <= MaxId
  <2>1. Named # Fibers
    BY <1>4
  <2>2. Cardinality(Named) # Cardinality(Fibers)
    BY <1>1, <2>1, FS_Subset
  <2> QED  BY <1>2, <1>3, <2>2
<1> QED  BY <1>2, <1>3, <1>4

\* The ids in use, where a step gives none and its creations get on.
LEMMA IdsStable ==
  ASSUME IdsOK, UNCHANGED <<last_fib_id, id>>, Named' = Named,
         \A t \in Threads : pc'[t] = "storeId" => tmp'[t] = last_fib_id,
         \A t \in Threads : HasId(t)' => HasId(t) /\ new'[t] = new[t]
  PROVE  IdsOK'
BY DEF IdsOK, Age

\* Ids are given in turn, one to each fiber.
LEMMA NextIdsOK == Orderly /\ SInv /\ [Next]_vars => IdsOK'
<1> SUFFICES ASSUME Orderly, SInv, [Next]_vars PROVE IdsOK'
  OBVIOUS
<1> USE SwitchAssumption DEF SInv, IInv, TypeInv
<1>1. CASE UNCHANGED vars
  BY <1>1 DEF vars, procVars, attrVars, fiberVars, localVars, IdsOK, Named, NoIdYet, HasId, Age
<1>2. ASSUME NEW t \in Threads, Walking(t) PROVE IdsOK'
  <2>1. Elsewhere(t)
    BY <1>2, WalkingElsewhere
  <2>2. Named' = Named
    BY <2>1 DEF Elsewhere, Named, NoIdYet, Creating, CreatePcs
  <2>3. \A u \in Threads : HasId(u)' => HasId(u) /\ new'[u] = new[u]
    BY <2>1 DEF Elsewhere, HasId, Creating, CreatePcs
  <2>4. \A u \in Threads : pc'[u] = "storeId" => tmp'[u] = last_fib_id
    BY <2>1 DEF Elsewhere, Creating, CreatePcs, IdsOK
  <2> QED  BY <2>1, <2>2, <2>3, <2>4, IdsStable DEF Elsewhere
<1>3. ASSUME NEW t \in Threads, NEW f \in Fibers, CallConvert(t, f) \/ CallCreate(t, f)
      PROVE  IdsOK'
  <2>1. /\ f \notin heap /\ heap' = heap \cup {f} /\ UNCHANGED <<last_fib_id, id, tmp>>
        /\ new' = [new EXCEPT ![t] = f] /\ pc' = [pc EXCEPT ![t] = "loadId"]
        /\ \A u \in Threads : ~Creating(u)
    BY <1>3 DEF CallConvert, CallCreate, Allocate, Goto, Orderly
  <2>2. Named' = Named
    BY <2>1 DEF Named, NoIdYet, Creating, CreatePcs, TypeOK
  <2>3. \A u \in Threads : pc'[u] # "storeId" /\ ~HasId(u)'
    BY <2>1 DEF TypeOK, Creating, CreatePcs, HasId
  <2> QED  BY <2>1, <2>2, <2>3, IdsStable
<1>4. ASSUME NEW t \in Threads, LoadId(t) PROVE IdsOK'
  <2>1. /\ pc[t] = "loadId" /\ pc' = [pc EXCEPT ![t] = "storeId"]
        /\ tmp' = [tmp EXCEPT ![t] = last_fib_id] /\ UNCHANGED <<last_fib_id, id, heap, new>>
    BY <1>4 DEF LoadId, Goto, procVars, fiberVars, attrVars
  <2>2. Named' = Named
    BY <2>1 DEF Named, NoIdYet, TypeOK
  <2> QED  BY <2>1, <2>2, IdsStable DEF TypeOK, IdsOK, HasId
<1>5. ASSUME NEW t \in Threads, StoreId(t) PROVE IdsOK'
  <2> DEFINE n == Cardinality(Named)
  <2>1. /\ pc[t] = "storeId" /\ pc' = [pc EXCEPT ![t] = "loadLen"]
        /\ last_fib_id' = NextId(tmp[t]) /\ id' = [id EXCEPT ![new[t]] = NextId(tmp[t])]
        /\ UNCHANGED <<heap, new, tmp>>
    BY <1>5 DEF StoreId, Goto
  <2>2. new[t] \in Fibers /\ new[t] \in heap /\ new[t] \notin Named
    BY <2>1 DEF HeapRefs, LocalsOK, CreatePcs, Named, NoIdYet
  <2>3. \A u \in Threads \ {t} : ~Creating(u)
    BY <2>1 DEF Serial, Creating, CreatePcs
  <2>4. Named' = Named \cup {new[t]}
    BY <2>1, <2>2, <2>3 DEF Named, NoIdYet, Creating, CreatePcs, TypeOK
  <2>5. IsFiniteSet(Named) /\ n \in 0..MaxId
    BY <2>2, NamedSize
  <2>6. Cardinality(Named') = n + 1
    BY <2>2, <2>4, <2>5, FS_AddElement
  <2>7. tmp[t] = n
    BY <2>1, <2>5 DEF IdsOK
  <2>8. NextId(tmp[t]) = IF n = MaxId THEN 0 ELSE n + 1
    BY <2>7 DEF NextId
  <2>9. id'[new[t]] = NextId(tmp[t]) /\ Age(new[t])' = n + 1
    BY <2>1, <2>2, <2>5, <2>8 DEF Age, TypeOK
  <2>10. \A f \in Named : id'[f] = id[f] /\ Age(f)' = Age(f) /\ Age(f) <= n
    BY <2>1, <2>2 DEF Age, TypeOK, Named, IdsOK
  <2>11. \A f \in Named : id[f] # id'[new[t]]
    BY <2>5, <2>8, <2>9, <2>10 DEF Age, Ids, TypeOK
  <2>12. \A f, g \in Named' : id'[f] = id'[g] => f = g
    BY <2>4, <2>10, <2>11 DEF IdsOK
  <2>13. \A f \in Named' : Age(f)' <= Cardinality(Named')
    <3>1. \A f \in Named : Age(f) \in Nat
      BY DEF Age, Ids, TypeOK, Named
    <3>2. PICK g : g = new[t]
      OBVIOUS
    <3>3. Age(g)' = n + 1
      BY <2>1, <2>9, <3>2 DEF Age
    <3> QED  BY <2>4, <2>5, <2>6, <2>10, <3>1, <3>2, <3>3
  <2>14. \A u \in Threads : pc'[u] # "storeId" /\ (HasId(u)' => u = t)
    BY <2>1, <2>3 DEF Creating, CreatePcs, HasId, TypeOK
  <2>15. Cardinality(Named') <= MaxId => last_fib_id' = Cardinality(Named')
    BY <2>1, <2>5, <2>6, <2>8
  <2> QED  BY <2>1, <2>6, <2>9, <2>12, <2>13, <2>14, <2>15 DEF IdsOK
<1>6. ASSUME NEW t \in Threads, LoadLen(t) \/ StoreLen(t) \/ Link(t) \/ Publish(t) PROVE IdsOK'
  <2>1. /\ HasId(t) /\ (HasId(t)' \/ pc'[t] = "user")
        /\ ~NoIdYet(t) /\ ~NoIdYet(t)'
        /\ \A u \in Threads \ {t} : pc'[u] = pc[u] /\ new'[u] = new[u] /\ tmp'[u] = tmp[u]
        /\ HasId(t)' => HasId(t) /\ new'[t] = new[t]
        /\ UNCHANGED <<heap, id, last_fib_id>>
    BY <1>6 DEF LoadLen, StoreLen, Link, Publish, Goto, HasId, NoIdYet, fiberVars, attrVars, TypeOK
  <2>2. Named' = Named
    BY <2>1 DEF Named, NoIdYet
  <2> QED  BY <2>1, <2>2, IdsStable DEF IdsOK, NoIdYet, HasId
<1> QED
  BY <1>1, <1>2, <1>3, <1>4, <1>5, <1>6, StepKinds DEF Creation

\* A fiber is linked in front of the older ones of its bucket.
LEMMA NextChainsOK == Orderly /\ SInv /\ [Next]_vars => ChainsOK'
<1> SUFFICES ASSUME Orderly, SInv, [Next]_vars PROVE ChainsOK'
  OBVIOUS
<1> USE SwitchAssumption DEF SInv, IInv, TypeInv
<1>1. CASE UNCHANGED vars
  BY <1>1 DEF vars, procVars, attrVars, fiberVars, localVars, ChainsOK, Named, NoIdYet, Age
<1>2. ASSUME NEW t \in Threads, Walking(t) PROVE ChainsOK'
  <2>1. Elsewhere(t)
    BY <1>2, WalkingElsewhere
  <2>2. Named' = Named
    BY <2>1 DEF Elsewhere, Named, NoIdYet, Creating, CreatePcs
  <2> QED  BY <2>1, <2>2 DEF Elsewhere, ChainsOK, Age
<1>3. ASSUME NEW t \in Threads, NEW f \in Fibers, CallConvert(t, f) \/ CallCreate(t, f)
      PROVE  ChainsOK'
  <2>1. /\ f \notin heap /\ heap' = heap \cup {f} /\ UNCHANGED <<next, id>>
        /\ new' = [new EXCEPT ![t] = f] /\ pc' = [pc EXCEPT ![t] = "loadId"]
        /\ \A u \in Threads : ~Creating(u)
    BY <1>3 DEF CallConvert, CallCreate, Allocate, Goto, Orderly
  <2>2. Named' = Named
    BY <2>1 DEF Named, NoIdYet, Creating, CreatePcs, TypeOK
  <2> QED  BY <2>1, <2>2 DEF ChainsOK, Age
<1>4. ASSUME NEW t \in Threads, LoadId(t) PROVE ChainsOK'
  <2>1. /\ pc[t] = "loadId" /\ pc' = [pc EXCEPT ![t] = "storeId"]
        /\ UNCHANGED <<next, id, heap, new>>
    BY <1>4 DEF LoadId, Goto, procVars, fiberVars, attrVars
  <2>2. Named' = Named
    BY <2>1 DEF Named, NoIdYet, TypeOK
  <2> QED  BY <2>1, <2>2 DEF ChainsOK, Age
<1>5. ASSUME NEW t \in Threads, StoreId(t) PROVE ChainsOK'
  <2>1. /\ pc[t] = "storeId" /\ pc' = [pc EXCEPT ![t] = "loadLen"]
        /\ id' = [id EXCEPT ![new[t]] = NextId(tmp[t])]
        /\ UNCHANGED <<heap, new, next>>
    BY <1>5 DEF StoreId, Goto
  <2>2. new[t] \in Fibers /\ new[t] \notin Named /\ \A f \in Fibers : next[f] # new[t]
    BY <2>1 DEF HeapRefs, LocalsOK, CreatePcs, Named, NoIdYet, Private, Creating
  <2>3. Named \subseteq Named'
    BY <2>1 DEF Named, NoIdYet, TypeOK
  <2> QED  BY <2>1, <2>2, <2>3 DEF ChainsOK, Age, TypeOK
<1>6. ASSUME NEW t \in Threads, LoadLen(t) \/ StoreLen(t) \/ Publish(t) PROVE ChainsOK'
  <2>1. /\ ~NoIdYet(t) /\ ~NoIdYet(t)'
        /\ \A u \in Threads \ {t} : pc'[u] = pc[u] /\ new'[u] = new[u]
        /\ UNCHANGED <<heap, id, next>>
    BY <1>6 DEF LoadLen, StoreLen, Publish, Goto, NoIdYet, fiberVars, attrVars, TypeOK
  <2>2. Named' = Named
    BY <2>1 DEF Named, NoIdYet
  <2> QED  BY <2>1, <2>2 DEF ChainsOK, Age
<1>7. ASSUME NEW t \in Threads, Link(t) PROVE ChainsOK'
  <2> DEFINE h == head[Bucket[id[new[t]]]]
  <2>1. /\ pc[t] = "link" /\ pc' = [pc EXCEPT ![t] = "publish"]
        /\ next' = [next EXCEPT ![new[t]] = h] /\ UNCHANGED <<heap, id, new>>
    BY <1>7 DEF Link, Goto, attrVars
  <2>2. Named' = Named
    BY <2>1 DEF Named, NoIdYet, TypeOK
  <2>3. Named = heap
    BY <2>1 DEF Named, NoIdYet, Serial, Creating, CreatePcs
  <2>4. new[t] \in Fibers /\ new[t] \in Named
    BY <2>1, <2>3 DEF HeapRefs, LocalsOK, CreatePcs
  <2>5. Bucket[id[new[t]]] \in Buckets
    BY <2>4 DEF TypeOK, Ids
  <2>6. h # new[t] /\ h \in heap \cup {NONE}
    BY <2>1, <2>5 DEF Private, HeapRefs, Creating, CreatePcs
  <2>7. ASSUME h # NONE PROVE Age(h) < Age(new[t])
    <3>1. h \in Named /\ h \in Fibers
      BY <2>3, <2>6, <2>7 DEF TypeOK
    <3>2. Age(new[t]) = Cardinality(Named) /\ Age(h) <= Cardinality(Named)
      BY <2>1, <3>1 DEF IdsOK, HasId
    <3>3. id[h] # id[new[t]]
      BY <2>4, <2>6, <3>1 DEF IdsOK
    <3>4. id[h] \in 0..MaxId /\ id[new[t]] \in 0..MaxId
      BY <2>4, <3>1 DEF TypeOK, Ids
    <3> QED  BY <3>2, <3>3, <3>4 DEF Age
  <2>8. \A f \in Fibers : Age(f)' = Age(f) /\ next'[f] = IF f = new[t] THEN h ELSE next[f]
    BY <2>1 DEF Age, TypeOK
  <2>9. \A f \in Fibers : next[f] # NONE => next[f] \in Fibers
    BY DEF TypeOK
  <2>10. h # NONE => h \in Fibers
    BY <2>6 DEF TypeOK
  <2> HIDE DEF h
  <2> QED  BY <2>1, <2>2, <2>4, <2>7, <2>8, <2>9, <2>10 DEF ChainsOK, Age
<1> QED
  BY <1>1, <1>2, <1>3, <1>4, <1>5, <1>6, <1>7, StepKinds DEF Creation

\* What a step of t, whatever it is, leaves to another thread u.
LEMMA StepFrame ==
  ASSUME TypeOK, NEW t \in Threads, Creation(t) \/ Walking(t), NEW u \in Threads, u # t
  PROVE  /\ pc'[u] = pc[u] /\ old'[u] = old[u] /\ new'[u] = new[u] /\ cpu'[u] = cpu[u]
         /\ want'[u] = want[u] /\ ret'[u] = ret[u] /\ runner'[u] = runner[u]
         /\ \A f \in Fibers : id'[f] # id[f] => pc[t] = "storeId" /\ f = new[t]
<1> USE DEF TypeOK, Goto, procVars, attrVars, fiberVars, localVars
<1> DEFINE P == /\ pc'[u] = pc[u] /\ old'[u] = old[u] /\ new'[u] = new[u] /\ cpu'[u] = cpu[u]
                /\ want'[u] = want[u] /\ ret'[u] = ret[u] /\ runner'[u] = runner[u]
                /\ \A f \in Fibers : id'[f] # id[f] => pc[t] = "storeId" /\ f = new[t]
<1>1. ASSUME NEW f \in Fibers, CallConvert(t, f) \/ CallCreate(t, f) PROVE P
  BY <1>1 DEF CallConvert, CallCreate, Enter, Allocate
<1>2. CASE LoadId(t) \/ StoreId(t) \/ LoadLen(t) \/ StoreLen(t)
  BY <1>2 DEF LoadId, StoreId, LoadLen, StoreLen
<1>3. CASE Link(t)
  BY <1>3 DEF Link
<1>4. CASE Publish(t)
  BY <1>4 DEF Publish
<1>5. CASE CallConvertAgain(t) \/ CallFls(t)
  BY <1>5 DEF CallConvertAgain, CallFls, Enter
<1>6. ASSUME NEW i \in Ids, CallSwitch(t, i) PROVE P
  BY <1>6 DEF CallSwitch, Enter
<1>7. CASE LockOld(t) \/ LockNew(t) \/ LockFls(t)
  BY <1>7 DEF LockOld, LockNew, LockFls
<1>8. CASE WalkPast(t) \/ WalkMatch(t)
  BY <1>8 DEF WalkPast, WalkMatch
<1>9. CASE SwitchRefused(t) \/ SaveOld(t) \/ LoadNew(t)
  BY <1>9 DEF SwitchRefused, SaveOld, LoadNew, ReleaseNew
<1>10. CASE UnlockOld(t) \/ UnlockFls(t) \/ SyncDone(t)
  BY <1>10 DEF UnlockOld, UnlockFls, SyncDone
<1> QED
  BY <1>1, <1>2, <1>3, <1>4, <1>5, <1>6, <1>7, <1>8, <1>9, <1>10 DEF Creation, Walking

\* A switch exchanges once: what follows the fiber it found is older.
LEMMA NextWalksOK == Orderly /\ SInv /\ [Next]_vars => WalksOK'
<1> SUFFICES ASSUME Orderly, SInv, [Next]_vars PROVE WalksOK'
  OBVIOUS
<1> USE SwitchAssumption DEF SInv, IInv, TypeInv
<1>1. CASE UNCHANGED vars
  BY <1>1 DEF vars, attrVars, fiberVars, localVars, WalksOK, WalkOK, Untouched, Exchanged, Age
<1>2. ASSUME NEW t \in Threads, Creation(t) \/ Walking(t), NEW u \in Threads, u # t
      PROVE  WalkOK(u)'
  <2>1. /\ pc'[u] = pc[u] /\ old'[u] = old[u] /\ new'[u] = new[u]
        /\ want'[u] = want[u] /\ ret'[u] = ret[u] /\ runner'[u] = runner[u]
        /\ \A f \in Fibers : id'[f] # id[f] => pc[t] = "storeId" /\ f = new[t]
    BY <1>2, StepFrame
  <2>2. WalkOK(u)
    BY DEF WalksOK
  <2>3. pc[t] = "storeId" => new[u] # new[t] /\ runner[u] # new[t]
    BY <1>2 DEF Private, Creating, CreatePcs
  <2>4. new[u] # NONE => id'[new[u]] = id[new[u]]
    BY <2>1, <2>3 DEF TypeOK
  <2>5. runner[u] # NONE => id'[runner[u]] = id[runner[u]]
    BY <2>1, <2>3 DEF TypeOK
  <2>6. pc[u] \in {"walk", "lockNew", "decide", "load"} => new[u] = NONE \/ new[u] \in Fibers
    BY DEF TypeOK
  <2>7. pc[u] \in {"lockNew", "decide", "load"} => new[u] # NONE
    BY DEF LocalsOK, CreatePcs
  <2>8. Exchanged(u) /\ runner[u] # NONE => Exchanged(u)'
    BY <2>1, <2>5 DEF Exchanged
  <2> QED
    BY <2>1, <2>2, <2>4, <2>5, <2>7, <2>8 DEF WalkOK, Untouched, Exchanged, Age
<1>3. ASSUME NEW t \in Threads, Creation(t) PROVE WalkOK(t)'
  <2> USE DEF TypeOK, Goto, procVars, attrVars, fiberVars, localVars, CreatePcs
  <2>1. ~(pc'[t] \in SwitchPcs \cup {"sync"}) /\ old'[t] = NONE /\ ret'[t] = -1
    <3> USE DEF WalksOK, WalkOK, SwitchPcs
    <3>1. ASSUME NEW f \in Fibers, CallConvert(t, f) \/ CallCreate(t, f)
          PROVE  ~(pc'[t] \in SwitchPcs \cup {"sync"}) /\ old'[t] = NONE /\ ret'[t] = -1
      BY <3>1, ZenonT(60) DEF CallConvert, CallCreate, Allocate
    <3>2. CASE LoadId(t) \/ StoreId(t) \/ LoadLen(t) \/ StoreLen(t) \/ Link(t) \/ Publish(t)
      <4>1. /\ pc[t] \in CreatePcs /\ UNCHANGED <<old, ret>>
            /\ pc' = [pc EXCEPT ![t] = pc'[t]] /\ pc'[t] \in CreatePcs \cup {"user"}
        BY <3>2 DEF LoadId, StoreId, LoadLen, StoreLen, Link, Publish
      <4> QED  BY <4>1
    <3> QED  BY <1>3, <3>1, <3>2 DEF Creation
  <2> QED  BY <2>1 DEF WalkOK, SwitchPcs
<1>4. ASSUME NEW t \in Threads, Walking(t) PROVE WalkOK(t)'
  <2> USE DEF TypeOK, Goto, procVars, attrVars, fiberVars, localVars
  <2>1. WalkOK(t)
    BY DEF WalksOK
  <2>2. \A f \in Fibers : Age(f) \in Nat /\ (next[f] # NONE => Age(next[f]) < Age(f))
    BY DEF Age, Ids, ChainsOK
  <2> USE DEF WalkOK, SwitchPcs, Untouched
  <2>3. CASE CallConvertAgain(t) \/ LockFls(t) \/ UnlockFls(t)
    BY <2>1, <2>3 DEF CallConvertAgain, LockFls, UnlockFls
  <2>4. CASE CallFls(t)
    <3>1. pc' = [pc EXCEPT ![t] = "lockFls"] \/ pc' = [pc EXCEPT ![t] = "sync"]
      BY <2>4 DEF CallFls
    <3> QED  BY <2>1, <2>4, <3>1 DEF CallFls
  <2>5. ASSUME NEW i \in Ids, CallSwitch(t, i) PROVE WalkOK(t)'
    <3>1. CASE t \in threads
      BY <2>1, <2>5, <3>1 DEF CallSwitch
    <3>2. CASE t \notin threads
      BY <2>1, <2>5, <3>2 DEF CallSwitch
    <3> QED  BY <3>1, <3>2
  <2>6. CASE LockOld(t)
    BY <2>1, <2>6 DEF LockOld
  <2>7. CASE LockNew(t)
    BY <2>1, <2>7 DEF LockNew
  <2>8. CASE WalkPast(t)
    <3>1. /\ pc[t] = "walk" /\ new[t] \in Fibers /\ new' = [new EXCEPT ![t] = next[new[t]]]
          /\ UNCHANGED <<id, runner, ret, want, pc, old>>
      BY <2>8 DEF WalkPast
    <3>2. CASE Untouched(t)
      BY <3>1, <3>2
    <3>3. CASE Exchanged(t) /\ Age(new[t]) < Age(runner[t])
      <4>1. runner[t] \in Fibers
        BY <3>3 DEF Exchanged
      <4>2. PICK g \in Fibers \cup {NONE} : g = next[new[t]]
        BY <3>1
      <4>3. new'[t] = g /\ Age(new[t])' = Age(g) /\ Age(runner[t])' = Age(runner[t])
        BY <3>1, <4>2 DEF Age
      <4>4. g # NONE => Age(g) < Age(runner[t])
        BY <2>2, <3>1, <3>3, <4>1, <4>2
      <4> QED  BY <3>1, <3>3, <4>3, <4>4 DEF Exchanged
    <3> QED  BY <2>1, <3>1, <3>2, <3>3
  <2>9. CASE WalkMatch(t)
    <3>1. pc[t] = "walk" /\ new[t] \in Fibers /\ id[new[t]] = want[t]
      BY <2>9 DEF WalkMatch, Matches
    <3>2. Untouched(t)
      <4>1. ASSUME Exchanged(t) PROVE Age(new[t]) = Age(runner[t])
        BY <3>1, <4>1 DEF Exchanged, Age
      <4>2. Age(new[t]) \in Nat
        BY <2>2, <3>1
      <4> QED  BY <2>1, <3>1, <4>1, <4>2
    <3> QED  BY <2>9, <3>1, <3>2 DEF WalkMatch
  <2>10. CASE SwitchRefused(t)
    BY <2>1, <2>10 DEF SwitchRefused, ReleaseNew
  <2>11. CASE SaveOld(t)
    BY <2>1, <2>11 DEF SaveOld
  <2>12. CASE LoadNew(t)
    <3>1. /\ pc[t] = "load" /\ new[t] \in Fibers /\ new' = [new EXCEPT ![t] = next[new[t]]]
          /\ runner' = [runner EXCEPT ![t] = new[t]] /\ ret' = [ret EXCEPT ![t] = 0]
          /\ pc' = [pc EXCEPT ![t] = "walk"] /\ UNCHANGED <<id, want>>
      BY <2>12 DEF LoadNew, ReleaseNew, LocalsOK, CreatePcs
    <3>2. PICK g \in Fibers \cup {NONE}, f \in Fibers : g = next[new[t]] /\ f = new[t]
      BY <3>1
    <3>3. new'[t] = g /\ runner'[t] = f /\ Age(new[t])' = Age(g) /\ Age(runner[t])' = Age(f)
      BY <3>1, <3>2 DEF Age
    <3>4. g # NONE => Age(g) < Age(f)
      BY <2>2, <3>1, <3>2
    <3> QED  BY <2>1, <3>1, <3>2, <3>3, <3>4 DEF Exchanged
  <2>13. CASE UnlockOld(t)
    BY <2>1, <2>13 DEF UnlockOld, Exchanged
  <2>14. CASE SyncDone(t)
    BY <2>1, <2>14 DEF SyncDone
  <2> QED
    BY <1>4, <2>3, <2>4, <2>5, <2>6, <2>7, <2>8, <2>9, <2>10, <2>11, <2>12, <2>13, <2>14 DEF Walking
<1> QED
  BY <1>1, <1>2, <1>3, <1>4, StepKinds DEF WalksOK

\* A mark is set with the runner it names, and cleared before it moves on.
LEMMA NextMarksOK == Orderly /\ SInv /\ [Next]_vars => MarksOK'
<1> SUFFICES ASSUME Orderly, SInv, [Next]_vars PROVE MarksOK'
  OBVIOUS
<1> USE SwitchAssumption
    DEF SInv, IInv, TypeInv, TypeOK, LocalsOK, HeapRefs, Goto, Creating, CreatePcs,
        procVars, attrVars, fiberVars, localVars
<1>1. CASE UNCHANGED vars
  BY <1>1 DEF vars, MarksOK, Converting
<1>2. ASSUME NEW t \in Threads, NEW f \in Fibers, CallConvert(t, f) PROVE MarksOK'
  BY <1>2 DEF CallConvert, Allocate, MarksOK, Converting
<1>3. ASSUME NEW t \in Threads, NEW f \in Fibers, CallCreate(t, f) PROVE MarksOK'
  BY <1>3 DEF CallCreate, Allocate, MarksOK, Converting
<1>4. ASSUME NEW t \in Threads, LoadId(t) \/ StoreId(t) PROVE MarksOK'
  BY <1>4 DEF LoadId, StoreId, MarksOK, Converting
<1>5. ASSUME NEW t \in Threads, LoadLen(t) \/ StoreLen(t) PROVE MarksOK'
  BY <1>5 DEF LoadLen, StoreLen, MarksOK, Converting
<1>6. ASSUME NEW t \in Threads, Link(t) PROVE MarksOK'
  <2>1. CASE Converting(t)
    <3>1. /\ selected_thread' = [selected_thread EXCEPT ![new[t]] = t]
          /\ runner' = [runner EXCEPT ![t] = new[t]]
          /\ new[t] \in Fibers /\ runner[t] = NONE /\ t \in threads
      BY <1>6, <2>1 DEF Link, MarksOK
    <3>2. \A u \in Threads : pc[u] = "load" => old[u] # new[t]
      BY <1>6 DEF Link, Private
    <3> QED  BY <1>6, <2>1, <3>1, <3>2 DEF Link, MarksOK, Converting
  <2>2. CASE ~Converting(t)
    BY <1>6, <2>2 DEF Link, MarksOK, Converting
  <2> QED  BY <2>1, <2>2
<1>7. ASSUME NEW t \in Threads, Publish(t) PROVE MarksOK'
  BY <1>7 DEF Publish, MarksOK, Converting
<1>8. ASSUME NEW t \in Threads, SaveOld(t) PROVE MarksOK'
  BY <1>8 DEF SaveOld, MarksOK, Converting, Held
<1>9. ASSUME NEW t \in Threads, LoadNew(t) PROVE MarksOK'
  <2>1. /\ pc[t] = "load" /\ pc' = [pc EXCEPT ![t] = "walk"] /\ new[t] \in Fibers
        /\ selected_thread' = [selected_thread EXCEPT ![new[t]] = t]
        /\ runner' = [runner EXCEPT ![t] = new[t]] /\ UNCHANGED <<threads, old, entry_point>>
        /\ \A u \in Threads \ {t} : new'[u] = new[u]
    BY <1>9 DEF LoadNew, ReleaseNew
  <2>2. runner[t] = old[t] /\ old[t] \in Fibers /\ selected_thread[old[t]] = NONE
    BY <2>1 DEF WalksOK, WalkOK, Untouched, Held, MarksOK
  <2>3. \A u \in Threads \ {t} : pc[u] = "load" => old[u] # new[t]
    BY <2>1 DEF Held
  <2>4. t \in threads
    BY <2>2 DEF MarksOK
  <2>5. \A g \in Fibers : selected_thread[g] # t
    BY <2>2 DEF MarksOK
  <2> QED  BY <2>1, <2>2, <2>3, <2>4, <2>5 DEF MarksOK, Converting
<1>10. ASSUME NEW t \in Threads, Walking(t), ~SaveOld(t), ~LoadNew(t) PROVE MarksOK'
  <2>1. Elsewhere(t)
    BY <1>10, WalkingElsewhere
  <2>2. UNCHANGED <<selected_thread, runner>> /\ pc'[t] # "load"
    <3>1. ASSUME NEW i \in Ids, CallSwitch(t, i)
          PROVE  UNCHANGED <<selected_thread, runner>> /\ pc'[t] # "load"
      BY <3>1 DEF CallSwitch
    <3>2. CASE CallConvertAgain(t) \/ CallFls(t)
      BY <3>2 DEF CallConvertAgain, CallFls
    <3>3. CASE LockOld(t) \/ LockNew(t) \/ LockFls(t) \/ WalkPast(t) \/ WalkMatch(t)
      BY <3>3 DEF LockOld, LockNew, LockFls, WalkPast, WalkMatch
    <3>4. CASE SwitchRefused(t) \/ UnlockOld(t) \/ UnlockFls(t) \/ SyncDone(t)
      BY <3>4 DEF SwitchRefused, ReleaseNew, UnlockOld, UnlockFls, SyncDone
    <3> QED  BY <1>10, <3>1, <3>2, <3>3, <3>4 DEF Walking
  <2>3. \A u \in Threads \ {t} : old'[u] = old[u]
    BY <1>10, StepFrame
  <2>4. UNCHANGED <<threads, selected_thread, runner, entry_point>>
    BY <2>1, <2>2 DEF Elsewhere
  <2>5. \A u \in Threads : \/ pc'[u] = pc[u] /\ new'[u] = new[u] /\ old'[u] = old[u]
                          \/ pc'[u] \notin CreatePcs \cup {"load"}
    BY <2>1, <2>2, <2>3 DEF Elsewhere
  <2> QED  BY <2>4, <2>5 DEF MarksOK, Converting
<1> QED
  BY <1>1, <1>2, <1>3, <1>4, <1>5, <1>6, <1>7, <1>8, <1>9, <1>10, StepKinds DEF Creation

\* Entering a call changes no flow.
LEMMA EnterFlow ==
  ASSUME TypeOK, NEW t \in Threads, Enter(t)
  PROVE  /\ \A u \in Threads : cpu'[u].flow = cpu[u].flow
         /\ \A u \in Threads \ {t} : cpu'[u] = cpu[u]
BY DEF Enter, TypeOK, Contexts

\* Nobody runs the fiber that a switch is about to load.
LEMMA TargetUnrun ==
  ASSUME IInv, NEW t \in Threads, pc[t] \in {"decide", "load"}, Free(new[t])
  PROVE  new[t] \in Fibers /\ \A u \in Threads : runner[u] # new[t]
<1>1. /\ new[t] \in Fibers /\ selected_thread[new[t]] = NONE
      /\ lock_fiber[new[t]] = t /\ new[t] # old[t]
  BY DEF IInv, TypeInv, LocalsOK, Held, Free
<1>2. ASSUME NEW u \in Threads, runner[u] = new[t] PROVE FALSE
  <2>1. pc[u] = "load" /\ old[u] = new[t]
    BY <1>1, <1>2, SwitchAssumption DEF IInv, Marked
  <2>2. lock_fiber[new[t]] = u
    BY <2>1 DEF IInv, Held
  <2> QED  BY <1>1, <2>1, <2>2
<1> QED  BY <1>1, <1>2

\* A creation goes on as long as its fiber is left alone.
LEMMA StartingStable ==
  ASSUME NEW u \in Threads, Starting(u), Creating(u), UNCHANGED <<new[u], runner[u]>>,
         regs'[new[u]] = regs[new[u]], entry_point'[new[u]] = entry_point[new[u]]
  PROVE  Starting(u)'
BY DEF Starting, Converting

\* The flows, where no context moves and no fiber appears.
LEMMA FlowsStable ==
  ASSUME FlowsOK, UNCHANGED <<heap, regs, runner, entry_point>>,
         \A u \in Threads : cpu'[u].flow = cpu[u].flow,
         \A u \in Threads :
           \/ pc'[u] = pc[u] /\ new'[u] = new[u] /\ old'[u] = old[u] /\ cpu'[u] = cpu[u]
           \/ pc'[u] \in CreatePcs /\ Creating(u) /\ new'[u] = new[u]
           \/ pc'[u] \notin CreatePcs \cup {"load"}
  PROVE  FlowsOK'
<1>1. \A u \in Threads : RunFlow(u)'
  BY DEF FlowsOK, RunFlow
<1>2. \A u \in Threads : Handing(u)'
  BY DEF FlowsOK, Handing, CreatePcs
<1>3. \A u \in Threads : Starting(u)'
  BY DEF FlowsOK, Starting, Creating, Converting
<1>4. \A f \in heap' : Idle(f)' => regs'[f].flow = entry_point'[f]
  BY DEF FlowsOK, Idle
<1> QED  BY <1>1, <1>2, <1>3, <1>4 DEF FlowsOK

\* A switch moves contexts with the fibers they belong to.
LEMMA NextFlowsOK == Orderly /\ SInv /\ [Next]_vars => FlowsOK'
<1> SUFFICES ASSUME Orderly, SInv, [Next]_vars PROVE FlowsOK'
  OBVIOUS
<1> USE SwitchAssumption
    DEF SInv, IInv, TypeInv, TypeOK, LocalsOK, HeapRefs, Goto, Creating, CreatePcs,
        procVars, attrVars, fiberVars, localVars
<1>1. CASE UNCHANGED vars
  BY <1>1, FlowsStable DEF vars
<1>2. ASSUME NEW t \in Threads, NEW f \in Fibers, CallConvert(t, f) PROVE FlowsOK'
  <2>1. /\ \A u \in Threads : cpu'[u].flow = cpu[u].flow
        /\ \A u \in Threads \ {t} : cpu'[u] = cpu[u]
    BY <1>2, EnterFlow DEF CallConvert
  <2>2. cpu[t].flow = t
    BY <1>2 DEF CallConvert, MarksOK, FlowsOK, RunFlow
  <2>3. /\ pc' = [pc EXCEPT ![t] = "loadId"] /\ new' = [new EXCEPT ![t] = f]
        /\ entry_point' = [entry_point EXCEPT ![f] = t] /\ regs' = [regs EXCEPT ![f] = cpu'[t]]
        /\ f \notin heap /\ heap' = heap \cup {f} /\ UNCHANGED <<runner, old>>
    BY <1>2 DEF CallConvert, Allocate
  <2>4. \A u \in Threads : pc[u] = "load" => u # t /\ old[u] \in heap
    BY <1>2 DEF CallConvert, Held
  <2>5. regs'[f].flow = t /\ entry_point'[f] = t
    BY <2>1, <2>2, <2>3
  <2>6. \A g \in heap : regs'[g] = regs[g] /\ entry_point'[g] = entry_point[g]
    BY <2>3
  <2>7. \A u \in Threads : runner[u] = NONE \/ runner[u] \in heap
    OBVIOUS
  <2>8. \A u \in Threads \ {t} : Creating(u) => new[u] \in heap
    OBVIOUS
  <2>9. \A u \in Threads : RunFlow(u)'
    BY <2>1, <2>3, <2>4, <2>5, <2>6, <2>7, <2>8 DEF FlowsOK, RunFlow
  <2>10. \A u \in Threads : Handing(u)'
    BY <2>1, <2>3, <2>4, <2>5, <2>6, <2>7, <2>8 DEF FlowsOK, Handing
  <2>11. ASSUME NEW u \in Threads PROVE Starting(u)'
    <3>1. CASE u = t
      BY <3>1, <2>3, <2>5 DEF Starting, Converting
    <3>2. CASE u # t /\ Creating(u)
      <4>1. new[u] \in heap /\ new'[u] = new[u] /\ runner'[u] = runner[u]
        BY <3>2, <2>3, <2>8
      <4>2. regs'[new[u]] = regs[new[u]] /\ entry_point'[new[u]] = entry_point[new[u]]
        BY <4>1, <2>3, <2>6
      <4> QED  BY <3>2, <4>1, <4>2, StartingStable DEF FlowsOK
    <3>3. CASE u # t /\ ~Creating(u)
      BY <3>3, <2>3, <2>4, <2>5, <2>6, <2>7, <2>8 DEF Starting
    <3> QED  BY <3>1, <3>2, <3>3
  <2>12. \A g \in heap' : Idle(g)' => regs'[g].flow = entry_point'[g]
    BY <2>3, <2>4, <2>5, <2>6, <2>7, <2>8 DEF FlowsOK, Idle
  <2> QED
    BY <2>9, <2>10, <2>11, <2>12 DEF FlowsOK
<1>3. ASSUME NEW t \in Threads, NEW f \in Fibers, CallCreate(t, f) PROVE FlowsOK'
  <2>1. /\ \A u \in Threads : cpu'[u].flow = cpu[u].flow
        /\ \A u \in Threads \ {t} : cpu'[u] = cpu[u]
    BY <1>3, EnterFlow DEF CallCreate
  <2>2. /\ pc' = [pc EXCEPT ![t] = "loadId"] /\ new' = [new EXCEPT ![t] = f]
        /\ entry_point' = [entry_point EXCEPT ![f] = f]
        /\ regs' = [regs EXCEPT ![f] = [flow |-> f, pos |-> 0]]
        /\ f \notin heap /\ heap' = heap \cup {f} /\ UNCHANGED <<runner, old>>
    BY <1>3 DEF CallCreate, Allocate
  <2>3. \A u \in Threads : pc[u] = "load" => u # t /\ old[u] \in heap
    BY <1>3 DEF CallCreate, Held
  <2>4. regs'[f] = [flow |-> f, pos |-> 0] /\ entry_point'[f] = f
    BY <2>2
  <2>5. \A g \in heap : regs'[g] = regs[g] /\ entry_point'[g] = entry_point[g]
    BY <2>2
  <2>6. \A u \in Threads : runner[u] = NONE \/ runner[u] \in heap
    OBVIOUS
  <2>7. \A u \in Threads \ {t} : Creating(u) => new[u] \in heap
    OBVIOUS
  <2>9. \A u \in Threads : RunFlow(u)'
    BY <2>1, <2>2, <2>3, <2>4, <2>5, <2>6, <2>7 DEF FlowsOK, RunFlow
  <2>10. \A u \in Threads : Handing(u)'
    BY <2>1, <2>2, <2>3, <2>4, <2>5, <2>6, <2>7 DEF FlowsOK, Handing
  <2>11. ASSUME NEW u \in Threads PROVE Starting(u)'
    <3>1. CASE u = t
      BY <3>1, <2>2, <2>4, <2>6 DEF Starting, Converting
    <3>2. CASE u # t /\ Creating(u)
      <4>1. new[u] \in heap /\ new'[u] = new[u] /\ runner'[u] = runner[u]
        BY <3>2, <2>2, <2>7
      <4>2. regs'[new[u]] = regs[new[u]] /\ entry_point'[new[u]] = entry_point[new[u]]
        BY <4>1, <2>2, <2>5
      <4> QED  BY <3>2, <4>1, <4>2, StartingStable DEF FlowsOK
    <3>3. CASE u # t /\ ~Creating(u)
      BY <3>3, <2>2, <2>3, <2>4, <2>5, <2>6, <2>7 DEF Starting
    <3> QED  BY <3>1, <3>2, <3>3
  <2>12. \A g \in heap' : Idle(g)' => regs'[g].flow = entry_point'[g]
    BY <2>2, <2>3, <2>4, <2>5, <2>6, <2>7 DEF FlowsOK, Idle
  <2> QED
    BY <2>9, <2>10, <2>11, <2>12 DEF FlowsOK
<1>4. ASSUME NEW t \in Threads, LoadId(t) \/ StoreId(t) PROVE FlowsOK'
  BY <1>4, FlowsStable DEF LoadId, StoreId
<1>5. ASSUME NEW t \in Threads, LoadLen(t) \/ StoreLen(t) PROVE FlowsOK'
  BY <1>5, FlowsStable DEF LoadLen, StoreLen
<1>6. ASSUME NEW t \in Threads, Link(t) PROVE FlowsOK'
  <2>1. CASE Converting(t)
    <3>1. /\ pc[t] = "link" /\ pc' = [pc EXCEPT ![t] = "publish"]
          /\ runner' = [runner EXCEPT ![t] = new[t]] /\ runner[t] = NONE
          /\ new[t] \in Fibers /\ entry_point[new[t]] = t
          /\ UNCHANGED <<cpu, regs, entry_point, heap, new, old>>
      BY <1>6, <2>1 DEF Link, MarksOK, Converting
    <3>2. \A u \in Threads : RunFlow(u)'
      BY <3>1 DEF FlowsOK, RunFlow
    <3>3. \A u \in Threads : Handing(u)'
      BY <3>1 DEF FlowsOK, Handing
    <3>4. ASSUME NEW u \in Threads PROVE Starting(u)'
      <4>1. CASE u = t
        BY <3>1, <4>1 DEF Starting, Converting
      <4>2. CASE u # t /\ Creating(u)
        BY <3>1, <4>2, StartingStable DEF FlowsOK
      <4>3. CASE u # t /\ ~Creating(u)
        BY <3>1, <4>3 DEF Starting
      <4> QED  BY <4>1, <4>2, <4>3
    <3>5. \A g \in heap' : Idle(g)' => regs'[g].flow = entry_point'[g]
      BY <3>1 DEF FlowsOK, Idle
    <3> QED  BY <3>2, <3>3, <3>4, <3>5 DEF FlowsOK
  <2>2. CASE ~Converting(t)
    BY <1>6, <2>2, FlowsStable DEF Link
  <2> QED  BY <2>1, <2>2
<1>7. ASSUME NEW t \in Threads, Publish(t) PROVE FlowsOK'
  BY <1>7, FlowsStable DEF Publish
<1>8. ASSUME NEW t \in Threads, SaveOld(t) PROVE FlowsOK'
  <2>1. /\ pc[t] = "decide" /\ pc' = [pc EXCEPT ![t] = "load"]
        /\ regs' = [regs EXCEPT ![old[t]] = cpu[t]]
        /\ UNCHANGED <<cpu, runner, entry_point, heap, new, old>>
    BY <1>8 DEF SaveOld
  <2>2. old[t] \in Fibers /\ runner[t] = old[t]
    BY <2>1 DEF Held, WalksOK, WalkOK, Untouched
  <2>3. \A u \in Threads \ {t} : pc[u] = "load" => old[u] # old[t]
    BY <2>1 DEF Held
  <2>4. \A u \in Threads : Creating(u) => new[u] # old[t]
    BY DEF Private
  <2>5. \A u \in Threads : RunFlow(u)'
    BY <2>1 DEF FlowsOK, RunFlow
  <2>6. \A u \in Threads : Handing(u)'
    BY <2>1, <2>2, <2>3 DEF FlowsOK, Handing
  <2>7. \A u \in Threads : Starting(u)'
    BY <2>1, <2>4, ZenonT(60) DEF FlowsOK, Starting, Converting
  <2>8. \A f \in heap' : Idle(f)' => regs'[f].flow = entry_point'[f]
    BY <2>1, <2>2 DEF FlowsOK, Idle
  <2> QED  BY <2>5, <2>6, <2>7, <2>8 DEF FlowsOK
<1>9. ASSUME NEW t \in Threads, LoadNew(t) PROVE FlowsOK'
  <2>1. /\ pc[t] = "load" /\ pc' = [pc EXCEPT ![t] = "walk"]
        /\ cpu' = [cpu EXCEPT ![t] = regs[new[t]]]
        /\ runner' = [runner EXCEPT ![t] = new[t]] /\ UNCHANGED <<regs, old, entry_point, heap>>
        /\ \A u \in Threads \ {t} : new'[u] = new[u]
    BY <1>9 DEF LoadNew, ReleaseNew
  <2>2. runner[t] = old[t] /\ old[t] \in Fibers
    BY <2>1 DEF WalksOK, WalkOK, Untouched, Held
  <2>3. new[t] \in heap /\ \A u \in Threads : runner[u] # new[t]
    BY <2>1, TargetUnrun DEF Held, Free
  <2>4. regs[new[t]].flow = entry_point[new[t]]
    BY <2>3 DEF FlowsOK, Idle
  <2>5. regs[old[t]].flow = entry_point[old[t]]
    BY <2>1, <2>2, SMTT(40) DEF FlowsOK, Handing, RunFlow
  <2>6. \A u \in Threads \ {t} : Creating(u) => new[u] # new[t]
    BY <2>1, <2>3 DEF Private
  <2>7. new[t] \in Fibers
    BY <2>3
  <2>8. \A u \in Threads : RunFlow(u)'
    BY <2>1, <2>4, <2>7 DEF FlowsOK, RunFlow
  <2>9. \A u \in Threads : Handing(u)'
    BY <2>1 DEF FlowsOK, Handing
  <2>10. ASSUME NEW u \in Threads PROVE Starting(u)'
    <3>1. CASE u # t /\ Creating(u)
      BY <2>1, <3>1, StartingStable DEF FlowsOK
    <3>2. CASE u = t \/ ~Creating(u)
      BY <2>1, <3>2 DEF Starting
    <3> QED  BY <3>1, <3>2
  <2>11. \A f \in heap' : Idle(f)' => regs'[f].flow = entry_point'[f]
    BY <2>1, <2>2, <2>5 DEF FlowsOK, Idle
  <2> QED  BY <2>8, <2>9, <2>10, <2>11 DEF FlowsOK
<1>10. ASSUME NEW t \in Threads, Walking(t), ~SaveOld(t), ~LoadNew(t) PROVE FlowsOK'
  <2>1. Elsewhere(t)
    BY <1>10, WalkingElsewhere
  <2>2. /\ UNCHANGED <<regs, runner>> /\ pc'[t] # "load"
        /\ \A u \in Threads : cpu'[u].flow = cpu[u].flow
    <3>1. ASSUME NEW i \in Ids, CallSwitch(t, i)
          PROVE  UNCHANGED <<regs, runner>> /\ pc'[t] # "load" /\ Enter(t)
      BY <3>1 DEF CallSwitch
    <3>2. ASSUME CallConvertAgain(t) \/ CallFls(t)
          PROVE  UNCHANGED <<regs, runner>> /\ pc'[t] # "load" /\ Enter(t)
      BY <3>2 DEF CallConvertAgain, CallFls
    <3>3. CASE LockOld(t) \/ LockNew(t) \/ LockFls(t) \/ WalkPast(t) \/ WalkMatch(t)
      BY <3>3 DEF LockOld, LockNew, LockFls, WalkPast, WalkMatch
    <3>4. CASE SwitchRefused(t) \/ UnlockOld(t) \/ UnlockFls(t) \/ SyncDone(t)
      BY <3>4 DEF SwitchRefused, ReleaseNew, UnlockOld, UnlockFls, SyncDone
    <3> QED  BY <1>10, <3>1, <3>2, <3>3, <3>4, EnterFlow DEF Walking
  <2>3. \A u \in Threads \ {t} : old'[u] = old[u] /\ cpu'[u] = cpu[u]
    BY <1>10, StepFrame
  <2>4. UNCHANGED <<heap, regs, runner, entry_point>>
    BY <2>1, <2>2 DEF Elsewhere
  <2>5. \A u \in Threads : \/ pc'[u] = pc[u] /\ new'[u] = new[u] /\ old'[u] = old[u] /\ cpu'[u] = cpu[u]
                          \/ pc'[u] \notin CreatePcs \cup {"load"}
    BY <2>1, <2>2, <2>3 DEF Elsewhere
  <2> QED  BY <2>2, <2>4, <2>5, FlowsStable
<1> QED
  BY <1>1, <1>2, <1>3, <1>4, <1>5, <1>6, <1>7, <1>8, <1>9, <1>10, StepKinds DEF Creation

\* The fibers published, as long as creations do not get on.
LEMMA SamePublished ==
  ASSUME heap' = heap,
         \A u \in Threads : (Creating(u)' <=> Creating(u)) /\ (Creating(u) => new'[u] = new[u])
  PROVE  Published' = Published
<1>1. \A f : f \in Published <=> f \in heap /\ \A u \in Threads : Creating(u) => f # new[u]
  BY DEF Published
<1>2. \A f : f \in Published' <=> f \in heap' /\ \A u \in Threads : Creating(u)' => f # new'[u]
  BY DEF Published
<1> QED  BY <1>1, <1>2

\* Which fibers are published: a creation adds its own with its last store.
LEMMA NextPublished ==
  ASSUME SInv, SerialCreate, NEW t \in Threads, Creation(t) \/ Walking(t)
  PROVE  Published' = IF pc[t] = "publish" THEN Published \cup {new[t]} ELSE Published
<1> USE SwitchAssumption
    DEF SInv, IInv, TypeInv, TypeOK, LocalsOK, HeapRefs, Goto, Creating, CreatePcs, Published,
        procVars, attrVars, fiberVars, localVars
<1>1. CASE Walking(t)
  <2>1. Elsewhere(t)
    BY <1>1, WalkingElsewhere
  <2>2. \A u \in Threads : (Creating(u)' <=> Creating(u)) /\ (Creating(u) => new'[u] = new[u])
    BY <2>1 DEF Elsewhere
  <2>3. heap' = heap /\ pc[t] # "publish"
    BY <2>1 DEF Elsewhere
  <2> QED  BY <2>2, <2>3, SamePublished
<1>2. ASSUME NEW f \in Fibers, CallConvert(t, f) \/ CallCreate(t, f)
      PROVE  Published' = Published /\ pc[t] # "publish"
  BY <1>2 DEF CallConvert, CallCreate, Allocate
<1>3. CASE LoadId(t) \/ StoreId(t) \/ LoadLen(t) \/ StoreLen(t) \/ Link(t)
  <2>1. /\ UNCHANGED <<heap, new>> /\ pc[t] \in CreatePcs \ {"publish"}
        /\ pc'[t] \in CreatePcs /\ pc' = [pc EXCEPT ![t] = pc'[t]]
    BY <1>3 DEF LoadId, StoreId, LoadLen, StoreLen, Link
  <2> QED  BY <2>1
<1>4. CASE Publish(t)
  <2>1. \A u \in Threads \ {t} : ~Creating(u)
    BY <1>4 DEF Publish, Serial
  <2> QED  BY <1>4, <2>1 DEF Publish
<1> QED  BY <1>1, <1>2, <1>3, <1>4 DEF Creation

\* An entry of the table is complete before the fiber can be found.
LEMMA NextTableOK == Orderly /\ SInv /\ [Next]_vars => TableOK'
<1> SUFFICES ASSUME Orderly, SInv, [Next]_vars PROVE TableOK'
  OBVIOUS
<1> USE SwitchAssumption DEF Orderly, SInv, IInv, TypeInv
<1>1. CASE UNCHANGED vars
  BY <1>1 DEF vars, procVars, attrVars, fiberVars, localVars, TableOK, Published, Linked,
              Listed, Entering, Creating
<1>2. ASSUME NEW t \in Threads, Walking(t) PROVE TableOK'
  <2>1. Elsewhere(t)
    BY <1>2, WalkingElsewhere
  <2>2. Published' = Published
    BY <1>2, <2>1, NextPublished DEF Elsewhere, Creating, CreatePcs
  <2>3. \A f \in Published' : Linked(f)' /\ Listed(f)'
    BY <2>1, <2>2 DEF Elsewhere, TableOK, Linked, Listed
  <2>4. ASSUME NEW u \in Threads PROVE Entering(u)'
    <3>1. CASE u # t
      BY <2>1, <3>1 DEF Elsewhere, TableOK, Entering, Listed
    <3>2. CASE u = t
      BY <2>1, <3>2 DEF Elsewhere, Entering, Creating, CreatePcs
    <3> QED  BY <3>1, <3>2
  <2> QED  BY <2>3, <2>4 DEF TableOK
<1>3. ASSUME NEW t \in Threads, Creation(t), Entering(t)',
             \A f \in Published' : Linked(f)' /\ Listed(f)'
      PROVE  TableOK'
  <2>1. \A u \in Threads \ {t} : ~Creating(u)'
    <3>1. \A u \in Threads \ {t} : pc'[u] = pc[u]
      BY <1>3, StepFrame
    <3>2. (\A u \in Threads : ~Creating(u)) \/ Creating(t)
      BY <1>3 DEF Creation, CallConvert, CallCreate, Allocate, LoadId, StoreId, LoadLen, StoreLen,
                  Link, Publish, Creating, CreatePcs
    <3> QED  BY <3>1, <3>2 DEF Serial, Creating
  <2> QED  BY <1>3, <2>1 DEF TableOK, Entering, Creating, CreatePcs
<1>4. ASSUME NEW t \in Threads, NEW f \in Fibers, CallConvert(t, f) \/ CallCreate(t, f)
      PROVE  TableOK'
  <2>1. /\ UNCHANGED <<head, next, names, len, id>> /\ pc[t] = "user"
        /\ pc' = [pc EXCEPT ![t] = "loadId"]
    BY <1>4 DEF CallConvert, CallCreate, Allocate, Goto
  <2>2. Creation(t)
    BY <1>4 DEF Creation
  <2>3. Published' = Published
    BY <2>1, <2>2, NextPublished
  <2>4. \A g \in Published' : Linked(g)' /\ Listed(g)'
    BY <2>1, <2>3 DEF TableOK, Linked, Listed
  <2>5. Entering(t)'
    BY <2>1 DEF Entering, TypeOK
  <2> QED  BY <1>3, <2>2, <2>4, <2>5
<1>5. ASSUME NEW t \in Threads, LoadId(t) PROVE TableOK'
  <2>1. /\ UNCHANGED <<head, next, names, len, id>> /\ pc[t] = "loadId"
        /\ pc' = [pc EXCEPT ![t] = "storeId"]
    BY <1>5 DEF LoadId, Goto, procVars, fiberVars, attrVars
  <2>2. Creation(t) /\ Published' = Published
    BY <1>5, <2>1, NextPublished DEF Creation
  <2>3. \A g \in Published' : Linked(g)' /\ Listed(g)'
    BY <2>1, <2>2 DEF TableOK, Linked, Listed
  <2>4. Entering(t)'
    BY <2>1 DEF Entering, TypeOK
  <2> QED  BY <1>3, <2>2, <2>3, <2>4
<1>6. ASSUME NEW t \in Threads, StoreId(t) PROVE TableOK'
  <2>1. /\ UNCHANGED <<head, next, names, len>> /\ pc[t] = "storeId"
        /\ pc' = [pc EXCEPT ![t] = "loadLen"]
    BY <1>6 DEF StoreId, Goto
  <2>2. Creation(t) /\ Published' = Published
    BY <1>6, <2>1, NextPublished DEF Creation
  <2>3. \A g \in Published : id'[g] = id[g]
    <3>1. \A g \in Published : g # new[t] /\ g \in Fibers
      BY <2>1 DEF Published, Creating, CreatePcs, TypeOK
    <3> QED  BY <1>6, <3>1 DEF StoreId, TypeOK
  <2>4. \A g \in Published' : Linked(g)' /\ Listed(g)'
    BY <2>1, <2>2, <2>3 DEF TableOK, Linked, Listed
  <2>5. Entering(t)'
    BY <2>1 DEF Entering, TypeOK
  <2> QED  BY <1>3, <2>2, <2>4, <2>5
<1>7. ASSUME NEW t \in Threads, LoadLen(t) PROVE TableOK'
  <2>1. /\ UNCHANGED <<head, next, len, id, new>> /\ pc[t] = "loadLen"
        /\ pc' = [pc EXCEPT ![t] = "storeLen"] /\ tmp' = [tmp EXCEPT ![t] = len]
        /\ names' = {n \in names : n[1] # len} \cup {<<len, id[new[t]]>>}
    BY <1>7 DEF LoadLen, Goto, fiberVars, attrVars
  <2>2. Creation(t) /\ Published' = Published
    BY <1>7, <2>1, NextPublished DEF Creation
  <2>3. \A g \in Published' : Linked(g)'
    BY <2>1, <2>2 DEF TableOK, Linked
  <2>4. ASSUME NEW g \in Published PROVE Listed(g)'
    <3>1. PICK n \in names : n[1] < len /\ n[2] = id[g]
      BY DEF TableOK, Listed
    <3>2. n \in names'
      BY <2>1, <3>1 DEF TypeOK
    <3> QED  BY <2>1, <3>1, <3>2 DEF Listed
  <2>5. Entering(t)'
    BY <2>1 DEF Entering, TypeOK
  <2> QED  BY <1>3, <2>2, <2>3, <2>4, <2>5
<1>8. ASSUME NEW t \in Threads, StoreLen(t) PROVE TableOK'
  <2>1. /\ UNCHANGED <<head, next, names, id, new>> /\ pc[t] = "storeLen"
        /\ pc' = [pc EXCEPT ![t] = "link"] /\ len' = tmp[t] + 1
    BY <1>8 DEF StoreLen, Goto, fiberVars, attrVars
  <2>2. Creation(t) /\ Published' = Published
    BY <1>8, <2>1, NextPublished DEF Creation
  <2>3. tmp[t] = len /\ <<len, id[new[t]]>> \in names /\ len \in Nat
    BY <2>1 DEF TableOK, Entering, TypeOK
  <2>4. \A g \in Published' : Linked(g)'
    BY <2>1, <2>2 DEF TableOK, Linked
  <2>5. ASSUME NEW g \in Published PROVE Listed(g)'
    <3>1. PICK n \in names : n[1] < len /\ n[2] = id[g]
      BY DEF TableOK, Listed
    <3>2. n[1] \in Nat
      BY <3>1 DEF TypeOK
    <3> QED  BY <2>1, <2>3, <3>1, <3>2 DEF Listed
  <2>6. Entering(t)'
    <3>1. Listed(new[t])'
      BY <2>1, <2>3 DEF Listed
    <3> QED  BY <2>1, <3>1 DEF Entering, TypeOK
  <2> QED  BY <1>3, <2>2, <2>4, <2>5, <2>6
<1>9. ASSUME NEW t \in Threads, Link(t) PROVE TableOK'
  <2>1. /\ UNCHANGED <<head, names, len, id, new>> /\ pc[t] = "link"
        /\ pc' = [pc EXCEPT ![t] = "publish"] /\ new[t] \in Fibers
        /\ next' = [next EXCEPT ![new[t]] = head[Bucket[id[new[t]]]]]
    BY <1>9 DEF Link, Goto, attrVars, LocalsOK, CreatePcs
  <2>2. Creation(t) /\ Published' = Published
    BY <1>9, <2>1, NextPublished DEF Creation
  <2>3. \A g \in Published : next'[g] = next[g]
    BY <2>1 DEF Published, Creating, CreatePcs, TypeOK
  <2>4. \A g \in Published' : Linked(g)' /\ Listed(g)'
    BY <2>1, <2>2, <2>3 DEF TableOK, Linked, Listed
  <2>5. Entering(t)'
    BY <2>1, ZenonT(60) DEF TableOK, Entering, Listed, TypeOK
  <2> QED  BY <1>3, <2>2, <2>4, <2>5
<1>10. ASSUME NEW t \in Threads, Publish(t) PROVE TableOK'
  <2>1. /\ UNCHANGED <<next, names, len, id>> /\ pc[t] = "publish"
        /\ pc' = [pc EXCEPT ![t] = "user"] /\ new[t] \in Fibers
        /\ head' = [head EXCEPT ![Bucket[id[new[t]]]] = new[t]]
    BY <1>10 DEF Publish, Goto, fiberVars, attrVars, LocalsOK, CreatePcs
  <2>2. Creation(t) /\ Published' = Published \cup {new[t]}
    BY <1>10, <2>1, NextPublished DEF Creation
  <2>3. \A g \in Published' : g \in Fibers
    BY <2>1, <2>2 DEF Published, TypeOK
  <2>4. \A g \in Published' : Bucket[id[g]] \in Buckets
    BY <2>3 DEF TypeOK, Ids
  <2>6. PICK f : f = new[t]
    OBVIOUS
  <2>7. /\ head'[Bucket[id[f]]] = f /\ next[f] = head[Bucket[id[f]]]
        /\ \A b \in Buckets : b # Bucket[id[f]] => head'[b] = head[b]
    BY <2>1, <2>2, <2>4, <2>6 DEF TypeOK, TableOK, Entering
  <2>8. Linked(f)' /\ Listed(f)'
    BY <2>1, <2>6, <2>7 DEF Linked, Listed, TableOK, Entering
  <2>9. \A g \in Published : Linked(g)' /\ Listed(g)'
    BY <2>1, <2>2, <2>4, <2>6, <2>7 DEF TableOK, Linked, Listed
  <2>10. Entering(t)'
    BY <2>1 DEF Entering, TypeOK
  <2> QED  BY <1>3, <2>2, <2>6, <2>8, <2>9, <2>10
<1> QED
  BY <1>1, <1>2, <1>4, <1>5, <1>6, <1>7, <1>8, <1>9, <1>10, StepKinds DEF Creation

\* The invariant is inductive in an orderly process.
LEMMA SInductive == ASSUME Orderly PROVE Spec => []SInv
<1>1. Init => SInv
  BY InitSInv
<1>2. SInv /\ [Next]_vars => SInv'
  <2>1. IInv /\ [Next]_vars => IInv'
    BY NextType, NextHeapRefs, NextPrivate, NextRunnerOK, NextMarked, NextHeld,
       NextLocksInside DEF IInv
  <2> QED
    BY <2>1, NextSerial, NextIdsOK, NextChainsOK, NextWalksOK, NextMarksOK, NextFlowsOK,
       NextTableOK DEF SInv
<1> QED  BY <1>1, <1>2, PTL DEF Spec
-----------------------------------------------------------------------------
\* No fiber stays marked as running once its thread has moved on.
THEOREM MarksMeanRuns == ASSUME Orderly PROVE Spec => []MarkedIsRun
<1>1. SInv => MarkedIsRun
  BY DEF SInv, IInv, TypeInv, TypeOK, MarksOK, MarkedIsRun, Published
<1> QED  BY SInductive, <1>1, PTL

\* A thread in user mode runs the flow of the fiber it is recorded to run,
\* and the context of a fiber that nobody runs is of its own flow.
THEOREM FlowsKept == ASSUME Orderly PROVE Spec => []FlowIntegrity
<1>1. SInv => FlowIntegrity
  <2> SUFFICES ASSUME SInv PROVE FlowIntegrity
    OBVIOUS
  <2>1. RunsOwnFlow
    BY DEF SInv, IInv, TypeInv, TypeOK, RunnerOK, CreatePcs, FlowsOK, RunFlow, RunsOwnFlow
  <2>2. \A f \in Published : Idle(f) => regs[f].flow = entry_point[f]
    BY DEF SInv, FlowsOK, Published
  <2> QED  BY <2>1, <2>2 DEF FlowIntegrity, Idle
<1> QED  BY SInductive, <1>1, PTL

\* A switch returns 0 exactly when it has brought its caller to the fiber of
\* the id it asked for.
THEOREM ReportsTrue == ASSUME Orderly PROVE Spec => []SwitchReports
<1>1. SInv => SwitchReports
  BY DEF SInv, WalksOK, WalkOK, Untouched, Exchanged, SwitchReports
<1> QED  BY SInductive, <1>1, PTL

\* Published fibers have distinct ids, are in the bucket of their id, and
\* have their name among the valid ones.
THEOREM TableHolds == ASSUME Orderly PROVE Spec => []TableSound
<1>1. SInv => TableSound
  <2> SUFFICES ASSUME SInv PROVE TableSound
    OBVIOUS
  <2>1. Published \subseteq Named
    BY DEF Published, Named, NoIdYet, Creating, CreatePcs
  <2>2. \A f, g \in Published : id[f] = id[g] => f = g
    BY <2>1 DEF SInv, IdsOK
  <2> QED  BY <2>2 DEF SInv, TableOK, TableSound, Linked, Listed
<1> QED  BY SInductive, <1>1, PTL
-----------------------------------------------------------------------------
(* The abstract scheduler, seen point by point through the mapping.         *)
OnCpu(t) == IF pc[t] = "load" THEN regs[new[t]] ELSE cpu[t]
Kept     == Published \ {Runs(t) : t \in Threads}

\* The steps of the scheduler, for one thread and one fiber.
LEMMA MapStutter ==
  ASSUME Published' = Published,
         \A u \in Threads : Runs(u)' = Runs(u) /\ OnCpu(u)' = OnCpu(u),
         \A f \in Published : regs'[f] = regs[f] \/ \E u \in Threads : Runs(u) = f
  PROVE  UNCHANGED Scheduler!vars
<1>1. Kept' = Kept
  BY DEF Kept
<1>2. [f \in Kept |-> regs[f]]' = [f \in Kept |-> regs[f]]
  BY <1>1 DEF Kept
<1>3. [u \in Threads |-> OnCpu(u)]' = [u \in Threads |-> OnCpu(u)]
  OBVIOUS
<1>4. [u \in Threads |-> Runs(u)]' = [u \in Threads |-> Runs(u)]
  OBVIOUS
<1> QED  BY <1>2, <1>3, <1>4 DEF Scheduler!vars, Kept, OnCpu

LEMMA MapAdvance ==
  ASSUME NEW t \in Threads, Published' = Published,
         \A u \in Threads : Runs(u)' = Runs(u),
         \A u \in Threads \ {t} : OnCpu(u)' = OnCpu(u),
         OnCpu(t)' = [OnCpu(t) EXCEPT !.pos = Step(@)],
         \A f \in Published : regs'[f] = regs[f]
  PROVE  Scheduler!Advance(t)
<1>1. Kept' = Kept
  BY DEF Kept
<1>2. [f \in Kept |-> regs[f]]' = [f \in Kept |-> regs[f]]
  BY <1>1 DEF Kept
<1>3. [u \in Threads |-> OnCpu(u)]' = [[u \in Threads |-> OnCpu(u)] EXCEPT ![t] = OnCpu(t)']
  OBVIOUS
<1>4. [u \in Threads |-> Runs(u)]' = [u \in Threads |-> Runs(u)]
  OBVIOUS
<1>5. OnCpu(t)' = Scheduler!Resumed([u \in Threads |-> OnCpu(u)][t])
  BY DEF Scheduler!Resumed, Scheduler!Step, Step
<1> QED
  BY <1>2, <1>3, <1>4, <1>5 DEF Scheduler!Advance, Kept, OnCpu

LEMMA MapAdopt ==
  ASSUME NEW t \in Threads, NEW f \in Fibers, f \notin Published,
         Published' = Published \cup {f},
         Runs(t) = NONE, Runs(t)' = f, NONE \notin Published,
         \A u \in Threads \ {t} : Runs(u)' = Runs(u),
         \A u \in Threads : OnCpu(u)' = OnCpu(u),
         UNCHANGED regs
  PROVE  Scheduler!Adopt(t, f)
<1>1. Kept' = Kept
  BY DEF Kept
<1>2. [g \in Kept |-> regs[g]]' = [g \in Kept |-> regs[g]]
  BY <1>1
<1>3. [u \in Threads |-> OnCpu(u)]' = [u \in Threads |-> OnCpu(u)]
  OBVIOUS
<1>4. [u \in Threads |-> Runs(u)]' = [[u \in Threads |-> Runs(u)] EXCEPT ![t] = f]
  OBVIOUS
<1> QED  BY <1>2, <1>3, <1>4 DEF Scheduler!Adopt, Kept, OnCpu

LEMMA MapNewFiber ==
  ASSUME NEW f \in Fibers, f \notin Published,
         Published' = Published \cup {f}, regs[f] = [flow |-> f, pos |-> 0],
         \A u \in Threads : Runs(u)' = Runs(u) /\ OnCpu(u)' = OnCpu(u) /\ Runs(u) # f,
         UNCHANGED regs
  PROVE  Scheduler!NewFiber(f)
<1>1. Kept' = Kept \cup {f}
  BY DEF Kept
<1>2. [g \in Kept |-> regs[g]]' =
        [g \in Kept \cup {f} |-> IF g = f THEN [flow |-> f, pos |-> 0]
                                 ELSE [h \in Kept |-> regs[h]][g]]
  BY <1>1
<1>3. [u \in Threads |-> OnCpu(u)]' = [u \in Threads |-> OnCpu(u)]
  OBVIOUS
<1>4. [u \in Threads |-> Runs(u)]' = [u \in Threads |-> Runs(u)]
  OBVIOUS
<1> QED
  BY <1>2, <1>3, <1>4 DEF Scheduler!NewFiber, Scheduler!With, Kept, OnCpu

LEMMA MapSwitch ==
  ASSUME NEW t \in Threads, NEW f \in Fibers, NEW o \in Fibers, NONE \notin Fibers,
         Runs(t) = o, Runs(t)' = f, f \in Kept, o \in Published, Published' = Published,
         \A u \in Threads \ {t} : Runs(u)' = Runs(u) /\ OnCpu(u)' = OnCpu(u) /\ Runs(u) # o,
         OnCpu(t)' = regs[f], regs'[o] = OnCpu(t),
         \A g \in Published \ {o} : regs'[g] = regs[g]
  PROVE  Scheduler!SwitchTo(t, f)
<1>1. o # f /\ Kept' = (Kept \ {f}) \cup {o}
  BY DEF Kept
<1>2. [g \in Kept |-> regs[g]]' =
        [g \in (Kept \ {f}) \cup {o} |-> IF g = o THEN OnCpu(t)
                                         ELSE [h \in Kept |-> regs[h]][g]]
  BY <1>1 DEF Kept
<1>3. [u \in Threads |-> OnCpu(u)]' =
        [[u \in Threads |-> OnCpu(u)] EXCEPT ![t] = [h \in Kept |-> regs[h]][f]]
  OBVIOUS
<1>4. [u \in Threads |-> Runs(u)]' = [[u \in Threads |-> Runs(u)] EXCEPT ![t] = f]
  OBVIOUS
<1> QED
  BY <1>2, <1>3, <1>4 DEF Scheduler!SwitchTo, Scheduler!With, Kept, OnCpu

\* Contexts and flows of allocated fibers change only where one is saved.
LEMMA StepRegs ==
  ASSUME TypeOK, NEW t \in Threads, Creation(t) \/ Walking(t), NEW f \in heap
  PROVE  /\ entry_point'[f] = entry_point[f]
         /\ regs'[f] = regs[f] \/ (SaveOld(t) /\ f = old[t] /\ regs'[f] = cpu[t])
<1> USE DEF TypeOK, Goto, procVars, attrVars, fiberVars, localVars
<1> DEFINE P == /\ entry_point'[f] = entry_point[f]
                /\ regs'[f] = regs[f] \/ (SaveOld(t) /\ f = old[t] /\ regs'[f] = cpu[t])
<1>1. ASSUME NEW g \in Fibers, CallConvert(t, g) \/ CallCreate(t, g) PROVE P
  BY <1>1 DEF CallConvert, CallCreate, Allocate
<1>2. CASE LoadId(t) \/ StoreId(t) \/ LoadLen(t) \/ StoreLen(t) \/ Link(t) \/ Publish(t)
  BY <1>2 DEF LoadId, StoreId, LoadLen, StoreLen, Link, Publish
<1>3. CASE CallConvertAgain(t) \/ CallFls(t) \/ \E i \in Ids : CallSwitch(t, i)
  BY <1>3 DEF CallConvertAgain, CallFls, CallSwitch
<1>4. CASE LockOld(t) \/ LockNew(t) \/ LockFls(t) \/ WalkPast(t) \/ WalkMatch(t)
  BY <1>4 DEF LockOld, LockNew, LockFls, WalkPast, WalkMatch
<1>5. CASE SaveOld(t)
  BY <1>5 DEF SaveOld
<1>6. CASE SwitchRefused(t) \/ LoadNew(t) \/ UnlockOld(t) \/ UnlockFls(t) \/ SyncDone(t)
  BY <1>6 DEF SwitchRefused, LoadNew, ReleaseNew, UnlockOld, UnlockFls, SyncDone
<1> QED  BY <1>1, <1>2, <1>3, <1>4, <1>5, <1>6 DEF Creation, Walking

\* Seen by the scheduler, a step of t changes nothing for another thread.
LEMMA OthersMap ==
  ASSUME SInv, NEW t \in Threads, Creation(t) \/ Walking(t), NEW u \in Threads, u # t
  PROVE  Runs(u)' = Runs(u) /\ OnCpu(u)' = OnCpu(u)
<1> USE SwitchAssumption DEF SInv, IInv, TypeInv
<1>1. pc'[u] = pc[u] /\ new'[u] = new[u] /\ cpu'[u] = cpu[u] /\ runner'[u] = runner[u]
  BY StepFrame
<1>2. Creating(u) \/ pc[u] = "load" => new[u] \in heap
  BY DEF LocalsOK, HeapRefs, Creating
<1>3. Creating(u) => entry_point'[new[u]] = entry_point[new[u]]
  BY <1>2, StepRegs
<1>4. pc[u] = "load" => regs'[new[u]] = regs[new[u]]
  <2> SUFFICES ASSUME pc[u] = "load", SaveOld(t), new[u] = old[t] PROVE FALSE
    BY <1>2, StepRegs
  <2>1. lock_fiber[old[t]] = t /\ lock_fiber[new[u]] = u
    BY DEF SaveOld, Held
  <2> QED  BY <2>1
<1>5. Runs(u)' = Runs(u)
  BY <1>1, <1>3 DEF Runs, Creating, Converting
<1>6. OnCpu(u)' = OnCpu(u)
  BY <1>1, <1>4 DEF OnCpu
<1> QED  BY <1>5, <1>6

\* A step that moves no context and publishes nothing is not seen.
LEMMA QuietMap ==
  ASSUME Orderly, SInv, NEW t \in Threads, Creation(t) \/ Walking(t),
         pc[t] # "publish", ~SaveOld(t), Runs(t)' = Runs(t), OnCpu(t)' = OnCpu(t)
  PROVE  UNCHANGED Scheduler!vars
<1>1. Published' = Published
  BY NextPublished DEF Orderly
<1>2. \A u \in Threads : Runs(u)' = Runs(u) /\ OnCpu(u)' = OnCpu(u)
  BY OthersMap
<1>3. \A f \in Published : regs'[f] = regs[f]
  BY StepRegs DEF Published, SInv, IInv, TypeInv
<1> QED  BY <1>1, <1>2, <1>3, MapStutter

\* Entering a call advances the flow on its processor, and nothing else.
LEMMA CallMap ==
  ASSUME Orderly, SInv, NEW t \in Threads, Creation(t) \/ Walking(t),
         pc[t] = "user", Enter(t), pc'[t] # "load", Runs(t)' = Runs(t)
  PROVE  Scheduler!Advance(t)
<1> USE DEF SInv, IInv, TypeInv, TypeOK
<1>1. Published' = Published
  BY NextPublished DEF Orderly
<1>2. \A u \in Threads \ {t} : Runs(u)' = Runs(u) /\ OnCpu(u)' = OnCpu(u)
  BY OthersMap
<1>3. OnCpu(t)' = [OnCpu(t) EXCEPT !.pos = Step(@)]
  BY DEF OnCpu, Enter
<1>4. \A f \in Published : regs'[f] = regs[f]
  BY StepRegs DEF Published, SaveOld
<1> QED  BY <1>1, <1>2, <1>3, <1>4, MapAdvance

\* Every step of the kernel is a step of the scheduler, or none.
LEMMA StepMaps == Orderly /\ SInv /\ [Next]_vars => [Scheduler!Next]_(Scheduler!vars)
<1> SUFFICES ASSUME Orderly, SInv, [Next]_vars
             PROVE  Scheduler!Next \/ UNCHANGED Scheduler!vars
  BY DEF Scheduler!Next, Scheduler!vars
<1> USE SwitchAssumption DEF SInv, IInv, TypeInv, TypeOK, Goto,
        procVars, attrVars, fiberVars, localVars
<1> DEFINE Maps == Scheduler!Next \/ UNCHANGED Scheduler!vars
<1>1. CASE UNCHANGED vars
  BY <1>1 DEF vars, Scheduler!vars, Published, Runs, Creating, Converting
<1>2. ASSUME NEW t \in Threads, Scheduler!Advance(t) PROVE Maps
  BY <1>2 DEF Scheduler!Next
<1>3. ASSUME NEW t \in Threads, NEW f \in Fibers, CallConvert(t, f) PROVE Maps
  <2>1. /\ pc[t] = "user" /\ pc'[t] = "loadId" /\ Enter(t) /\ runner'[t] = runner[t]
        /\ new'[t] = f /\ entry_point'[f] = t /\ runner[t] = NONE
    BY <1>3 DEF CallConvert, Allocate, MarksOK
  <2>2. Runs(t)' = Runs(t)
    BY <2>1 DEF Runs, Creating, CreatePcs, Converting
  <2> QED  BY <1>2, <1>3, <2>1, <2>2, CallMap DEF Creation
<1>4. ASSUME NEW t \in Threads, NEW f \in Fibers, CallCreate(t, f) PROVE Maps
  <2>1. /\ pc[t] = "user" /\ pc'[t] = "loadId" /\ Enter(t) /\ runner'[t] = runner[t]
        /\ new'[t] = f /\ entry_point'[f] = f /\ f # t
    BY <1>4 DEF CallCreate, Allocate
  <2>2. Runs(t)' = Runs(t)
    BY <2>1 DEF Runs, Creating, CreatePcs, Converting
  <2> QED  BY <1>2, <1>4, <2>1, <2>2, CallMap DEF Creation
<1>5. ASSUME NEW t \in Threads, CallConvertAgain(t) \/ CallFls(t) PROVE Maps
  <2>1. pc[t] = "user" /\ Enter(t) /\ runner'[t] = runner[t] /\ ~Creating(t)' /\ pc'[t] # "load"
    BY <1>5 DEF CallConvertAgain, CallFls, Creating, CreatePcs
  <2>2. Runs(t)' = Runs(t)
    BY <2>1 DEF Runs, Creating, CreatePcs
  <2> QED  BY <1>2, <1>5, <2>1, <2>2, CallMap DEF Walking
<1>6. ASSUME NEW t \in Threads, NEW i \in Ids, CallSwitch(t, i) PROVE Maps
  <2>1. pc[t] = "user" /\ Enter(t) /\ runner'[t] = runner[t] /\ ~Creating(t)' /\ pc'[t] # "load"
    BY <1>6 DEF CallSwitch, Creating, CreatePcs
  <2>2. Runs(t)' = Runs(t)
    BY <2>1 DEF Runs, Creating, CreatePcs
  <2> QED  BY <1>2, <1>6, <2>1, <2>2, CallMap DEF Walking
<1>7. ASSUME NEW t \in Threads, LoadId(t) \/ StoreId(t) \/ LoadLen(t) \/ StoreLen(t) PROVE Maps
  <2>1. /\ pc[t] # "publish" /\ Creating(t) /\ Creating(t)' /\ pc'[t] # "load" /\ pc[t] # "load"
        /\ UNCHANGED <<new, cpu, runner, entry_point>> /\ pc[t] # "decide"
    BY <1>7 DEF LoadId, StoreId, LoadLen, StoreLen, Creating, CreatePcs
  <2>2. Runs(t)' = Runs(t) /\ OnCpu(t)' = OnCpu(t)
    BY <2>1 DEF Runs, OnCpu, Converting
  <2> QED  BY <1>7, <2>1, <2>2, QuietMap DEF Creation, SaveOld
<1>8. ASSUME NEW t \in Threads, Link(t) PROVE Maps
  <2>1. /\ pc[t] = "link" /\ Creating(t) /\ Creating(t)' /\ pc'[t] = "publish"
        /\ UNCHANGED <<new, cpu, entry_point>> /\ (~Converting(t) => runner' = runner)
    BY <1>8 DEF Link, Creating, CreatePcs
  <2>2. Runs(t)' = Runs(t) /\ OnCpu(t)' = OnCpu(t)
    BY <2>1 DEF Runs, OnCpu, Converting
  <2> QED  BY <1>8, <2>1, <2>2, QuietMap DEF Creation, SaveOld
<1>9. ASSUME NEW t \in Threads, Publish(t) PROVE Maps
  <2>1. PICK f \in Fibers : f = new[t]
    BY <1>9 DEF Publish, LocalsOK, CreatePcs
  <2>2. /\ pc[t] = "publish" /\ pc'[t] = "user" /\ UNCHANGED <<cpu, runner, regs, entry_point>>
        /\ Creating(t) /\ ~Creating(t)'
    BY <1>9 DEF Publish, Creating, CreatePcs
  <2>3. f \notin Published /\ NONE \notin Published /\ Published' = Published \cup {f}
    BY <1>9, <2>1, <2>2, NextPublished DEF Creation, Orderly, Published
  <2>4. \A u \in Threads \ {t} : Runs(u)' = Runs(u) /\ OnCpu(u)' = OnCpu(u)
    BY <1>9, OthersMap DEF Creation
  <2>5. OnCpu(t)' = OnCpu(t)
    BY <2>2 DEF OnCpu
  <2>6. CASE Converting(t)
    <3>1. runner[t] = f
      BY <2>1, <2>2, <2>6 DEF MarksOK
    <3>2. Runs(t) = NONE /\ Runs(t)' = f
      BY <2>2, <2>6, <3>1 DEF Runs
    <3>3. Scheduler!Adopt(t, f)
      BY <2>2, <2>3, <2>4, <2>5, <3>2, MapAdopt
    <3> QED  BY <3>3 DEF Scheduler!Next
  <2>7. CASE ~Converting(t)
    <3>1. Runs(t)' = Runs(t) /\ Runs(t) # f
      BY <2>1, <2>2, <2>7 DEF Runs, FlowsOK, Starting
    <3>2. regs[f] = [flow |-> f, pos |-> 0]
      BY <2>1, <2>2, <2>7 DEF FlowsOK, Starting
    <3>3. \A u \in Threads \ {t} : Runs(u) # f
      BY <2>1, <2>2 DEF Runs, Private
    <3>4. Scheduler!NewFiber(f)
      BY <2>2, <2>3, <2>4, <2>5, <3>1, <3>2, <3>3, MapNewFiber
    <3> QED  BY <3>4 DEF Scheduler!Next
  <2> QED  BY <2>6, <2>7
<1>10. ASSUME NEW t \in Threads, SaveOld(t) PROVE Maps
  <2>1. PICK o \in Fibers, f \in Fibers : o = old[t] /\ f = new[t]
    BY <1>10 DEF SaveOld, Held, LocalsOK
  <2>2. /\ pc[t] = "decide" /\ pc'[t] = "load" /\ UNCHANGED <<cpu, runner, new, entry_point>>
        /\ regs' = [regs EXCEPT ![o] = cpu[t]] /\ Free(f) /\ f # o /\ runner[t] = o
    BY <1>10, <2>1 DEF SaveOld, Held, WalksOK, WalkOK, Untouched
  <2>3. Walking(t) /\ Published' = Published
    BY <1>10, <2>2, NextPublished DEF Walking, Orderly
  <2>4. \A u \in Threads \ {t} : Runs(u)' = Runs(u) /\ OnCpu(u)' = OnCpu(u)
    BY <2>3, OthersMap
  <2>5. Runs(t) = o /\ Runs(t)' = f /\ OnCpu(t)' = regs[f] /\ OnCpu(t) = cpu[t]
    BY <2>1, <2>2 DEF Runs, OnCpu, Creating, CreatePcs
  <2>6. f \in Published /\ o \in Published
    BY <2>1, <2>2 DEF HeapRefs, Private, Published, Creating, CreatePcs
  <2>7. \A u \in Threads : runner[u] # f
    BY <2>1, <2>2, TargetUnrun
  <2>8. \A u \in Threads \ {t} : pc[u] = "load" => new[u] # f /\ new[u] # o
    BY <2>1, <2>2 DEF Held
  <2>9. \A u \in Threads \ {t} : runner[u] # o
    <3>1. lock_fiber[o] = t /\ selected_thread[o] \in {t, NONE}
      BY <2>1, <2>2 DEF Held
    <3>2. \A u \in Threads \ {t} : pc[u] = "load" => old[u] # o
      BY <2>1, <3>1 DEF Held
    <3>3. \A u \in Threads \ {t} : selected_thread[o] # u
      BY <3>1
    <3> QED  BY <3>2, <3>3, ZenonT(60) DEF Marked
  <2>10. f \in Kept
    BY <2>2, <2>5, <2>6, <2>7, <2>8 DEF Kept, Runs
  <2>11. \A u \in Threads \ {t} : Runs(u) # o
    BY <2>8, <2>9 DEF Runs
  <2>12. regs'[o] = cpu[t] /\ \A g \in Published \ {o} : regs'[g] = regs[g]
    BY <2>2 DEF Published
  <2>13. Scheduler!SwitchTo(t, f)
    <3>1. \A u \in Threads \ {t} : Runs(u)' = Runs(u) /\ OnCpu(u)' = OnCpu(u) /\ Runs(u) # o
      BY <2>4, <2>11
    <3>2. regs'[o] = OnCpu(t) /\ NONE \notin Fibers
      BY <2>5, <2>12
    <3> HIDE DEF SInv, IInv, TypeInv, TypeOK, Goto
    <3> QED  BY <2>3, <2>5, <2>6, <2>10, <2>12, <3>1, <3>2, MapSwitch
  <2> QED  BY <2>13 DEF Scheduler!Next
<1>11. ASSUME NEW t \in Threads, LoadNew(t) PROVE Maps
  <2>1. pc[t] = "load" /\ pc'[t] = "walk" /\ runner'[t] = new[t] /\ cpu'[t] = regs[new[t]]
    BY <1>11 DEF LoadNew, ReleaseNew
  <2>2. Runs(t)' = Runs(t) /\ OnCpu(t)' = OnCpu(t)
    BY <2>1 DEF Runs, OnCpu, Creating, CreatePcs
  <2> QED  BY <1>11, <2>1, <2>2, QuietMap DEF Walking, SaveOld
<1>12. ASSUME NEW t \in Threads, \/ LockOld(t) \/ LockNew(t) \/ LockFls(t) \/ WalkPast(t) \/ WalkMatch(t)
                                \/ SwitchRefused(t) \/ UnlockOld(t) \/ UnlockFls(t) \/ SyncDone(t)
       PROVE  Maps
  <2>1. /\ UNCHANGED <<runner, cpu>> /\ pc[t] # "load" /\ pc'[t] # "load" /\ ~SaveOld(t)
    BY <1>12 DEF LockOld, LockNew, LockFls, WalkPast, WalkMatch, SwitchRefused, ReleaseNew,
                 UnlockOld, UnlockFls, SyncDone, SaveOld
  <2>2. Walking(t) /\ ~Creating(t) /\ ~Creating(t)'
    BY <1>12, WalkingElsewhere DEF Walking, Elsewhere
  <2>3. Runs(t)' = Runs(t) /\ OnCpu(t)' = OnCpu(t)
    BY <2>1, <2>2 DEF Runs, OnCpu
  <2> QED  BY <2>1, <2>2, <2>3, QuietMap DEF Creating, CreatePcs
<1> QED
  BY <1>1, <1>3, <1>4, <1>5, <1>6, <1>7, <1>8, <1>9, <1>10, <1>11, <1>12, StepKinds DEF Creation, Walking

\* The kernel module implements the abstract scheduler in an orderly process:
\* publication is the creation of a fiber, and the store that saves the
\* caller's context is the whole exchange.
THEOREM Implements == ASSUME Orderly PROVE Spec => ImplementsScheduler
<1>1. Init => Scheduler!Init
  <2> SUFFICES ASSUME Init PROVE Scheduler!Init
    OBVIOUS
  <2>1. Published = {} /\ \A t \in Threads : Runs(t) = NONE /\ pc[t] # "load"
    BY DEF Init, Published, Runs, Creating, CreatePcs
  <2> QED  BY <2>1 DEF Init, Scheduler!Init
<1>2. SInv /\ [Next]_vars => [Scheduler!Next]_(Scheduler!vars)
  BY StepMaps
<1> QED
  BY <1>1, <1>2, SInductive, PTL DEF Spec, ImplementsScheduler, Scheduler!Spec

Abstract == INSTANCE FiberSchedulerProofs WITH
  fibers  <- Published,
  running <- [t \in Threads |-> Runs(t)],
  saved   <- [f \in Published \ {Runs(t) : t \in Threads} |-> regs[f]],
  cpu     <- [t \in Threads |-> IF pc[t] = "load" THEN regs[new[t]] ELSE cpu[t]]

\* The scheduler of the refinement is the one of the proofs about it.
LEMMA SameScheduler ==
  /\ Scheduler!Init => Abstract!Init
  /\ [Scheduler!Next]_(Scheduler!vars) => [Abstract!Next]_(Abstract!vars)
  /\ Abstract!OneHomePerFlow => Scheduler!OneHomePerFlow
<1>1. Scheduler!Init => Abstract!Init
  BY DEF Scheduler!Init, Abstract!Init
<1>2. \A t \in Threads : Scheduler!Advance(t) => Abstract!Advance(t)
  BY DEF Scheduler!Advance, Scheduler!Resumed, Scheduler!Step,
         Abstract!Advance, Abstract!Resumed, Abstract!Step
<1>3. ASSUME NEW t \in Threads, NEW f \in Fibers
      PROVE  /\ Scheduler!Adopt(t, f) => Abstract!Adopt(t, f)
             /\ Scheduler!SwitchTo(t, f) => Abstract!SwitchTo(t, f)
  BY DEF Scheduler!Adopt, Scheduler!SwitchTo, Scheduler!With,
         Abstract!Adopt, Abstract!SwitchTo, Abstract!With
<1>4. \A f \in Fibers : Scheduler!NewFiber(f) => Abstract!NewFiber(f)
  BY DEF Scheduler!NewFiber, Scheduler!With, Abstract!NewFiber, Abstract!With
<1>5. UNCHANGED Scheduler!vars => UNCHANGED Abstract!vars
  BY DEF Scheduler!vars, Abstract!vars
<1>6. Scheduler!Next => Abstract!Next
  BY <1>2, <1>3, <1>4 DEF Scheduler!Next, Abstract!Next
<1>7. Abstract!OneHomePerFlow => Scheduler!OneHomePerFlow
  BY DEF Abstract!OneHomePerFlow, Abstract!Homes, Abstract!FlowAt,
         Scheduler!OneHomePerFlow, Scheduler!Homes, Scheduler!FlowAt
<1> QED  BY <1>1, <1>5, <1>6, <1>7

\* Nor does the kernel module lose a flow of control, or run one twice.
THEOREM OneHomeKept == ASSUME Orderly PROVE Spec => []OneHomePerFlow
<1>1. Abstract!Names
  BY SwitchAssumption DEF Abstract!Names
<1>2. Init => Abstract!IInv
  <2> SUFFICES ASSUME Init PROVE Abstract!IInv
    OBVIOUS
  <2>1. Published = {} /\ \A t \in Threads : Runs(t) = NONE /\ pc[t] # "load"
    BY DEF Init, Published, Runs, Creating, CreatePcs
  <2>2. Scheduler!Init
    BY <2>1 DEF Init, Scheduler!Init
  <2> QED  BY <1>1, <2>2, SameScheduler, Abstract!InitInv
<1>3. SInv /\ Abstract!IInv /\ [Next]_vars => Abstract!IInv'
  BY <1>1, StepMaps, SameScheduler, Abstract!NextInv
<1>4. Abstract!IInv => OneHomePerFlow
  BY SameScheduler DEF OneHomePerFlow, Abstract!IInv
<1> QED
  BY <1>2, <1>3, <1>4, SInductive, PTL DEF Spec
=============================================================================
