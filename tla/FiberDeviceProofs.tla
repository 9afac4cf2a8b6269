-------------------------- MODULE FiberDeviceProofs --------------------------
(***************************************************************************)
(* What holds of FiberDevice for any processes, files and readers, however *)
(* the process ids hash: of the link counts of /proc, and of the chains as *)
(* long as no two updates of one of them have overlapped.                  *)
(***************************************************************************)
EXTENDS FiberDevice, FiniteSetTheorems, WellFoundedInduction, TLAPS
-----------------------------------------------------------------------------
(* The entries of /proc.  A probe at work knows its process, and one that  *)
(* splices its entry.                                                      *)
ProbesOK ==
  \A r \in Readers :
    LET w == probe[r] IN
    /\ w.at = "idle" => w = NoProbe
    /\ w.at # "idle" => w.pid \in Processes /\ w.kind # NONE
    /\ w.at = "splice" => w.node \in Files /\ new_tgid_base_stuff \in Arrays

\* The reads of p whose post handler may take a link back: each has added one.
Lent(p) == {r \in Readers : probe[r].kind = "readdir" /\ probe[r].pid = p /\ probe[r].dx # NONE}
LinksOK == \A p \in Processes : Cardinality(Lent(p)) <= nlink[p]

\* While no two probes have overlapped: one is at work, the table it has made is
\* the last one made, and the only link out is its own.
OneProbe ==
  \A r, s \in Readers :
    ( /\ probe[r].at # "idle" /\ probe[r].kind # "read"
      /\ probe[s].at # "idle" /\ probe[s].kind # "read" ) => r = s
OwnTable ==
  \A r \in Readers :
    LET w == probe[r] IN
    /\ w.kind = "read" => w.at = "walk" /\ w.dx = NONE
    /\ w.at = "splice" => w.dx = NONE
    /\ w.dx # NONE => w.dx = new_tgid_base_stuff
OwnLink == \A p \in Processes : nlink[p] = IF Lent(p) = {} THEN 0 ELSE 1
Alone == OneProbe /\ OwnTable /\ OwnLink

ProbeTypes ==
  /\ probe \in [Readers -> [at : {"idle", "walk", "splice"}, pid : Processes \cup {NONE},
                            kind : {"read", "readdir", "lookup", NONE}, node : Node,
                            dx : Arrays \cup {NONE}]]
  /\ new_tgid_base_stuff \in Arrays \cup {NONE}
  /\ nlink \in [Processes -> Nat]
  /\ disturbed \in BOOLEAN

ProcInv == ProbeTypes /\ ProbesOK /\ LinksOK /\ (~disturbed => Alone)

\* Adding a reader to a set of them, or taking one away.
LEMMA ReaderSets ==
  ASSUME NEW S \in SUBSET Readers
  PROVE  /\ IsFiniteSet(S) /\ Cardinality(S) \in Nat
         /\ \A r \in Readers : Cardinality(S \cup {r}) <= Cardinality(S) + 1
         /\ \A r \in S : Cardinality(S \ {r}) = Cardinality(S) - 1
         /\ \A T \in SUBSET S : Cardinality(T) <= Cardinality(S)
<1>1. IsFiniteSet(S)
  BY Names, FS_Subset
<1>2. Cardinality(S) \in Nat
  BY <1>1, FS_CardinalityType
<1>3. ASSUME NEW r \in Readers PROVE Cardinality(S \cup {r}) <= Cardinality(S) + 1
  <2>1. Cardinality(S \cup {r}) = IF r \in S THEN Cardinality(S) ELSE Cardinality(S) + 1
    BY <1>1, FS_AddElement
  <2> QED  BY <1>2, <2>1
<1>4. \A r \in S : Cardinality(S \ {r}) = Cardinality(S) - 1
  BY <1>1, FS_RemoveElement
<1>5. \A T \in SUBSET S : Cardinality(T) <= Cardinality(S)
  BY <1>1, FS_Subset
<1> QED  BY <1>1, <1>2, <1>3, <1>4, <1>5

\* There is always a table that nobody uses.
LEMMA UnusedExists == ProbeTypes => \E a \in Arrays : a \in Unused
<1> SUFFICES ASSUME ProbeTypes, Unused = {} PROVE FALSE
  BY DEF Unused
<1> DEFINE dxs == {probe[r].dx : r \in Readers}
           used == dxs \cup {new_tgid_base_stuff}
           n == Cardinality(Readers)
<1>1. n \in Nat
  BY Names, FS_CardinalityType
<1>2. IsFiniteSet(dxs) /\ Cardinality(dxs) <= n
  <2> DEFINE g == [r \in Readers |-> probe[r].dx]
  <2>1. g \in Surjection(Readers, dxs)
    BY DEF Surjection
  <2> QED  BY <2>1, Names, FS_Surjection
<1>3. IsFiniteSet(used) /\ Cardinality(used) <= n + 1
  <2> HIDE DEF dxs
  <2>1. Cardinality(dxs) \in Nat
    BY <1>2, FS_CardinalityType
  <2>2. /\ IsFiniteSet(used)
        /\ Cardinality(used) = IF new_tgid_base_stuff \in dxs THEN Cardinality(dxs) ELSE Cardinality(dxs) + 1
    BY <1>2, FS_AddElement
  <2> HIDE DEF used, n
  <2> QED  BY <1>1, <1>2, <2>1, <2>2
<1>4. Arrays \subseteq used
  BY DEF Unused
<1>5. Cardinality(Arrays) = n + 2
  BY <1>1, FS_Interval DEF Arrays
<1>6. Cardinality(Arrays) <= Cardinality(used) /\ Cardinality(used) \in Nat
  BY <1>3, <1>4, FS_Subset, FS_CardinalityType
<1> QED  BY <1>1, <1>3, <1>5, <1>6

LEMMA ProbeInv ==
  ASSUME ProcInv, processi \in [Buckets -> Node],
         NEW r \in Readers, NEW p \in Processes, NEW kind \in {"read", "readdir", "lookup"},
         Probe(r, kind, p)
  PROVE  ProcInv'
<1> USE Names
<1>1. probe[r] = NoProbe /\ UNCHANGED <<nlink, new_tgid_base_stuff>>
  BY DEF Probe
<1>2. /\ probe' \in [Readers -> [at : {"idle", "walk", "splice"}, pid : Processes \cup {NONE},
                            kind : {"read", "readdir", "lookup", NONE}, node : Node,
                            dx : Arrays \cup {NONE}]]
      /\ probe'[r].at = "walk" /\ probe'[r].kind = kind /\ probe'[r].pid = p /\ probe'[r].dx = NONE
      /\ \A s \in Readers : s # r => probe'[s] = probe[s]
  <2>1. processi[Bucket[p]] \in Node
    OBVIOUS
  <2> QED  BY <2>1 DEF Probe, ProcInv, ProbeTypes
<1>3. ProbeTypes'
  <2>1. disturbed' \in BOOLEAN
    BY DEF Probe
  <2> QED  BY <1>1, <1>2, <2>1 DEF ProcInv, ProbeTypes
<1>4. ProbesOK'
  BY <1>1, <1>2 DEF ProcInv, ProbesOK
<1>5. \A q \in Processes : Lent(q)' = Lent(q)
  BY <1>1, <1>2 DEF Lent, NoProbe
<1>6. LinksOK'
  BY <1>1, <1>5 DEF ProcInv, LinksOK
<1>7. ASSUME ~disturbed' PROVE Alone'
  <2>1. ~disturbed /\ (kind # "read" => \A s \in Readers : probe[s].at = "idle" \/ probe[s].kind = "read")
    BY <1>7 DEF Probe, Busy
  <2>2. Alone
    BY <2>1 DEF ProcInv
  <2>3. OneProbe'
    BY <1>2, <2>1, <2>2 DEF Alone, OneProbe
  <2>4. OwnLink'
    BY <1>1, <1>5, <2>2 DEF Alone, OwnLink
  <2>5. OwnTable'
    BY <1>1, <1>2, <2>2 DEF Alone, OwnTable
  <2> QED  BY <2>3, <2>4, <2>5 DEF Alone
<1> QED  BY <1>3, <1>4, <1>6, <1>7 DEF ProcInv

LEMMA ProbePassInv ==
  ASSUME ProcInv, next \in [Files -> Node], NEW r \in Readers, ProbePass(r)
  PROVE  ProcInv'
<1> USE Names
<1>1. /\ probe[r].at = "walk" /\ probe[r].node \in Files
      /\ UNCHANGED <<nlink, new_tgid_base_stuff, disturbed>>
  BY DEF ProbePass, ProcInv, ProbeTypes, Node
<1>2. /\ probe' = [probe EXCEPT ![r].node = next[probe[r].node]]
      /\ next[probe[r].node] \in Node
  BY <1>1 DEF ProbePass
<1>3. /\ ProbeTypes'
      /\ \A s \in Readers : /\ probe'[s].at = probe[s].at /\ probe'[s].kind = probe[s].kind
                            /\ probe'[s].pid = probe[s].pid /\ probe'[s].dx = probe[s].dx
                            /\ s # r => probe'[s] = probe[s]
  BY <1>1, <1>2 DEF ProcInv, ProbeTypes
<1>4. ProbesOK'
  BY <1>1, <1>3 DEF ProcInv, ProbesOK
<1>5. \A q \in Processes : Lent(q)' = Lent(q)
  BY <1>3 DEF Lent
<1>6. LinksOK' /\ (Alone => Alone')
  BY <1>1, <1>3, <1>5 DEF ProcInv, LinksOK, Alone, OneProbe, OwnTable, OwnLink
<1> QED  BY <1>1, <1>3, <1>4, <1>6 DEF ProcInv

LEMMA ProbeAllocInv == ASSUME ProcInv, NEW r \in Readers, ProbeAlloc(r) PROVE ProcInv'
<1> USE Names
<1>1. /\ probe[r].at = "walk" /\ probe[r].node \in Files /\ probe[r].kind # "read"
      /\ UNCHANGED nlink /\ disturbed' = (disturbed \/ probe[r].dx # NONE)
      /\ probe' = [probe EXCEPT ![r].at = "splice"]
  BY DEF ProbeAlloc, ProcInv, ProbeTypes, Node
<1>2. new_tgid_base_stuff' \in Arrays
  <2>1. PICK a \in Arrays : a \in Unused
    BY UnusedExists DEF ProcInv
  <2> QED  BY <2>1 DEF ProbeAlloc, Unused
<1>3. /\ ProbeTypes'
      /\ \A s \in Readers : /\ probe'[s].node = probe[s].node /\ probe'[s].kind = probe[s].kind
                            /\ probe'[s].pid = probe[s].pid /\ probe'[s].dx = probe[s].dx
                            /\ s # r => probe'[s] = probe[s]
      /\ probe'[r].at = "splice"
  BY <1>1, <1>2 DEF ProcInv, ProbeTypes
<1>4. ProbesOK'
  BY <1>1, <1>2, <1>3 DEF ProcInv, ProbesOK
<1>5. \A q \in Processes : Lent(q)' = Lent(q)
  BY <1>3 DEF Lent
<1>6. LinksOK'
  BY <1>1, <1>5 DEF ProcInv, LinksOK
<1>7. ASSUME ~disturbed' PROVE Alone'
  <2>1. Alone /\ probe[r].dx = NONE
    BY <1>1, <1>7 DEF ProcInv
  <2>2. \A s \in Readers : probe[s].dx = NONE
    <3>1. ASSUME NEW s \in Readers, s # r PROVE probe[s].at = "idle" \/ probe[s].kind = "read"
      BY <1>1, <2>1, <3>1 DEF Alone, OneProbe, OwnTable, OwnLink
    <3> QED  BY <2>1, <3>1 DEF Alone, OneProbe, OwnTable, OwnLink, ProcInv, ProbesOK, NoProbe
  <2> QED  BY <1>1, <1>3, <1>5, <2>1, <2>2 DEF Alone, OneProbe, OwnTable, OwnLink
<1> QED  BY <1>3, <1>4, <1>6, <1>7 DEF ProcInv

LEMMA ProbeSpliceInv ==
  ASSUME ProcInv, next \in [Files -> Node], NEW r \in Readers, ProbeSplice(r)
  PROVE  ProcInv'
<1> USE Names
<1> DEFINE p == probe[r].pid
<1>1. /\ probe[r].at = "splice" /\ probe[r].node \in Files /\ p \in Processes
      /\ probe[r].kind # NONE /\ new_tgid_base_stuff \in Arrays
      /\ UNCHANGED <<disturbed, new_tgid_base_stuff>>
      /\ nlink' = [nlink EXCEPT ![p] = IF probe[r].kind = "readdir" THEN @ + 1 ELSE @]
  BY DEF ProbeSplice, ProcInv, ProbesOK
<1>2. /\ probe' = [probe EXCEPT ![r] = [probe[r] EXCEPT !.at = "walk", !.node = next[probe[r].node],
                                             !.dx = new_tgid_base_stuff]]
      /\ next[probe[r].node] \in Node
  BY <1>1 DEF ProbeSplice, ProcInv, ProbeTypes
<1>3. /\ ProbeTypes'
      /\ \A s \in Readers : /\ probe'[s].kind = probe[s].kind /\ probe'[s].pid = probe[s].pid
                            /\ s # r => probe'[s] = probe[s]
      /\ probe'[r].at = "walk" /\ probe'[r].dx = new_tgid_base_stuff
  <2>1. /\ probe'[r] = [probe[r] EXCEPT !.at = "walk", !.node = next[probe[r].node],
                                       !.dx = new_tgid_base_stuff]
        /\ \A s \in Readers : s # r => probe'[s] = probe[s]
        /\ DOMAIN probe' = Readers /\ probe' = [s \in Readers |-> probe'[s]]
    BY <1>2 DEF ProcInv, ProbeTypes
  <2>2. probe[r] \in [at : {"idle", "walk", "splice"}, pid : Processes \cup {NONE},
                      kind : {"read", "readdir", "lookup", NONE}, node : Node,
                      dx : Arrays \cup {NONE}]
    BY DEF ProcInv, ProbeTypes
  <2>3. /\ probe'[r] \in [at : {"idle", "walk", "splice"}, pid : Processes \cup {NONE},
                         kind : {"read", "readdir", "lookup", NONE}, node : Node,
                         dx : Arrays \cup {NONE}]
        /\ probe'[r].kind = probe[r].kind /\ probe'[r].pid = probe[r].pid
        /\ probe'[r].at = "walk" /\ probe'[r].dx = new_tgid_base_stuff
    BY <1>1, <1>2, <2>1, <2>2
  <2>4. nlink' \in [Processes -> Nat]
    BY <1>1 DEF ProcInv, ProbeTypes
  <2>5. probe' \in [Readers -> [at : {"idle", "walk", "splice"}, pid : Processes \cup {NONE},
                            kind : {"read", "readdir", "lookup", NONE}, node : Node,
                            dx : Arrays \cup {NONE}]]
    BY <2>1, <2>3 DEF ProcInv, ProbeTypes
  <2>6. ProbeTypes'
    BY <1>1, <2>4, <2>5 DEF ProcInv, ProbeTypes
  <2> QED  BY <2>1, <2>3, <2>6
<1>4. ProbesOK'
  BY <1>1, <1>3 DEF ProcInv, ProbesOK
<1>5. \A q \in Processes : Lent(q)' \subseteq Lent(q) \cup IF q = p /\ probe[r].kind = "readdir" THEN {r} ELSE {}
  BY <1>3 DEF Lent
<1>6. \A q \in Processes : nlink'[q] = IF q = p /\ probe[r].kind = "readdir" THEN nlink[q] + 1 ELSE nlink[q]
  BY <1>1 DEF ProcInv, ProbeTypes
<1>7. ASSUME NEW q \in Processes PROVE Cardinality(Lent(q)') <= nlink'[q]
  <2>1. Lent(q) \in SUBSET Readers /\ Lent(q) \cup {r} \in SUBSET Readers
    BY DEF Lent
  <2>2. Cardinality(Lent(q)) <= nlink[q] /\ nlink[q] \in Nat
    BY DEF ProcInv, LinksOK, ProbeTypes
  <2>3. Cardinality(Lent(q)) \in Nat /\ Cardinality(Lent(q) \cup {r}) \in Nat
        /\ Cardinality(Lent(q) \cup {r}) <= Cardinality(Lent(q)) + 1
    BY <2>1, ReaderSets
  <2>4. CASE q = p /\ probe[r].kind = "readdir"
    <3>1. Lent(q)' \in SUBSET (Lent(q) \cup {r})
      BY <1>5, <2>4
    <3>2. Cardinality(Lent(q)') \in Nat /\ Cardinality(Lent(q)') <= Cardinality(Lent(q) \cup {r})
      BY <2>1, <3>1, ReaderSets
    <3> QED  BY <1>6, <2>2, <2>3, <2>4, <3>2
  <2>5. CASE ~(q = p /\ probe[r].kind = "readdir")
    <3>1. Lent(q)' \in SUBSET Lent(q)
      BY <1>5, <2>5
    <3>2. Cardinality(Lent(q)') \in Nat /\ Cardinality(Lent(q)') <= Cardinality(Lent(q))
      BY <2>1, <3>1, ReaderSets
    <3> QED  BY <1>6, <2>2, <2>3, <2>5, <3>2
  <2> QED  BY <2>4, <2>5
<1>8. ASSUME ~disturbed' PROVE Alone'
  <2>1. Alone /\ probe[r].dx = NONE /\ probe[r].kind # "read"
    BY <1>1, <1>8 DEF ProcInv, Alone, OneProbe, OwnTable, OwnLink
  <2>2. ASSUME NEW s \in Readers, s # r
        PROVE  (probe[s].at = "idle" \/ probe[s].kind = "read") /\ probe[s].dx = NONE
    <3>1. probe[s].at = "idle" \/ probe[s].kind = "read"
      BY <1>1, <2>1, <2>2 DEF Alone, OneProbe, OwnTable, OwnLink
    <3> QED  BY <2>1, <3>1 DEF Alone, OneProbe, OwnTable, OwnLink, ProcInv, ProbesOK, NoProbe
  <2>3. \A q \in Processes : Lent(q) = {}
    BY <2>1, <2>2 DEF Lent
  <2>4. new_tgid_base_stuff # NONE
    BY <1>1 DEF Arrays
  <2>5. \A q \in Processes : Lent(q)' = IF q = p /\ probe[r].kind = "readdir" THEN {r} ELSE {}
    BY <1>3, <2>2, <2>4 DEF Lent
  <2>6. \A q \in Processes : nlink'[q] = IF Lent(q)' = {} THEN 0 ELSE 1
    BY <1>6, <2>1, <2>3, <2>5 DEF Alone, OneProbe, OwnTable, OwnLink
  <2> QED  BY <1>1, <1>3, <2>1, <2>2, <2>6 DEF Alone, OneProbe, OwnTable, OwnLink
<1> QED  BY <1>1, <1>3, <1>4, <1>7, <1>8 DEF ProcInv, LinksOK

LEMMA ProbeEndInv == ASSUME ProcInv, NEW r \in Readers, ProbeEnd(r) PROVE ProcInv'
<1> USE Names
<1> DEFINE p == probe[r].pid
<1>1. /\ probe[r].at = "walk" /\ p \in Processes
      /\ UNCHANGED <<disturbed, new_tgid_base_stuff>>
      /\ nlink' = [nlink EXCEPT ![p] = IF Undoes(probe[r]) THEN @ - 1 ELSE @]
      /\ probe' = [probe EXCEPT ![r] = NoProbe]
  BY DEF ProbeEnd, ProcInv, ProbesOK
<1>2. NoProbe \in [at : {"idle", "walk", "splice"}, pid : Processes \cup {NONE},
                  kind : {"read", "readdir", "lookup", NONE}, node : Node,
                  dx : Arrays \cup {NONE}]
  BY DEF NoProbe, Node
<1>3. /\ probe' \in [Readers -> [at : {"idle", "walk", "splice"}, pid : Processes \cup {NONE},
                            kind : {"read", "readdir", "lookup", NONE}, node : Node,
                            dx : Arrays \cup {NONE}]]
      /\ probe'[r] = NoProbe
      /\ \A s \in Readers : s # r => probe'[s] = probe[s]
  BY <1>1, <1>2 DEF ProcInv, ProbeTypes
<1>4. ProbesOK'
  BY <1>1, <1>3 DEF ProcInv, ProbesOK, NoProbe
<1>5. \A q \in Processes :
        /\ Lent(q)' = Lent(q) \ {r}
        /\ r \in Lent(q) => q = p /\ probe[r].kind = "readdir" /\ probe[r].dx # NONE
        /\ r \notin Lent(q) => Lent(q)' = Lent(q)
  BY <1>3 DEF Lent, NoProbe
<1>6. /\ \A q \in Processes : nlink[q] \in Nat
      /\ DOMAIN nlink = Processes
      /\ \A q \in Processes : nlink'[q] = IF q = p /\ Undoes(probe[r]) THEN nlink[q] - 1 ELSE nlink[q]
  BY <1>1 DEF ProcInv, ProbeTypes
<1>7. Undoes(probe[r]) => r \in Lent(p)
  BY <1>1 DEF Undoes, Lent
<1>8. ASSUME NEW q \in Processes PROVE Cardinality(Lent(q)') <= nlink'[q] /\ nlink'[q] \in Nat
  <2>1. Lent(q) \in SUBSET Readers
    BY DEF Lent
  <2>2. Cardinality(Lent(q)) <= nlink[q]
    BY DEF ProcInv, LinksOK
  <2>3. Cardinality(Lent(q)) \in Nat
        /\ (r \in Lent(q) => Cardinality(Lent(q) \ {r}) = Cardinality(Lent(q)) - 1)
    BY <2>1, ReaderSets
  <2>4. /\ r \in Lent(q) => Cardinality(Lent(q)') = Cardinality(Lent(q)) - 1
        /\ r \notin Lent(q) => Cardinality(Lent(q)') = Cardinality(Lent(q))
    BY <1>5, <2>3
  <2>5. Undoes(probe[r]) /\ q = p => r \in Lent(q) /\ Cardinality(Lent(q)) >= 1
    <3>1. r \in Lent(q) => Cardinality(Lent(q) \ {r}) \in Nat
      <4>1. Lent(q) \ {r} \in SUBSET Readers
        BY <2>1
      <4> QED  BY <4>1, ReaderSets
    <3> QED  BY <1>7, <2>3, <3>1
  <2> QED  BY <1>6, <1>7, <2>2, <2>3, <2>4, <2>5
<1>9. ProbeTypes'
  <2>1. nlink' = [q \in Processes |-> nlink'[q]]
    BY <1>1, <1>6
  <2> QED  BY <1>1, <1>3, <1>8, <2>1 DEF ProcInv, ProbeTypes
<1>10. ASSUME ~disturbed' PROVE Alone'
  <2>1. Alone
    BY <1>1, <1>10 DEF ProcInv
  <2>2. probe[r].dx # NONE => probe[r].dx = new_tgid_base_stuff
    BY <2>1 DEF Alone, OneProbe, OwnTable, OwnLink
  <2>3. ASSUME NEW q \in Processes PROVE nlink'[q] = IF Lent(q)' = {} THEN 0 ELSE 1
    <3>1. CASE r \in Lent(q)
      <4>1. q = p /\ Undoes(probe[r])
        BY <1>5, <2>2, <3>1 DEF Undoes
      <4>2. ASSUME NEW s \in Lent(q) PROVE s = r
        <5>1. /\ s \in Readers /\ probe[s].kind = "readdir" /\ probe[r].kind = "readdir"
              /\ probe[s].dx # NONE
          BY <1>5, <3>1 DEF Lent
        <5>2. probe[s].at # "idle"
          BY <5>1 DEF ProcInv, ProbesOK, NoProbe
        <5> QED  BY <1>1, <2>1, <5>1, <5>2 DEF Alone, OneProbe, OwnTable, OwnLink
      <4>3. Lent(q)' = {} /\ nlink[q] = 1
        BY <1>5, <2>1, <3>1, <4>2 DEF Alone, OneProbe, OwnTable, OwnLink
      <4> QED  BY <1>6, <4>1, <4>3
    <3>2. CASE r \notin Lent(q)
      <4>1. Lent(q)' = Lent(q)
        BY <1>5, <3>2
      <4>2. ~(q = p /\ Undoes(probe[r]))
        BY <1>7, <3>2
      <4> QED  BY <1>6, <2>1, <4>1, <4>2 DEF Alone, OneProbe, OwnTable, OwnLink
    <3> QED  BY <3>1, <3>2
  <2>4. OneProbe'
    BY <1>3, <2>1 DEF Alone, OneProbe, NoProbe
  <2>5. OwnTable'
    BY <1>1, <1>3, <2>1 DEF Alone, OwnTable, NoProbe
  <2> QED  BY <2>3, <2>4, <2>5 DEF Alone, OwnLink
<1> QED  BY <1>4, <1>8, <1>9, <1>10 DEF ProcInv, LinksOK
-----------------------------------------------------------------------------
(* The types of the rest.  A release that frees has an entry to free.      *)
RestTypes ==
  /\ alive \in [Processes -> {"free", "alive", "closing", "dying"}]
  /\ users \in [Files -> SUBSET Processes] /\ fd \in [Processes -> Node]
  /\ call \in [Processes -> [file : Node, node : Node]]
  /\ release \in [Processes -> [at : {"idle", "walk", "free"}, bucket : Buckets,
                                node : Node, tmp : Node]]
  /\ processi \in [Buckets -> Node] /\ next \in [Files -> Node] /\ pprev \in [Files -> Node]
  /\ id \in [Files -> Processes \cup {NONE}]
  /\ mem \in [Files -> {"none", "new", "kept", "freed"}]
  /\ touched \in BOOLEAN /\ clashed \in BOOLEAN
  /\ inherited \subseteq Files
  /\ rare \in 0..MaxRare
Freeing == \A p \in Processes : release[p].at = "free" => release[p].node \in Files
RestInv == RestTypes /\ Freeing

LEMMA TypeParts == TypeOK <=> RestTypes /\ ProbeTypes
BY DEF TypeOK, RestTypes, ProbeTypes

First == [at |-> "walk", bucket |-> 0, node |-> processi[0], tmp |-> NONE]

LEMMA DroppedTypes ==
  ASSUME RestInv, NEW p \in Processes, NEW f, NEW us, NEW cs, Dropped(p, f, us, cs)
  PROVE  /\ release' \in [Processes -> [at : {"idle", "walk", "free"}, bucket : Buckets,
                                        node : Node, tmp : Node]]
         /\ Freeing'
<1>1. First \in [at : {"idle", "walk", "free"}, bucket : Buckets, node : Node, tmp : Node]
  <2>1. 0 \in Buckets
    BY Names DEF Buckets
  <2> QED  BY <2>1 DEF First, RestInv, RestTypes, Node
<1>2. release' = [release EXCEPT ![p] = First] \/ release' = release
  BY DEF Dropped, First
<1>3. First.at = "walk"
  BY DEF First
<1> HIDE DEF First
<1>4. CASE release' = release
  BY <1>4 DEF RestInv, RestTypes, Freeing
<1>5. CASE release' = [release EXCEPT ![p] = First]
  <2> DEFINE T == [at : {"idle", "walk", "free"}, bucket : Buckets, node : Node, tmp : Node]
  <2>1. release \in [Processes -> T] /\ First \in T
    BY <1>1 DEF RestInv, RestTypes
  <2> HIDE DEF T
  <2>2. release' \in [Processes -> T]
    BY <1>5, <2>1
  <2>3. Freeing'
    BY <1>3, <1>5, <2>1 DEF RestInv, Freeing
  <2> QED  BY <2>2, <2>3 DEF T
<1> QED  BY <1>2, <1>4, <1>5

LEMMA LifeTypes ==
  ASSUME RestInv, NEW p \in Processes,
         \/ close_fiberlib(p) \/ (\E q \in Processes : Fork(p, q)) \/ Exec(p) \/ Kill(p)
         \/ Exit(p) \/ Spawn(p)
  PROVE  RestInv'
<1> USE Names DEF RestInv, RestTypes
<1>1. Rare => rare' \in 0..MaxRare
  BY DEF Rare
<1>2. CASE close_fiberlib(p)
  <2>1. Freeing' /\ release' \in [Processes -> [at : {"idle", "walk", "free"}, bucket : Buckets,
                                                node : Node, tmp : Node]]
    <3>1. Dropped(p, fd[p], users'[fd[p]], call)
      BY <1>2 DEF close_fiberlib
    <3> QED  BY <3>1, DroppedTypes
  <2>2. /\ fd[p] \in Files
        /\ users' = [users EXCEPT ![fd[p]] = @ \ {p}] /\ fd' = [fd EXCEPT ![p] = NONE]
        /\ alive' = [alive EXCEPT ![p] = "closing"]
        /\ UNCHANGED <<inherited, rare, call, processi, next, pprev, id, mem, touched, clashed>>
    BY <1>2 DEF close_fiberlib, table, Node
  <2> QED  BY <2>1, <2>2 DEF Node
<1>3. ASSUME NEW q \in Processes, Fork(p, q) PROVE RestInv'
  BY <1>1, <1>3 DEF Fork, table, Freeing
<1>4. CASE Exec(p)
  BY <1>1, <1>4 DEF Exec, table, Freeing, Node
<1>5. CASE Kill(p)
  BY <1>5 DEF Kill, table, Freeing, Node
<1>6. CASE Exit(p)
  <2>1. UNCHANGED <<fd, inherited, rare, call, processi, next, pprev, id, mem, touched, clashed>>
    BY <1>6 DEF Exit, table
  <2>2. CASE UNCHANGED <<users, release>>
    BY <1>6, <2>1, <2>2 DEF Exit, Freeing
  <2>3. ASSUME NEW f \in Files, users' = [users EXCEPT ![f] = @ \ {p}],
               Dropped(p, f, users'[f], call), UNCHANGED alive
        PROVE  RestInv'
    <3>1. Freeing' /\ release' \in [Processes -> [at : {"idle", "walk", "free"}, bucket : Buckets,
                                                  node : Node, tmp : Node]]
      BY <2>3, DroppedTypes
    <3> QED  BY <2>1, <2>3, <3>1
  <2> QED  BY <1>6, <2>2, <2>3 DEF Exit
<1>7. CASE Spawn(p)
  BY <1>1, <1>7 DEF Spawn, table, Freeing
<1> QED  BY <1>2, <1>3, <1>4, <1>5, <1>6, <1>7

LEMMA HistoryTypes ==
  ASSUME RestInv, NEW p \in Processes, Stores(p)
  PROVE  clashed' \in BOOLEAN
BY DEF RestInv, RestTypes, Stores

LEMMA OpenTypes ==
  ASSUME RestInv, NEW p \in Processes, fib_open(p) \/ hash_add(p)
  PROVE  RestInv'
<1> USE Names DEF RestInv, RestTypes
<1>1. CASE fib_open(p)
  <2> DEFINE f == CHOOSE g \in Free : TRUE
  <2>1. f \in Files
    BY <1>1 DEF fib_open, Free
  <2>2. /\ mem' = [mem EXCEPT ![f] = "new"] /\ id' = [id EXCEPT ![f] = p]
        /\ next' = [next EXCEPT ![f] = processi[Bucket[p]]] /\ fd' = [fd EXCEPT ![p] = f]
        /\ UNCHANGED <<alive, users, inherited, rare, call, release, processi, pprev, touched, clashed>>
    BY <1>1 DEF fib_open
  <2>3. processi[Bucket[p]] \in Node
    OBVIOUS
  <2> HIDE DEF f
  <2> QED  BY <2>1, <2>2, <2>3 DEF Freeing, Node
<1>2. CASE hash_add(p)
  <2>1. fd[p] \in Files /\ Bucket[p] \in Buckets
    BY <1>2 DEF hash_add, Node
  <2>2. pprev' \in [Files -> Node]
    BY <1>2, <2>1 DEF hash_add, Node
  <2>3. clashed' \in BOOLEAN
    BY <1>2, HistoryTypes DEF hash_add
  <2> QED  BY <1>2, <2>1, <2>2, <2>3 DEF hash_add, Freeing, Node
<1> QED  BY <1>1, <1>2

LEMMA CallTypes ==
  ASSUME RestInv, NEW p \in Processes, fib_ioctl(p) \/ CallStep(p) \/ CallReturn(p)
  PROVE  RestInv'
<1> USE Names DEF RestInv, RestTypes
<1>1. CASE fib_ioctl(p)
  <2>1. processi[Bucket[p]] \in Node /\ fd[p] \in Node
    OBVIOUS
  <2> QED  BY <1>1, <2>1 DEF fib_ioctl, procs, table, Freeing
<1>2. CASE CallStep(p)
  <2>1. call[p].node \in Files
    BY <1>2 DEF CallStep, Node
  <2>2. call' = [call EXCEPT ![p].node = next[call[p].node]] /\ next[call[p].node] \in Node
    BY <1>2, <2>1 DEF CallStep
  <2>3. touched' \in BOOLEAN /\ clashed' \in BOOLEAN
    BY <1>2 DEF CallStep
  <2>4. call' \in [Processes -> [file : Node, node : Node]]
    <3>1. call \in [Processes -> [file : Node, node : Node]]
      OBVIOUS
    <3> QED  BY ONLY <2>2, <3>1
  <2>5. UNCHANGED <<alive, users, fd, inherited, rare, release, processi, next, pprev, id, mem>>
    BY <1>2 DEF CallStep, procs, table
  <2> QED  BY <2>3, <2>4, <2>5 DEF Freeing
<1>3. CASE CallReturn(p)
  <2>1. Freeing' /\ release' \in [Processes -> [at : {"idle", "walk", "free"}, bucket : Buckets,
                                                node : Node, tmp : Node]]
    <3>1. Dropped(p, call[p].file, users[call[p].file], call')
      BY <1>3 DEF CallReturn
    <3> QED  BY <3>1, DroppedTypes
  <2>2. NoCall \in [file : Node, node : Node]
    BY DEF NoCall, Node
  <2> QED  BY <1>3, <2>1, <2>2 DEF CallReturn, procs, table
<1> QED  BY <1>1, <1>2, <1>3

LEMMA ReleaseTypes ==
  ASSUME RestInv, NEW p \in Processes, ReleaseLook(p) \/ ReleaseFree(p) \/ ReleaseNext(p)
  PROVE  RestInv'
<1> USE Names DEF RestInv, RestTypes
<1> DEFINE w == release[p]
           T == [at : {"idle", "walk", "free"}, bucket : Buckets, node : Node, tmp : Node]
<1>1. w \in T /\ w.bucket \in Buckets /\ w.node \in Node /\ w.tmp \in Node
  OBVIOUS
<1>2. ASSUME NEW x \in T, release' = [release EXCEPT ![p] = x], x.at = "free" => x.node \in Files
      PROVE  release' \in [Processes -> T] /\ Freeing'
  BY <1>2 DEF Freeing
<1>3. CASE ReleaseLook(p)
  <2>1. w.node \in Files /\ next[w.node] \in Node
    BY <1>1, <1>3 DEF ReleaseLook, Node
  <2>2. [w EXCEPT !.at = "free", !.tmp = next[w.node]] \in T /\ [w EXCEPT !.node = next[w.node]] \in T
    BY <1>1, <2>1
  <2>3. /\ [w EXCEPT !.at = "free", !.tmp = next[w.node]].node \in Files
        /\ [w EXCEPT !.node = next[w.node]].at # "free"
    BY <1>1, <1>3, <2>1 DEF ReleaseLook
  <2>4. release' \in [Processes -> T] /\ Freeing'
    <3> HIDE DEF T
    <3> QED  BY <1>2, <1>3, <2>2, <2>3 DEF ReleaseLook
  <2> QED  BY <1>3, <2>4 DEF ReleaseLook, procs, table
<1>4. CASE ReleaseFree(p)
  <2> DEFINE n == w.node
  <2>1. n \in Files /\ next[n] \in Node /\ pprev[n] \in Node
    BY <1>4 DEF ReleaseFree, Freeing
  <2>2. [w EXCEPT !.at = "walk", !.node = w.tmp, !.tmp = NONE] \in T
    BY <1>1 DEF Node
  <2>3. release' \in [Processes -> T] /\ Freeing'
    <3>1. [w EXCEPT !.at = "walk", !.node = w.tmp, !.tmp = NONE].at = "walk"
      BY <1>1
    <3> HIDE DEF T
    <3> QED  BY <1>2, <1>4, <2>2, <3>1 DEF ReleaseFree
  <2>4. /\ processi' \in [Buckets -> Node] /\ next' \in [Files -> Node]
        /\ pprev' \in [Files -> Node] /\ mem' \in [Files -> {"none", "new", "kept", "freed"}]
    BY <1>4, <2>1 DEF ReleaseFree
  <2>5. clashed' \in BOOLEAN
    BY <1>4, HistoryTypes DEF ReleaseFree
  <2> QED  BY <1>4, <2>3, <2>4, <2>5 DEF ReleaseFree, procs
<1>5. CASE ReleaseNext(p)
  <2>1. w.bucket # Last => w.bucket + 1 \in Buckets /\ processi[w.bucket + 1] \in Node
    BY <1>1 DEF Buckets
  <2>2. NoRelease \in T /\ NoRelease.at = "idle"
    BY DEF NoRelease, Buckets, Node
  <2>3. w.bucket # Last =>
          /\ [w EXCEPT !.bucket = w.bucket + 1, !.node = processi[w.bucket + 1]] \in T
          /\ [w EXCEPT !.bucket = w.bucket + 1, !.node = processi[w.bucket + 1]].at = w.at
    BY <1>1, <2>1
  <2>4. release' \in [Processes -> T] /\ Freeing'
    <3> HIDE DEF T
    <3>1. w.at = "walk" /\ release' = [release EXCEPT ![p] =
            IF w.bucket = Last THEN NoRelease
            ELSE [w EXCEPT !.bucket = w.bucket + 1, !.node = processi[w.bucket + 1]]]
      BY <1>5 DEF ReleaseNext
    <3> QED  BY <1>2, <2>2, <2>3, <3>1
  <2> QED  BY <1>5, <2>4 DEF ReleaseNext, procs, table
<1> QED  BY <1>3, <1>4, <1>5

\* A step of a reader is a step of a probe, and of the history with it.
LEMMA ReaderTypes ==
  ASSUME RestInv, NEW r \in Readers,
         \/ Look(r)
         \/ \E p \in Processes, kind \in {"read", "readdir", "lookup"} : Probe(r, kind, p)
  PROVE  RestInv'
<1> USE Names DEF RestInv, RestTypes
<1>1. UNCHANGED <<alive, users, fd, inherited, call, release, table>>
  BY DEF Look, ProbePass, ProbeAlloc, ProbeSplice, ProbeEnd, Probe, procs, table
<1>2. rare' \in 0..MaxRare
  BY DEF Look, ProbePass, ProbeAlloc, ProbeSplice, ProbeEnd, Probe, procs, table
<1>3. UNCHANGED <<touched, clashed>>
  BY DEF Look, ProbePass, ProbeAlloc, ProbeSplice, ProbeEnd, Probe
<1> QED  BY <1>1, <1>2, <1>3 DEF table, Freeing

TypeInv == RestInv /\ ProcInv

LEMMA TypesInductive == TypeInv /\ [Next]_vars => TypeInv'
<1> SUFFICES ASSUME TypeInv, [Next]_vars PROVE TypeInv'
  OBVIOUS
<1> USE DEF TypeInv
<1>1. /\ processi \in [Buckets -> Node] /\ next \in [Files -> Node]
  BY DEF RestInv, RestTypes
<1>2. ASSUME NEW p \in Processes,
             \/ Act(p)
             \/ fib_open(p) \/ close_fiberlib(p) \/ fib_ioctl(p)
             \/ Exec(p) \/ Kill(p) \/ Spawn(p)
             \/ \E q \in Processes : Fork(p, q)
      PROVE  TypeInv'
  <2>1. RestInv'
    BY <1>2, LifeTypes, OpenTypes, CallTypes, ReleaseTypes DEF Act
  <2>2. UNCHANGED proc_fs
    BY <1>2 DEF Act, fib_open, hash_add, close_fiberlib, Fork, Exec, Kill, Exit, Spawn, ReleaseLook,
                ReleaseFree, ReleaseNext, fib_ioctl, CallStep, CallReturn
  <2>3. ProcInv'
    BY <2>2 DEF proc_fs, ProcInv, ProbeTypes, ProbesOK, LinksOK, Alone, OneProbe, OwnTable, OwnLink, Lent
  <2> QED  BY <2>1, <2>3
<1>3. ASSUME NEW r \in Readers,
             \/ Look(r)
             \/ \E p \in Processes, kind \in {"read", "readdir", "lookup"} : Probe(r, kind, p)
      PROVE  TypeInv'
  <2>1. RestInv'
    BY <1>3, ReaderTypes
  <2>2. ProcInv'
    BY <1>1, <1>3, ProbeInv, ProbePassInv, ProbeAllocInv, ProbeSpliceInv, ProbeEndInv DEF Look
  <2> QED  BY <2>1, <2>2
<1>4. CASE UNCHANGED vars
  BY <1>4 DEF vars, RestInv, RestTypes, Freeing, ProcInv, ProbeTypes, ProbesOK, LinksOK, Alone,
              OneProbe, OwnTable, OwnLink, Lent
<1> QED  BY <1>2, <1>3, <1>4 DEF Next

LEMMA TypesInit == Init => TypeInv
<1> SUFFICES ASSUME Init PROVE TypeInv
  OBVIOUS
<1> USE Names DEF Init
<1>1. NoCall \in [file : Node, node : Node]
  BY DEF NoCall, Node
<1>2. /\ NoRelease \in [at : {"idle", "walk", "free"}, bucket : Buckets, node : Node, tmp : Node]
      /\ NoRelease.at = "idle"
  BY DEF NoRelease, Buckets, Node
<1>3. RestTypes
  <2>1. /\ alive \in [Processes -> {"free", "alive", "closing", "dying"}]
        /\ users \in [Files -> SUBSET Processes] /\ fd \in [Processes -> Node]
        /\ processi \in [Buckets -> Node] /\ next \in [Files -> Node] /\ pprev \in [Files -> Node]
        /\ id \in [Files -> Processes \cup {NONE}]
        /\ mem \in [Files -> {"none", "new", "kept", "freed"}]
    BY DEF Node
  <2>2. /\ call \in [Processes -> [file : Node, node : Node]]
        /\ release \in [Processes -> [at : {"idle", "walk", "free"}, bucket : Buckets,
                                      node : Node, tmp : Node]]
    BY <1>1, <1>2
  <2>3. touched \in BOOLEAN /\ clashed \in BOOLEAN
    BY Zenon
  <2>4. inherited \subseteq Files /\ rare \in 0..MaxRare
    OBVIOUS
  <2> QED  BY <2>1, <2>2, <2>3, <2>4 DEF RestTypes
<1>4. Freeing
  BY <1>2 DEF Freeing
<1>5. NoProbe \in [at : {"idle", "walk", "splice"}, pid : Processes \cup {NONE},
                   kind : {"read", "readdir", "lookup", NONE}, node : Node,
                   dx : Arrays \cup {NONE}]
  BY DEF NoProbe, Node
<1>6. ProbeTypes /\ ProbesOK
  BY <1>5 DEF ProbeTypes, ProbesOK, NoProbe
<1>7. \A p \in Processes : Lent(p) = {}
  BY DEF Lent, NoProbe
<1>8. LinksOK
  <2> SUFFICES ASSUME NEW p \in Processes PROVE Cardinality(Lent(p)) <= nlink[p]
    BY DEF LinksOK
  <2>1. Cardinality(Lent(p)) = 0 /\ nlink[p] = 0
    BY <1>7, FS_EmptySet
  <2> QED  BY <2>1
<1>9. Alone
  BY <1>7 DEF Alone, OneProbe, OwnTable, OwnLink, NoProbe
<1> QED  BY <1>3, <1>4, <1>6, <1>8, <1>9 DEF TypeInv, RestInv, ProcInv

LEMMA Types == Spec => []TypeInv
BY TypesInit, TypesInductive, PTL DEF Spec

\* Every variable has its type; in particular no post handler takes a link from
\* a directory that its own pre handler has not added, whatever other probes do
\* to the one global table, and a probe always finds a table to make.
THEOREM TypeCorrect == Spec => []TypeOK
<1>1. TypeInv => TypeOK
  BY TypeParts DEF TypeInv, RestInv, ProcInv
<1> QED  BY <1>1, Types, PTL

\* The link counts of /proc are back where they were once nothing is being read,
\* unless probes have overlapped or one has met two entries of an id: the
\* decrement of the post handler of readdir undoes the increment before it.
THEOREM LinksPutBack == Spec => []LinksRestored
<1>1. TypeInv => LinksRestored
  <2> SUFFICES ASSUME TypeInv, ~disturbed, Busy = {}, NEW p \in Processes PROVE nlink[p] = 0
    BY DEF LinksRestored
  <2>1. \A r \in Readers : probe[r] = NoProbe
    BY DEF Busy, TypeInv, ProcInv, ProbesOK
  <2>2. Lent(p) = {}
    BY <2>1 DEF Lent, NoProbe
  <2> QED  BY <2>2 DEF TypeInv, ProcInv, Alone, OwnLink
<1> QED  BY <1>1, Types, PTL
-----------------------------------------------------------------------------
(* Who holds what, whatever has become of the chains.  A process is in a   *)
(* call on its own descriptor and keeps its file for it; it closes only on *)
(* its way out, and a release runs in a process that has closed, and that  *)
(* is in no call.                                                          *)
ProcessOK(p) ==
  LET f == fd[p]  c == call[p].file IN
  /\ call[p] # NoCall => c \in Files
  /\ release[p].at = "idle" => release[p] = NoRelease
  /\ f # NONE => /\ alive[p] = "alive" /\ mem[f] # "none"
                 /\ mem[f] = "new" => id[f] = p
                 /\ mem[f] # "new" => p \in users[f]
  /\ call[p] # NoCall => /\ alive[p] = "alive" => c = f
                         /\ alive[p] \in {"alive", "closing"}
                         /\ mem[c] \in {"kept", "freed"}
                         /\ release[p] = NoRelease
  /\ release[p] # NoRelease => alive[p] \in {"closing", "dying"}

FileOK(f) ==
  /\ mem[f] # "none" => id[f] \in Processes
  /\ mem[f] = "new" => fd[id[f]] = f
  /\ users[f] # {} => mem[f] \in {"kept", "freed"}

\* A file that no fork has shared is its opener's alone, and its entry is there
\* as long as the opener has the descriptor or is in a call.
OwnFile(f) ==
  /\ users[f] \subseteq {id[f]}
  /\ \A p \in Processes : /\ fd[p] = f => id[f] = p /\ mem[f] # "freed"
                          /\ call[p] # NoCall /\ call[p].file = f => id[f] = p /\ mem[f] = "kept"

Life ==
  /\ \A p \in Processes : ProcessOK(p)
  /\ \A f \in Files : FileOK(f) /\ (f \notin inherited => OwnFile(f))

(* Links and cursors lead to entries that have been added, and every link  *)
(* leads away from the heads: no walk goes round in a circle.              *)
Linked(n) == n # NONE => mem[n] \in {"kept", "freed"}
EntryOK(f) ==
  /\ Linked(next[f]) /\ Linked(pprev[f])
  /\ mem[f] \in {"none", "new"} => pprev[f] = NONE
  /\ mem[f] = "none" => next[f] = NONE
CursorsOK(p) ==
  /\ Linked(call[p].node) /\ Linked(release[p].node) /\ Linked(release[p].tmp)
  /\ release[p].at = "free" => id[release[p].node] = p
Pointers == /\ \A b \in Buckets : Linked(processi[b])
            /\ \A f \in Files : EntryOK(f)
            /\ \A p \in Processes : CursorsOK(p)

OrderOK(rank) ==
  \A f \in Files : /\ mem[f] # "new" /\ next[f] # NONE => rank[f] < rank[next[f]]
                   /\ pprev[f] # NONE => rank[pprev[f]] < rank[f]
Ordered == \E rank \in [Files -> Nat] : OrderOK(rank)

(* The chains while no updates have overlapped: an entry that is not yet   *)
(* added still points at the head, and the links of the others agree.      *)
Chain(b) == {f \in Files : mem[f] = "kept" /\ Bucket[id[f]] = b}
HeadOK(b) == processi[b] # NONE => processi[b] \in Chain(b) /\ pprev[processi[b]] = NONE
LinkOK(f) ==
  LET b == Bucket[id[f]] IN
  /\ mem[f] = "new" => next[f] = processi[b]
  /\ mem[f] = "kept" => /\ next[f] # NONE => next[f] \in Chain(b) /\ pprev[next[f]] = f
                        /\ pprev[f] # NONE => pprev[f] \in Chain(b) /\ next[pprev[f]] = f
                        /\ pprev[f] = NONE => processi[b] = f
Sound == (\A b \in Buckets : HeadOK(b)) /\ (\A f \in Files : LinkOK(f))

(* The walks.  A cursor may be on an entry that another process has freed, *)
(* but the links of that lead back into the chain: From(n, S) says that a  *)
(* walk from n stays in S.  What process p meets of its own is kept, and   *)
(* is not the entry x it is about to free; and a release in the bucket of  *)
(* its process has all that is left of its own still before it.            *)
From(n, S) ==
  /\ n # NONE => n \in S
  /\ \A g \in S : mem[g] \in {"kept", "freed"} /\ (next[g] # NONE => next[g] \in S)
Own(p) == {f \in Files : id[f] = p /\ mem[f] = "kept"}
Clean(p, n, x) ==
  \E S \in SUBSET Files : From(n, S) /\ x \notin S /\ \A f \in S : id[f] = p => mem[f] = "kept"
Meets(p, n) == \A S \in SUBSET Files : From(n, S) => Own(p) \subseteq S

CallOK(p) == Clean(p, call[p].node, NONE)
ReleaseOK(p) ==
  LET w == release[p] IN
  /\ w.at = "walk" => Clean(p, w.node, NONE)
  /\ w.at = "free" => mem[w.node] = "kept" /\ w.tmp = next[w.node] /\ Clean(p, w.tmp, w.node)
  /\ w.at # "idle" /\ w.bucket = Bucket[p] => Meets(p, w.node)
  /\ w.at # "idle" /\ w.bucket > Bucket[p] => Own(p) = {}
Walks == \A p \in Processes : CallOK(p) /\ ReleaseOK(p)

Outlived(f) ==
  /\ mem[f] = "kept" /\ users[f] = {}
  /\ \A p \in Processes : call[p].file # f
  /\ release[id[f]] = NoRelease
NoneLeft == \A f \in Files \ inherited : ~Outlived(f)

Tidy == Sound /\ Walks /\ NoneLeft /\ ~touched
DInv == TypeInv /\ Life /\ Pointers /\ Ordered /\ (~clashed => Tidy)
\* A set of naturals that has an element has a least one.
LEMMA Least ==
  ASSUME NEW I \in SUBSET Nat, I # {}
  PROVE  \E m \in I : \A k \in I : m <= k
<1>1. PICK m \in I : \A k \in I : ~(<<k, m>> \in OpToRel(<, Nat))
  BY NatLessThanWellFounded, WFMin
<1>2. ASSUME NEW k \in I PROVE m <= k
  <2>1. k \in Nat /\ m \in Nat
    OBVIOUS
  <2>2. ~(k < m)
    BY <1>1, <2>1 DEF OpToRel
  <2> QED  BY <2>1, <2>2
<1> QED  BY <1>2


(* What the head of a chain leads to.                                      *)
LEMMA HeadClean ==
  ASSUME Sound, NEW p \in Processes, NEW b \in Buckets
  PROVE  Clean(p, processi[b], NONE)
<1>1. From(processi[b], Chain(b))
  BY DEF From, Chain, Sound, HeadOK, LinkOK
<1>2. Chain(b) \in SUBSET Files /\ NONE \notin Chain(b) /\ \A f \in Chain(b) : mem[f] = "kept"
  BY Names DEF Chain
<1> QED  BY <1>1, <1>2 DEF Clean

LEMMA ChainIn ==
  ASSUME Ordered, Sound, NEW b \in Buckets, NEW S \in SUBSET Files,
         processi[b] # NONE => processi[b] \in S,
         \A g \in S : next[g] # NONE => next[g] \in S
  PROVE  Chain(b) \subseteq S
<1> SUFFICES ASSUME NEW x \in Chain(b) \ S PROVE FALSE
  OBVIOUS
<1>1. PICK rank \in [Files -> Nat] : OrderOK(rank)
  BY DEF Ordered
<1> DEFINE I == {rank[f] : f \in Chain(b) \ S}
<1>2. I \in SUBSET Nat /\ I # {}
  BY DEF Chain
<1>3. PICK m \in I : \A k \in I : m <= k
  <2> HIDE DEF I
  <2> QED  BY <1>2, Least
<1>4. PICK g \in Chain(b) \ S : m = rank[g]
  OBVIOUS
<1>5. g \in Files /\ g # NONE /\ mem[g] = "kept" /\ Bucket[id[g]] = b /\ LinkOK(g)
  BY Names DEF Chain, Sound
<1>6. pprev[g] # NONE
  BY <1>4, <1>5 DEF LinkOK
<1>7. pprev[g] \in Chain(b) /\ next[pprev[g]] = g
  BY <1>5, <1>6 DEF LinkOK
<1>8. pprev[g] \notin S
  BY <1>4, <1>5, <1>7
<1>9. rank[pprev[g]] \in I /\ rank[pprev[g]] \in Nat /\ rank[g] \in Nat
  BY <1>5, <1>7, <1>8 DEF Chain
<1>10. rank[pprev[g]] < rank[g]
  BY <1>1, <1>5, <1>6 DEF OrderOK
<1> HIDE DEF I
<1> QED  BY <1>3, <1>4, <1>9, <1>10

LEMMA HeadMeets ==
  ASSUME Ordered, Sound, NEW p \in Processes
  PROVE  Meets(p, processi[Bucket[p]])
<1> SUFFICES ASSUME NEW S \in SUBSET Files, From(processi[Bucket[p]], S) PROVE Own(p) \subseteq S
  BY DEF Meets
<1>1. Bucket[p] \in Buckets
  BY Names
<1>2. Chain(Bucket[p]) \subseteq S
  BY <1>1, ChainIn DEF From
<1> QED  BY <1>2 DEF Own, Chain

LEMMA ReachesAll ==
  ASSUME Ordered, Sound, NEW b \in Buckets
  PROVE  Reach(b) = Chain(b)
<1>1. Chain(b) \subseteq Reach(b)
  <2> SUFFICES ASSUME NEW f \in Chain(b), NEW S \in SUBSET Files,
                      processi[b] # NONE => processi[b] \in S,
                      \A g \in S : next[g] # NONE => next[g] \in S
               PROVE  f \in S
    BY DEF Reach, Chain
  <2> QED  BY ChainIn
<1>2. From(processi[b], Chain(b)) /\ Chain(b) \in SUBSET Files
  BY DEF From, Chain, Sound, HeadOK, LinkOK
<1>3. Reach(b) \subseteq Chain(b)
  BY <1>2 DEF Reach, From
<1> QED  BY <1>1, <1>3

LEMMA DeviceInit == Init => DInv
<1> SUFFICES ASSUME Init PROVE DInv
  OBVIOUS
<1>1. TypeInv
  BY TypesInit
<1> USE Names DEF Init
<1>2. \A p \in Processes : ProcessOK(p)
  BY DEF ProcessOK, NoCall, NoRelease
<1>3. \A f \in Files : FileOK(f) /\ OwnFile(f)
  BY DEF FileOK, OwnFile, NoCall
<1>4. Pointers
  BY DEF Pointers, EntryOK, CursorsOK, Linked, NoCall, NoRelease
<1>5. Ordered
  <2>1. [f \in Files |-> 0] \in [Files -> Nat]
    OBVIOUS
  <2>2. OrderOK([f \in Files |-> 0])
    BY DEF OrderOK
  <2> QED  BY <2>1, <2>2 DEF Ordered
<1>6. Sound
  BY DEF Sound, HeadOK, LinkOK
<1>7. Walks
  BY <1>6, HeadClean DEF Walks, CallOK, ReleaseOK, NoCall, NoRelease, Clean, From
<1>8. NoneLeft /\ ~touched
  BY DEF NoneLeft, Outlived
<1> QED  BY <1>1, <1>2, <1>3, <1>4, <1>5, <1>6, <1>7, <1>8 DEF DInv, Life, Tidy
-----------------------------------------------------------------------------
(* Steps that leave the table alone.                                       *)
LEMMA TableStays ==
  ASSUME UNCHANGED table
  PROVE  (Ordered => Ordered') /\ (Sound => Sound')
<1>1. Ordered => Ordered'
  BY DEF table, Ordered, OrderOK
<1>2. Sound => Sound'
  BY DEF table, Sound, HeadOK, LinkOK, Chain
<1> QED  BY <1>1, <1>2

LEMMA WalkStays ==
  ASSUME UNCHANGED table, NEW q \in Processes
  PROVE  /\ CallOK(q) /\ call'[q] = call[q] => CallOK(q)'
         /\ ReleaseOK(q) /\ release'[q] = release[q] => ReleaseOK(q)'
<1>1. UNCHANGED <<processi, next, pprev, id, mem>>
  BY DEF table
<1>2. CallOK(q) /\ call'[q] = call[q] => CallOK(q)'
  BY <1>1 DEF CallOK, Clean, From
<1>3. ReleaseOK(q) /\ release'[q] = release[q] => ReleaseOK(q)'
  BY <1>1 DEF ReleaseOK, Clean, From, Meets, Own
<1> QED  BY <1>2, <1>3

\* A step of p that moves its cursors, and leaves those of the others.
LEMMA CursorsMove ==
  ASSUME DInv, TypeInv', Life', UNCHANGED <<table, clashed>>, NEW p \in Processes,
         \A q \in Processes : q # p => call'[q] = call[q] /\ release'[q] = release[q],
         CursorsOK(p)',
         ~clashed => CallOK(p)' /\ ReleaseOK(p)' /\ NoneLeft' /\ ~touched'
  PROVE  DInv'
<1>1. UNCHANGED <<processi, next, pprev, id, mem, clashed>>
  BY DEF table
<1>2. Pointers'
  <2>1. \A q \in Processes : CursorsOK(q)'
    BY <1>1 DEF DInv, Pointers, CursorsOK, Linked
  <2> QED  BY <1>1, <2>1 DEF DInv, Pointers, EntryOK, Linked
<1>3. Ordered'
  BY TableStays DEF DInv
<1>4. ASSUME ~clashed PROVE Tidy'
  <2>1. Sound' /\ \A q \in Processes : CallOK(q) /\ ReleaseOK(q)
    BY <1>4, TableStays DEF DInv, Tidy, Walks
  <2>2. \A q \in Processes : CallOK(q)' /\ ReleaseOK(q)'
    BY <1>4, <2>1, WalkStays
  <2> QED  BY <1>4, <2>1, <2>2 DEF Tidy, Walks
<1> QED  BY <1>1, <1>2, <1>3, <1>4 DEF DInv

\* A step that moves no cursor.
LEMMA CursorsStay ==
  ASSUME DInv, TypeInv', Life', UNCHANGED <<table, clashed, call, release>>,
         ~clashed => NoneLeft' /\ ~touched'
  PROVE  DInv'
<1>1. UNCHANGED <<processi, next, pprev, id, mem, clashed>>
  BY DEF table
<1>2. Pointers'
  BY <1>1 DEF DInv, Pointers, CursorsOK, EntryOK, Linked
<1>3. Ordered'
  BY TableStays DEF DInv
<1>4. ASSUME ~clashed PROVE Tidy'
  <2>1. Sound' /\ \A q \in Processes : CallOK(q) /\ ReleaseOK(q)
    BY <1>4, TableStays DEF DInv, Tidy, Walks
  <2>2. \A q \in Processes : CallOK(q)' /\ ReleaseOK(q)'
    BY <2>1, WalkStays
  <2> QED  BY <1>4, <2>1, <2>2 DEF Tidy, Walks
<1> QED  BY <1>1, <1>2, <1>3, <1>4 DEF DInv

LEMMA ReadersKeep ==
  ASSUME DInv, TypeInv',
         UNCHANGED <<alive, users, fd, inherited, call, release, table, touched, clashed>>
  PROVE  DInv'
<1>1. Life'
  BY DEF DInv, Life, table, ProcessOK, FileOK, OwnFile
<1>2. ~clashed => NoneLeft' /\ ~touched'
  BY DEF DInv, Tidy, NoneLeft, Outlived, table
<1> QED  BY <1>1, <1>2, CursorsStay

LEMMA LifeStays ==
  ASSUME DInv, TypeInv', NEW p \in Processes,
         (\E q \in Processes : Fork(p, q)) \/ Exec(p) \/ Kill(p) \/ Spawn(p)
         \/ (Exit(p) /\ UNCHANGED <<users, release>>)
  PROVE  DInv'
<1> USE Names
<1>0. UNCHANGED <<call, release, touched, clashed, table, processi, next, pprev, id, mem>>
  BY DEF Fork, Exec, Kill, Spawn, Exit, table
<1>2. /\ \A q \in Processes : ProcessOK(q) /\ fd[q] \in Node
      /\ \A f \in Files : FileOK(f) /\ (f \notin inherited => OwnFile(f))
      /\ \A f \in Files : users[f] \subseteq Processes
  BY DEF DInv, Life, TypeInv, RestInv, RestTypes
<1>3. ASSUME NEW q \in Processes, Fork(p, q) PROVE Life'
  <2>1. /\ alive[p] = "alive" /\ alive[q] = "free" /\ fd[p] \in Files /\ mem[fd[p]] # "new"
        /\ alive' = [alive EXCEPT ![q] = "alive"] /\ fd' = [fd EXCEPT ![q] = fd[p]]
        /\ users' = [f \in Files |-> IF p \in users[f] THEN users[f] \cup {q} ELSE users[f]]
        /\ inherited' = inherited \cup {f \in Files : p \in users[f]}
    BY <1>2, <1>3 DEF Fork, Node
  <2>2. /\ p # q /\ alive'[q] = "alive" /\ fd'[q] = fd[p]
        /\ \A r \in Processes : r # q => alive'[r] = alive[r] /\ fd'[r] = fd[r]
    BY <2>1 DEF DInv, TypeInv, RestInv, RestTypes
  <2>3. p \in users[fd[p]] /\ fd[p] \in inherited'
    BY <1>2, <2>1 DEF ProcessOK
  <2>4. ASSUME NEW r \in Processes PROVE ProcessOK(r)'
    <3>1. CASE r # q
      <4>1. alive'[r] = alive[r] /\ fd'[r] = fd[r] /\ (fd[r] # NONE => fd[r] \in Files)
        BY <1>2, <2>2, <3>1 DEF Node
      <4>2. fd[r] # NONE => users[fd[r]] \subseteq users'[fd[r]]
        BY <2>1, <4>1
      <4> QED  BY <1>0, <1>2, <4>1, <4>2 DEF ProcessOK
    <3>2. CASE r = q
      <4>1. call[q] = NoCall /\ release[q] = NoRelease /\ mem[fd[p]] # "none"
        BY <1>2, <2>1 DEF ProcessOK
      <4>2. q \in users'[fd[p]]
        BY <2>1, <2>3
      <4> QED  BY <1>0, <2>1, <2>2, <3>2, <4>1, <4>2 DEF ProcessOK
    <3> QED  BY <3>1, <3>2
  <2>5. ASSUME NEW f \in Files
        PROVE  FileOK(f)' /\ (f \notin inherited' => OwnFile(f)')
    <3>1. FileOK(f)'
      BY <1>0, <1>2, <2>1, <2>2 DEF FileOK, ProcessOK
    <3>2. ASSUME f \notin inherited'
          PROVE  f \notin inherited /\ users'[f] = users[f] /\ fd'[q] # f
      BY <2>1, <2>2, <2>3, <3>2
    <3>3. f \notin inherited' => OwnFile(f)'
      BY <1>0, <1>2, <2>2, <3>2 DEF OwnFile
    <3> QED  BY <3>1, <3>3
  <2> QED  BY <2>4, <2>5 DEF Life
<1>4. ASSUME Exec(p) \/ Kill(p) \/ Spawn(p) \/ (Exit(p) /\ UNCHANGED <<users, release>>) PROVE Life'
  <2>1. /\ UNCHANGED <<users, inherited>> /\ fd'[p] = NONE
        /\ \A r \in Processes : r # p => alive'[r] = alive[r] /\ fd'[r] = fd[r]
        /\ fd[p] # NONE => mem[fd[p]] # "new"
    BY <1>2, <1>4 DEF Exec, Kill, Spawn, Exit, ProcessOK, DInv, TypeInv, RestInv, RestTypes
  <2>2. /\ alive[p] # "free" => call[p] = NoCall \/ alive'[p] = alive[p]
        /\ alive[p] = "alive" => call[p] = NoCall
        /\ alive'[p] \in {"closing", "dying"} \/ release[p] = NoRelease
    BY <1>2, <1>4 DEF Exec, Kill, Spawn, Exit, ProcessOK, DInv, TypeInv, RestInv, RestTypes
  <2>3. call[p] = NoCall
    BY <1>2, <1>4 DEF Exec, Kill, Spawn, Exit, ProcessOK, DInv, TypeInv, RestInv, RestTypes
  <2>4. ASSUME NEW r \in Processes PROVE ProcessOK(r)'
    <3>1. CASE r # p
      BY <1>0, <1>2, <2>1, <3>1 DEF ProcessOK
    <3>2. CASE r = p
      BY <1>0, <1>2, <2>1, <2>2, <2>3, <3>2 DEF ProcessOK
    <3> QED  BY <3>1, <3>2
  <2>5. ASSUME NEW f \in Files
        PROVE  FileOK(f)' /\ (f \notin inherited' => OwnFile(f)')
    <3>1. mem[f] = "new" => id[f] # p
      BY <1>2, <2>1 DEF FileOK
    <3>2. FileOK(f)'
      BY <1>0, <1>2, <2>1, <3>1 DEF FileOK
    <3>3. f \notin inherited' => OwnFile(f)'
      BY <1>0, <1>2, <2>1 DEF OwnFile
    <3> QED  BY <3>2, <3>3
  <2> QED  BY <2>4, <2>5 DEF Life
<1>5. ~clashed => NoneLeft' /\ ~touched'
  <2>1. inherited \subseteq inherited' /\ \A f \in Files : users[f] \subseteq users'[f]
    <3>1. ASSUME NEW q \in Processes, Fork(p, q)
          PROVE  inherited \subseteq inherited' /\ \A f \in Files : users[f] \subseteq users'[f]
      BY <3>1 DEF Fork
    <3>2. Exec(p) \/ Kill(p) \/ Spawn(p) \/ (Exit(p) /\ UNCHANGED <<users, release>>)
            => UNCHANGED <<inherited, users>>
      BY DEF Exec, Kill, Spawn, Exit
    <3> QED  BY <3>1, <3>2
  <2>2. ASSUME NoneLeft, NEW f \in Files \ inherited', Outlived(f)' PROVE FALSE
    BY <1>0, <2>1, <2>2 DEF NoneLeft, Outlived
  <2>3. ~touched => ~touched'
    BY <1>0
  <2> QED  BY <2>2, <2>3 DEF DInv, Tidy, NoneLeft
<1> QED  BY <1>0, <1>3, <1>4, <1>5, CursorsStay

(* A file is let go, and with the last reference its release begins.       *)
LEMMA DroppedWalks ==
  ASSUME DInv, NEW p \in Processes, NEW f, NEW us, NEW cs, Dropped(p, f, us, cs),
         UNCHANGED table
  PROVE  /\ release' \in {release, [release EXCEPT ![p] = First]}
         /\ us = {} /\ (\A q \in Processes : cs[q].file # f) => release' = [release EXCEPT ![p] = First]
         /\ us # {} \/ (\E q \in Processes : cs[q].file = f) => release' = release
         /\ First # NoRelease /\ First.at = "walk"
         /\ \A q \in Processes : release'[q] = release[q] \/ (q = p /\ release'[q] = First)
         /\ call'[p].node \in {NONE, call[p].node} => CursorsOK(p)'
         /\ ~clashed => ReleaseOK(p)'
<1> USE Names
<1>1. /\ release' \in {release, [release EXCEPT ![p] = First]}
      /\ us = {} /\ (\A q \in Processes : cs[q].file # f) => release' = [release EXCEPT ![p] = First]
      /\ us # {} \/ (\E q \in Processes : cs[q].file = f) => release' = release
  BY DEF Dropped, First
<1>2. First.at = "walk" /\ First # NoRelease
  BY DEF First, NoRelease
<1>3. /\ \A q \in Processes : release'[q] = release[q] \/ (q = p /\ release'[q] = First)
      /\ UNCHANGED <<processi, next, pprev, id, mem>>
  BY <1>1 DEF DInv, TypeInv, RestInv, RestTypes, table
<1>4. 0 \in Buckets /\ Bucket[p] \in 0..Last
  BY DEF Buckets
<1>5. ASSUME call'[p].node \in {NONE, call[p].node} PROVE CursorsOK(p)'
  <2>1. CursorsOK(p) /\ Linked(processi[0])
    BY <1>4 DEF DInv, Pointers
  <2> QED  BY <1>3, <1>5, <2>1 DEF CursorsOK, Linked, First
<1>6. ASSUME ~clashed PROVE ReleaseOK(p)'
  <2>1. CASE release'[p] = release[p]
    BY <1>6, <2>1, WalkStays DEF DInv, Tidy, Walks
  <2>2. CASE release'[p] = First
    <3>1. Clean(p, processi[0], NONE) /\ (Bucket[p] = 0 => Meets(p, processi[0]))
      BY <1>4, <1>6, HeadClean, HeadMeets DEF DInv, Tidy
    <3>2. Clean(p, processi[0], NONE)' /\ (Bucket[p] = 0 => Meets(p, processi[0])')
      BY <1>3, <3>1 DEF Clean, From, Meets, Own
    <3>3. /\ release'[p].at = "walk" /\ release'[p].bucket = 0
          /\ release'[p].node = processi'[0]
      BY <1>3, <2>2 DEF First
    <3>4. (Clean(p, release[p].node, NONE) /\ (Bucket[p] = 0 => Meets(p, release[p].node)))'
      BY <3>2, <3>3 DEF Clean, From, Meets, Own
    <3> QED  BY <1>4, <3>3, <3>4 DEF ReleaseOK
  <2> QED  BY <1>3, <2>1, <2>2
<1> QED  BY <1>1, <1>2, <1>3, <1>5, <1>6

LEMMA LetGo ==
  ASSUME DInv, TypeInv', NEW p \in Processes, NEW f \in Files,
         p \in users[f], users' = [users EXCEPT ![f] = @ \ {p}],
         Dropped(p, f, users'[f], call), UNCHANGED <<call, table, inherited, touched, clashed>>,
         \A q \in Processes : q # p => fd'[q] = fd[q] /\ alive'[q] = alive[q],
         fd'[p] = NONE, alive'[p] \in {"closing", "dying"}, release[p] = NoRelease,
         fd[p] # NONE => mem[fd[p]] # "new",
         call[p] # NoCall => call[p].file = f /\ alive'[p] = "closing"
  PROVE  DInv'
<1> USE Names
<1>1. /\ ~clashed => ReleaseOK(p)'
      /\ release' \in {release, [release EXCEPT ![p] = First]}
      /\ users'[f] = {} /\ (\A q \in Processes : call[q].file # f) => release' = [release EXCEPT ![p] = First]
      /\ (\E q \in Processes : call[q].file = f) => release' = release
      /\ First # NoRelease /\ First.at = "walk"
      /\ \A q \in Processes : release'[q] = release[q] \/ (q = p /\ release'[q] = First)
      /\ CursorsOK(p)'
  BY DroppedWalks
<1>2. /\ \A q \in Processes : ProcessOK(q) /\ fd[q] \in Node
      /\ \A g \in Files : FileOK(g) /\ (g \notin inherited => OwnFile(g))
      /\ UNCHANGED <<processi, next, pprev, id, mem>>
  BY DEF DInv, Life, TypeInv, RestInv, RestTypes, table
<1>3. /\ \A g \in Files : g # f => users'[g] = users[g]
      /\ users'[f] = users[f] \ {p}
      /\ \A q \in Processes : release'[q] = release[q] \/ (q = p /\ release'[q] = First)
  BY <1>1 DEF DInv, TypeInv, RestInv, RestTypes
<1>4. ASSUME NEW q \in Processes PROVE ProcessOK(q)'
  <2>1. CASE q # p
    <3>1. alive'[q] = alive[q] /\ fd'[q] = fd[q] /\ release'[q] = release[q]
      BY <1>3, <2>1
    <3>2. fd[q] # NONE /\ q \in users[fd[q]] => q \in users'[fd[q]]
      BY <1>2, <1>3, <2>1 DEF Node
    <3> QED  BY <1>2, <3>1, <3>2 DEF ProcessOK
  <2>2. CASE q = p
    <3>1. call[p] # NoCall => release'[p] = NoRelease
      BY <1>1
    <3>2. release'[p].at = "idle" => release'[p] = NoRelease
      BY <1>1, <1>3
    <3> QED  BY <1>2, <2>2, <3>1, <3>2 DEF ProcessOK
  <2> QED  BY <2>1, <2>2
<1>5. ASSUME NEW g \in Files PROVE FileOK(g)'
  <2>1. mem[g] = "new" => id[g] # p
    BY <1>2 DEF FileOK
  <2>2. users'[g] \subseteq users[g]
    BY <1>3
  <2> QED  BY <1>2, <2>1, <2>2 DEF FileOK
<1>6. ASSUME NEW g \in Files, g \notin inherited PROVE OwnFile(g)'
  <2>1. users'[g] \subseteq users[g] /\ OwnFile(g)
    BY <1>2, <1>3, <1>6
  <2>2. \A q \in Processes : fd'[q] = g => fd[q] = g
    OBVIOUS
  <2> QED  BY <1>2, <2>1, <2>2 DEF OwnFile
<1>7. ASSUME NoneLeft, NEW g \in Files, g \notin inherited, Outlived(g)' PROVE FALSE
  <2>1. /\ mem[g] = "kept" /\ users'[g] = {} /\ \A q \in Processes : call[q].file # g
        /\ release'[id[g]] = NoRelease /\ OwnFile(g) /\ ~Outlived(g) /\ id[g] \in Processes
    BY <1>2, <1>6, <1>7 DEF NoneLeft, Outlived, FileOK
  <2>2. release[id[g]] = NoRelease
    BY <1>1, <1>3, <2>1
  <2>3. g = f
    BY <1>3, <2>1, <2>2 DEF Outlived
  <2>4. id[f] = p
    BY <2>1, <2>3 DEF OwnFile
  <2>5. release' = [release EXCEPT ![p] = First]
    BY <1>1, <2>1, <2>3
  <2>6. release'[p] = First
    BY <2>5 DEF DInv, TypeInv, RestInv, RestTypes
  <2> QED  BY <1>1, <2>1, <2>3, <2>4, <2>6
<1>8. Life'
  BY <1>4, <1>5, <1>6 DEF Life
<1>9. ~clashed => CallOK(p)' /\ NoneLeft' /\ ~touched'
  <2>1. NoneLeft => NoneLeft'
    BY <1>7 DEF NoneLeft
  <2> QED  BY <2>1, WalkStays DEF DInv, Tidy, Walks
<1> QED  BY <1>1, <1>3, <1>8, <1>9, CursorsMove

LEMMA DropKeeps ==
  ASSUME DInv, TypeInv', NEW p \in Processes, close_fiberlib(p) \/ Exit(p)
  PROVE  DInv'
<1> USE Names
<1>1. ProcessOK(p) /\ fd[p] \in Node
      /\ \A f \in Files : FileOK(f)
  BY DEF DInv, Life, TypeInv, RestInv, RestTypes
<1>2. CASE close_fiberlib(p)
  <2>1. /\ alive[p] = "alive" /\ fd[p] \in Files /\ mem[fd[p]] # "new" /\ release[p] = NoRelease
        /\ users' = [users EXCEPT ![fd[p]] = @ \ {p}] /\ fd' = [fd EXCEPT ![p] = NONE]
        /\ alive' = [alive EXCEPT ![p] = "closing"]
        /\ Dropped(p, fd[p], users'[fd[p]], call)
        /\ UNCHANGED <<inherited, call, table, touched, clashed>>
    BY <1>1, <1>2 DEF close_fiberlib, Node
  <2>2. p \in users[fd[p]] /\ (call[p] # NoCall => call[p].file = fd[p])
    BY <1>1, <2>1 DEF ProcessOK
  <2>3. /\ \A q \in Processes : q # p => fd'[q] = fd[q] /\ alive'[q] = alive[q]
        /\ fd'[p] = NONE /\ alive'[p] = "closing"
    BY <2>1 DEF DInv, TypeInv, RestInv, RestTypes
  <2> QED  BY <2>1, <2>2, <2>3, LetGo
<1>3. CASE Exit(p)
  <2>1. alive[p] = "dying" /\ release[p] = NoRelease /\ UNCHANGED <<fd, inherited, call, table, touched, clashed>>
    BY <1>3 DEF Exit
  <2>2. fd[p] = NONE /\ call[p] = NoCall
    BY <1>1, <2>1 DEF ProcessOK
  <2>3. CASE UNCHANGED <<users, release>>
    BY <1>3, <2>3, LifeStays
  <2>4. ASSUME NEW f \in Files, p \in users[f], users' = [users EXCEPT ![f] = @ \ {p}],
               Dropped(p, f, users'[f], call), UNCHANGED alive
        PROVE  DInv'
    <3>1. /\ \A q \in Processes : q # p => fd'[q] = fd[q] /\ alive'[q] = alive[q]
          /\ fd'[p] = NONE /\ alive'[p] = "dying"
      BY <2>1, <2>2, <2>4
    <3> QED  BY <2>1, <2>2, <2>4, <3>1, LetGo
  <2> QED  BY <1>3, <2>3, <2>4 DEF Exit
<1> QED  BY <1>2, <1>3
-----------------------------------------------------------------------------
(* Calls.  What a walk meets of its own process is kept.                   *)
LEMMA CallBegins ==
  ASSUME DInv, TypeInv', NEW p \in Processes, fib_ioctl(p)
  PROVE  DInv'
<1> USE Names
<1>1. /\ alive[p] = "alive" /\ call[p] = NoCall /\ fd[p] # NONE /\ p \in users[fd[p]]
      /\ call' = [call EXCEPT ![p] = [file |-> fd[p], node |-> processi[Bucket[p]]]]
      /\ UNCHANGED <<alive, users, fd, inherited, release, processi, next, pprev, id, mem, touched, clashed>>
  BY DEF fib_ioctl, procs, table
<1>2. /\ fd[p] \in Files /\ processi[Bucket[p]] \in Node /\ Bucket[p] \in Buckets
      /\ call'[p].file = fd[p] /\ call'[p].node = processi[Bucket[p]] /\ call'[p] # NoCall
      /\ \A q \in Processes : q # p => call'[q] = call[q]
  BY <1>1 DEF DInv, TypeInv, RestInv, RestTypes, Node, NoCall
<1>3. /\ \A q \in Processes : ProcessOK(q)
      /\ \A g \in Files : FileOK(g) /\ (g \notin inherited => OwnFile(g))
  BY DEF DInv, Life
<1>4. /\ mem[fd[p]] \in {"kept", "freed"} /\ release[p] = NoRelease
  BY <1>1, <1>2, <1>3 DEF ProcessOK, FileOK
<1>5. ASSUME NEW q \in Processes PROVE ProcessOK(q)'
  <2>1. CASE q # p
    BY <1>1, <1>2, <1>3, <2>1 DEF ProcessOK
  <2>2. CASE q = p
    BY <1>1, <1>2, <1>3, <1>4, <2>2 DEF ProcessOK
  <2> QED  BY <2>1, <2>2
<1>6. ASSUME NEW g \in Files PROVE FileOK(g)' /\ (g \notin inherited => OwnFile(g)')
  <2>1. FileOK(g)'
    BY <1>1, <1>3 DEF FileOK
  <2>2. ASSUME g \notin inherited PROVE OwnFile(g)'
    BY <1>1, <1>2, <1>3, <1>4, <2>2 DEF OwnFile
  <2> QED  BY <2>1, <2>2
<1>7. Life'
  BY <1>1, <1>5, <1>6 DEF Life
<1>8. CursorsOK(p)'
  <2>1. CursorsOK(p) /\ Linked(processi[Bucket[p]])
    BY <1>2 DEF DInv, Pointers
  <2> QED  BY <1>1, <1>2, <2>1 DEF CursorsOK, Linked
<1>9. ASSUME ~clashed PROVE CallOK(p)' /\ ReleaseOK(p)' /\ NoneLeft' /\ ~touched'
  <2>1. Clean(p, processi[Bucket[p]], NONE)
    BY <1>2, <1>9, HeadClean DEF DInv, Tidy
  <2>2. CallOK(p)'
    BY <1>1, <1>2, <2>1 DEF CallOK, Clean, From
  <2>3. ReleaseOK(p)'
    BY <1>1, <1>9, WalkStays DEF DInv, Tidy, Walks, table
  <2>4. ASSUME NEW g \in Files \ inherited, Outlived(g)' PROVE FALSE
    <3>1. \A q \in Processes : call[q].file # g
      BY <1>1, <1>2, <2>4 DEF Outlived, NoCall
    <3>2. Outlived(g)
      BY <1>1, <2>4, <3>1 DEF Outlived
    <3> QED  BY <1>9, <3>2 DEF DInv, Tidy, NoneLeft
  <2> QED  BY <1>1, <1>9, <2>2, <2>3, <2>4 DEF DInv, Tidy, NoneLeft
<1> QED  BY <1>1, <1>2, <1>7, <1>8, <1>9, CursorsMove DEF table

LEMMA CallWalks ==
  ASSUME DInv, TypeInv', NEW p \in Processes, CallStep(p)
  PROVE  DInv'
<1> USE Names
<1> DEFINE n == call[p].node
<1>1. /\ n \in Files
      /\ call' = [call EXCEPT ![p].node = next[n]]
      /\ touched' = (touched \/ (id[n] = p /\ mem[n] = "freed"))
      /\ UNCHANGED <<alive, users, fd, inherited, release, processi, next, pprev, id, mem, clashed>>
  BY DEF CallStep, procs, table, DInv, TypeInv, RestInv, RestTypes, Node
<1>2. call[p] \in [file : Node, node : Node] /\ call[p] # NoCall
  BY <1>1 DEF DInv, TypeInv, RestInv, RestTypes, NoCall
<1>3. /\ call'[p].file = call[p].file /\ call'[p].node = next[n]
      /\ \A q \in Processes : q # p => call'[q] = call[q]
  BY <1>1, <1>2 DEF DInv, TypeInv, RestInv, RestTypes
<1>4. /\ \A q \in Processes : ProcessOK(q)
      /\ \A g \in Files : FileOK(g) /\ (g \notin inherited => OwnFile(g))
      /\ CursorsOK(p) /\ EntryOK(n)
  BY <1>1 DEF DInv, Life, Pointers
<1>5. call'[p] # NoCall
  BY <1>2, <1>3, <1>4 DEF ProcessOK, NoCall
<1>6. ASSUME NEW q \in Processes PROVE ProcessOK(q)'
  <2>1. CASE q # p
    BY <1>1, <1>3, <1>4, <2>1 DEF ProcessOK
  <2>2. CASE q = p
    BY <1>1, <1>2, <1>3, <1>4, <1>5, <2>2 DEF ProcessOK
  <2> QED  BY <2>1, <2>2
<1>7. \A q \in Processes : /\ call'[q].file = call[q].file
                           /\ call'[q] # NoCall => call[q] # NoCall
  BY <1>2, <1>3
<1>8. Life'
  <2>1. ASSUME NEW g \in Files PROVE FileOK(g)' /\ (g \notin inherited => OwnFile(g)')
    BY <1>1, <1>4, <1>7 DEF FileOK, OwnFile
  <2> QED  BY <1>1, <1>6, <2>1 DEF Life
<1>9. CursorsOK(p)'
  BY <1>1, <1>3, <1>4 DEF CursorsOK, EntryOK, Linked
<1>10. ASSUME ~clashed PROVE CallOK(p)' /\ ReleaseOK(p)' /\ NoneLeft' /\ ~touched'
  <2>1. CallOK(p) /\ ReleaseOK(p) /\ NoneLeft /\ ~touched
    BY <1>10 DEF DInv, Tidy, Walks
  <2>2. PICK S \in SUBSET Files :
          From(n, S) /\ NONE \notin S /\ \A f \in S : id[f] = p => mem[f] = "kept"
    BY <2>1 DEF CallOK, Clean
  <2>3. n \in S /\ (id[n] = p => mem[n] = "kept")
    BY <1>1, <2>2 DEF From
  <2>4. CallOK(p)'
    <3>1. From(call[p].node, S)'
      BY <1>1, <1>3, <2>2, <2>3 DEF From
    <3> QED  BY <1>1, <2>2, <3>1 DEF CallOK, Clean
  <2>5. ReleaseOK(p)'
    BY <1>1, <2>1, WalkStays DEF table
  <2>6. NoneLeft'
    BY <1>1, <1>7, <2>1 DEF NoneLeft, Outlived
  <2>7. ~touched'
    BY <1>1, <2>1, <2>3
  <2> QED  BY <2>4, <2>5, <2>6, <2>7
<1> QED  BY <1>1, <1>3, <1>8, <1>9, <1>10, CursorsMove DEF table

LEMMA CallEnds ==
  ASSUME DInv, TypeInv', NEW p \in Processes, CallReturn(p)
  PROVE  DInv'
<1> USE Names
<1> DEFINE c == call[p].file
<1>1. /\ call[p] # NoCall /\ release[p] = NoRelease /\ call' = [call EXCEPT ![p] = NoCall]
      /\ Dropped(p, c, users[c], call')
      /\ UNCHANGED <<alive, users, fd, inherited, table, processi, next, pprev, id, mem, touched, clashed>>
  BY DEF CallReturn, procs, table
<1>2. /\ ~clashed => ReleaseOK(p)'
      /\ release' \in {release, [release EXCEPT ![p] = First]}
      /\ users[c] = {} /\ (\A q \in Processes : call'[q].file # c) => release' = [release EXCEPT ![p] = First]
      /\ users[c] # {} => release' = release
      /\ First # NoRelease /\ First.at = "walk"
      /\ \A q \in Processes : release'[q] = release[q] \/ (q = p /\ release'[q] = First)
      /\ call'[p].node \in {NONE, call[p].node} => CursorsOK(p)'
  <2>1. Dropped(p, c, users[c], call') /\ UNCHANGED table
    BY <1>1
  <2> HIDE DEF c
  <2> QED  BY <2>1, DroppedWalks
<1>3. /\ \A q \in Processes : ProcessOK(q)
      /\ \A g \in Files : FileOK(g) /\ (g \notin inherited => OwnFile(g))
  BY DEF DInv, Life
<1>4. /\ \A q \in Processes : release'[q] = release[q] \/ (q = p /\ release'[q] = First)
      /\ call'[p] = NoCall /\ \A q \in Processes : q # p => call'[q] = call[q]
  BY <1>1, <1>2 DEF DInv, TypeInv, RestInv, RestTypes
<1>5. alive[p] = "alive" => release'[p] = release[p]
  <2> SUFFICES ASSUME alive[p] = "alive" PROVE users[c] # {}
    BY <1>2
  <2>1. fd[p] = c /\ c \in Files /\ mem[c] \in {"kept", "freed"}
    BY <1>1, <1>3 DEF ProcessOK
  <2> QED  BY <1>3, <2>1 DEF ProcessOK
<1>6. ASSUME NEW q \in Processes PROVE ProcessOK(q)'
  <2>1. CASE q # p
    BY <1>1, <1>3, <1>4, <2>1 DEF ProcessOK
  <2>2. CASE q = p
    <3>1. release'[p].at = "idle" => release'[p] = NoRelease
      BY <1>1, <1>2, <1>4
    <3>2. release'[p] # NoRelease => alive[p] \in {"closing", "dying"}
      BY <1>1, <1>3, <1>5 DEF ProcessOK
    <3> QED  BY <1>1, <1>3, <1>4, <2>2, <3>1, <3>2 DEF ProcessOK
  <2> QED  BY <2>1, <2>2
<1>7. ASSUME NEW g \in Files PROVE FileOK(g)' /\ (g \notin inherited => OwnFile(g)')
  BY <1>1, <1>3, <1>4 DEF FileOK, OwnFile
<1>8. ASSUME NoneLeft, NEW g \in Files, g \notin inherited, Outlived(g)' PROVE FALSE
  <2>1. /\ mem[g] = "kept" /\ users[g] = {} /\ \A q \in Processes : call'[q].file # g
        /\ release'[id[g]] = NoRelease /\ OwnFile(g) /\ ~Outlived(g) /\ id[g] \in Processes
    BY <1>1, <1>3, <1>8 DEF NoneLeft, Outlived, FileOK
  <2>2. release[id[g]] = NoRelease
    BY <1>2, <1>4, <2>1
  <2>3. g = c
    BY <1>4, <2>1, <2>2 DEF Outlived
  <2>4. id[g] = p
    BY <1>1, <2>1, <2>3 DEF OwnFile
  <2>5. release' = [release EXCEPT ![p] = First]
    BY <1>2, <2>1, <2>3
  <2>6. release'[p] = First
    BY <2>5 DEF DInv, TypeInv, RestInv, RestTypes
  <2> QED  BY <1>2, <2>1, <2>4, <2>6
<1>9. Life'
  BY <1>1, <1>6, <1>7 DEF Life
<1>10. CursorsOK(p)'
  BY <1>2, <1>4 DEF NoCall
<1>11. ASSUME ~clashed PROVE CallOK(p)' /\ ReleaseOK(p)' /\ NoneLeft' /\ ~touched'
  <2>1. CallOK(p)'
    <3>1. call'[p].node = NONE
      BY <1>4 DEF NoCall
    <3>2. From(call[p].node, {})'
      BY <3>1 DEF From
    <3> QED  BY <3>2 DEF CallOK, Clean
  <2>2. NoneLeft'
    BY <1>1, <1>8, <1>11 DEF DInv, Tidy, NoneLeft
  <2>3. ~touched'
    BY <1>1, <1>11 DEF DInv, Tidy
  <2> QED  BY <1>2, <1>11, <2>1, <2>2, <2>3
<1> QED  BY <1>1, <1>2, <1>4, <1>9, <1>10, <1>11, CursorsMove
-----------------------------------------------------------------------------
(* Releases.  The walk of a release leads to all that is left of its own,  *)
(* and no link leads back to an entry that it has passed.                  *)
LEMMA ReleaseLooks ==
  ASSUME DInv, TypeInv', NEW p \in Processes, ReleaseLook(p)
  PROVE  DInv'
<1> USE Names
<1> DEFINE w == release[p]  n == w.node
<1>1. /\ w.at = "walk" /\ n \in Files
      /\ release' = [release EXCEPT ![p] =
           IF id[n] = p THEN [w EXCEPT !.at = "free", !.tmp = next[n]] ELSE [w EXCEPT !.node = next[n]]]
      /\ UNCHANGED <<alive, users, fd, inherited, call, processi, next, pprev, id, mem, touched, clashed>>
  BY DEF ReleaseLook, procs, table, Mine, DInv, TypeInv, RestInv, RestTypes, Node
<1>2. /\ \A q \in Processes : ProcessOK(q)
      /\ \A g \in Files : FileOK(g) /\ (g \notin inherited => OwnFile(g))
      /\ CursorsOK(p) /\ EntryOK(n)
  BY <1>1 DEF DInv, Life, Pointers
<1>3. /\ w \in [at : {"idle", "walk", "free"}, bucket : Buckets, node : Node, tmp : Node]
      /\ Bucket[p] \in Buckets
      /\ \A q \in Processes : q # p => release'[q] = release[q]
  BY <1>1 DEF DInv, TypeInv, RestInv, RestTypes
<1>4. release'[p] = IF id[n] = p THEN [w EXCEPT !.at = "free", !.tmp = next[n]] ELSE [w EXCEPT !.node = next[n]]
  BY <1>1 DEF DInv, TypeInv, RestInv, RestTypes
<1>5. /\ release'[p].bucket = w.bucket
      /\ id[n] = p => release'[p].at = "free" /\ release'[p].node = n /\ release'[p].tmp = next[n]
      /\ id[n] # p => release'[p].at = "walk" /\ release'[p].node = next[n] /\ release'[p].tmp = w.tmp
  <2>1. w.at = "walk"
    BY <1>1
  <2>2. CASE id[n] = p
    <3>1. release'[p] = [w EXCEPT !.at = "free", !.tmp = next[n]]
      BY <1>4, <2>2
    <3> QED  BY <1>3, <2>2, <3>1
  <2>3. CASE id[n] # p
    <3>1. release'[p] = [w EXCEPT !.node = next[n]]
      BY <1>4, <2>3
    <3> QED  BY <1>3, <2>1, <2>3, <3>1
  <2> QED  BY <2>2, <2>3
<1>6. CursorsOK(p)'
  BY <1>1, <1>2, <1>5 DEF CursorsOK, EntryOK, Linked
<1>7. ASSUME ~clashed PROVE ReleaseOK(p)'
  <2>1. ReleaseOK(p) /\ mem[n] \in {"kept", "freed"} /\ n # NONE
    BY <1>1, <1>2, <1>7 DEF DInv, Tidy, Walks, CursorsOK, Linked
  <2>2. PICK S \in SUBSET Files :
          From(n, S) /\ NONE \notin S /\ \A f \in S : id[f] = p => mem[f] = "kept"
    BY <1>1, <2>1 DEF ReleaseOK, Clean
  <2>3. n \in S
    BY <2>1, <2>2 DEF From
  <2>4. CASE id[n] = p
    <3>1. PICK rank \in [Files -> Nat] : OrderOK(rank)
      BY DEF DInv, Ordered
    <3> DEFINE T == {f \in S : rank[n] < rank[f]}
    <3>2. From(next[n], T) /\ n \notin T
      <4>1. next[n] # NONE => next[n] \in T
        BY <1>1, <2>1, <2>2, <2>3, <3>1 DEF From, OrderOK
      <4>2. ASSUME NEW g \in T
            PROVE  mem[g] \in {"kept", "freed"} /\ (next[g] # NONE => next[g] \in T)
        <5>1. mem[g] \in {"kept", "freed"} /\ (next[g] # NONE => next[g] \in S)
          BY <2>2 DEF From
        <5>2. next[g] # NONE => rank[g] < rank[next[g]] /\ rank[next[g]] \in Nat
          BY <3>1, <5>1 DEF OrderOK
        <5>3. rank[n] \in Nat /\ rank[g] \in Nat /\ rank[n] < rank[g]
          BY <1>1
        <5>4. next[g] # NONE => rank[n] < rank[next[g]]
          BY <5>2, <5>3
        <5> QED  BY <5>1, <5>4
      <4>3. n \notin T
        BY <1>1
      <4> QED  BY <4>1, <4>2, <4>3 DEF From
    <3>3. T \in SUBSET Files /\ \A f \in T : id[f] = p => mem[f] = "kept"
      BY <2>2
    <3> HIDE DEF T
    <3>4. Clean(p, next[n], n)
      BY <3>2, <3>3 DEF Clean
    <3>5. /\ release'[p].at = "free" /\ release'[p].tmp = next'[n] /\ release'[p].node = n
          /\ release'[p].bucket = w.bucket /\ mem'[n] = "kept"
      BY <1>1, <1>5, <2>2, <2>3, <2>4
    <3>6. Clean(p, release[p].tmp, release[p].node)'
      BY <1>1, <3>4, <3>5 DEF Clean, From
    <3>7. (w.bucket = Bucket[p] => Meets(p, release[p].node)')
      BY <1>1, <2>1, <3>5 DEF ReleaseOK, Meets, From, Own
    <3>8. w.bucket > Bucket[p] => Own(p)' = {}
      BY <1>1, <2>1 DEF ReleaseOK, Own
    <3> QED  BY <3>5, <3>6, <3>7, <3>8 DEF ReleaseOK
  <2>5. CASE id[n] # p
    <3>1. From(next[n], S)
      BY <2>2, <2>3 DEF From
    <3>2. Clean(p, next[n], NONE)
      BY <2>2, <3>1 DEF Clean
    <3>3. ASSUME Meets(p, n) PROVE Meets(p, next[n])
      <4> SUFFICES ASSUME NEW U \in SUBSET Files, From(next[n], U) PROVE Own(p) \subseteq U
        BY DEF Meets
      <4>1. From(n, U \cup {n}) /\ U \cup {n} \in SUBSET Files
        BY <1>1, <2>1 DEF From
      <4>2. Own(p) \subseteq U \cup {n}
        BY <3>3, <4>1 DEF Meets
      <4> QED  BY <2>5, <4>2 DEF Own
    <3>4. /\ release'[p].at = "walk" /\ release'[p].node = next'[n] /\ release'[p].bucket = w.bucket
      BY <1>1, <1>5, <2>5
    <3>5. Clean(p, release[p].node, NONE)'
      BY <1>1, <3>2, <3>4 DEF Clean, From
    <3>6. w.bucket = Bucket[p] => Meets(p, next[n])
      BY <1>1, <2>1, <3>3 DEF ReleaseOK
    <3>7. w.bucket = Bucket[p] => Meets(p, release[p].node)'
      BY <1>1, <3>4, <3>6 DEF Meets, From, Own
    <3>8. w.bucket > Bucket[p] => Own(p)' = {}
      BY <1>1, <2>1 DEF ReleaseOK, Own
    <3> QED  BY <3>4, <3>5, <3>7, <3>8 DEF ReleaseOK
  <2> QED  BY <2>4, <2>5
<1>8. w # NoRelease /\ release'[p] # NoRelease
  <2>1. w.at = "walk" /\ release'[p].at \in {"walk", "free"}
    BY <1>1, <1>5
  <2>2. NoRelease.at = "idle"
    BY DEF NoRelease
  <2> QED  BY <2>1, <2>2
<1>9. ASSUME NEW q \in Processes PROVE ProcessOK(q)'
  <2>1. CASE q # p
    BY <1>1, <1>2, <1>3, <2>1 DEF ProcessOK
  <2>2. CASE q = p
    BY <1>1, <1>2, <1>5, <1>8, <2>2 DEF ProcessOK
  <2> QED  BY <2>1, <2>2
<1>10. ASSUME NEW g \in Files PROVE FileOK(g)' /\ (g \notin inherited => OwnFile(g)')
  BY <1>1, <1>2 DEF FileOK, OwnFile
<1>11. Life'
  BY <1>1, <1>9, <1>10 DEF Life
<1>12. ASSUME NoneLeft, NEW g \in Files \ inherited, Outlived(g)' PROVE FALSE
  <2>1. release'[id[g]] = NoRelease /\ mem[g] = "kept" /\ id[g] \in Processes
    BY <1>1, <1>2, <1>12 DEF FileOK, Outlived
  <2>2. release[id[g]] = NoRelease
    BY <1>3, <1>8, <2>1
  <2> QED  BY <1>1, <1>12, <2>2 DEF NoneLeft, Outlived
<1>13. ASSUME ~clashed PROVE CallOK(p)' /\ NoneLeft' /\ ~touched'
  <2>1. CallOK(p) /\ NoneLeft /\ ~touched
    BY <1>13 DEF DInv, Tidy, Walks
  <2>2. CallOK(p)'
    BY <1>1, <2>1, WalkStays DEF table
  <2>3. NoneLeft'
    BY <1>1, <1>12, <2>1 DEF NoneLeft
  <2> QED  BY <1>1, <2>1, <2>2, <2>3
<1> QED  BY <1>1, <1>3, <1>6, <1>7, <1>11, <1>13, CursorsMove DEF table

LEMMA ReleaseMoves ==
  ASSUME DInv, TypeInv', NEW p \in Processes, ReleaseNext(p)
  PROVE  DInv'
<1> USE Names
<1> DEFINE w == release[p]
<1>1. /\ w.at = "walk" /\ w.node = NONE
      /\ release' = [release EXCEPT ![p] =
           IF w.bucket = Last THEN NoRelease
           ELSE [w EXCEPT !.bucket = w.bucket + 1, !.node = processi[w.bucket + 1]]]
      /\ UNCHANGED <<alive, users, fd, inherited, call, processi, next, pprev, id, mem, touched, clashed>>
  BY DEF ReleaseNext, procs, table
<1>2. /\ \A q \in Processes : ProcessOK(q)
      /\ \A g \in Files : FileOK(g) /\ (g \notin inherited => OwnFile(g))
      /\ CursorsOK(p)
  BY DEF DInv, Life, Pointers
<1>3. /\ w \in [at : {"idle", "walk", "free"}, bucket : Buckets, node : Node, tmp : Node]
      /\ w.bucket \in 0..Last /\ Bucket[p] \in 0..Last
      /\ \A q \in Processes : q # p => release'[q] = release[q]
      /\ release'[p] = IF w.bucket = Last THEN NoRelease
           ELSE [w EXCEPT !.bucket = w.bucket + 1, !.node = processi[w.bucket + 1]]
  BY <1>1 DEF DInv, TypeInv, RestInv, RestTypes, Buckets
<1>4. w.bucket # Last =>
        /\ release'[p].at = "walk" /\ release'[p].bucket = w.bucket + 1
        /\ release'[p].node = processi[w.bucket + 1] /\ w.bucket + 1 \in Buckets
        /\ release'[p].tmp = w.tmp
  <2> SUFFICES ASSUME w.bucket # Last
               PROVE  /\ release'[p].at = "walk" /\ release'[p].bucket = w.bucket + 1
                      /\ release'[p].node = processi[w.bucket + 1] /\ w.bucket + 1 \in Buckets
                      /\ release'[p].tmp = w.tmp
    OBVIOUS
  <2>1. release'[p] = [w EXCEPT !.bucket = w.bucket + 1, !.node = processi[w.bucket + 1]]
    BY <1>3
  <2>2. w.bucket + 1 \in Buckets
    BY <1>3 DEF Buckets
  <2>3. w.at = "walk"
    BY <1>1
  <2> QED  BY <1>3, <2>1, <2>2, <2>3
<1>5. ASSUME ~clashed, w.bucket >= Bucket[p] PROVE Own(p) = {}
  <2>1. ReleaseOK(p)
    BY <1>5 DEF DInv, Tidy, Walks
  <2>2. CASE w.bucket > Bucket[p]
    BY <1>1, <2>1, <2>2 DEF ReleaseOK
  <2>3. CASE w.bucket = Bucket[p]
    <3>1. Meets(p, NONE)
      BY <1>1, <2>1, <2>3 DEF ReleaseOK
    <3>2. From(NONE, {})
      BY DEF From
    <3> QED  BY <3>1, <3>2 DEF Meets
  <2> QED  BY <1>3, <1>5, <2>2, <2>3
<1>6. CursorsOK(p)' /\ (~clashed => ReleaseOK(p)')
  <2>1. CASE w.bucket = Last
    <3>1. release'[p] = NoRelease
      BY <1>3, <2>1
    <3>2. release'[p].at = "idle" /\ release'[p].node = NONE /\ release'[p].tmp = NONE
      BY <3>1 DEF NoRelease
    <3>3. CursorsOK(p)'
      BY <1>1, <1>2, <3>2 DEF CursorsOK, Linked
    <3>4. ReleaseOK(p)'
      BY <3>2 DEF ReleaseOK
    <3> QED  BY <3>3, <3>4
  <2>2. CASE w.bucket # Last
    <3> DEFINE b == w.bucket + 1
    <3>1. /\ release'[p].at = "walk" /\ release'[p].bucket = b
          /\ release'[p].node = processi'[b] /\ b \in Buckets /\ release'[p].tmp = w.tmp
      BY <1>1, <1>4, <2>2
    <3>2. CursorsOK(p)'
      <4>1. Linked(processi[b])
        BY <3>1 DEF DInv, Pointers
      <4> QED  BY <1>1, <1>2, <3>1, <4>1 DEF CursorsOK, Linked
    <3>3. ASSUME ~clashed PROVE ReleaseOK(p)'
      <4>1. Clean(p, processi[b], NONE) /\ (b = Bucket[p] => Meets(p, processi[b]))
        BY <3>1, <3>3, HeadClean, HeadMeets DEF DInv, Tidy
      <4>2. Clean(p, release[p].node, NONE)'
        BY <1>1, <3>1, <4>1 DEF Clean, From
      <4>3. b = Bucket[p] => Meets(p, release[p].node)'
        BY <1>1, <3>1, <4>1 DEF Meets, From, Own
      <4>4. b > Bucket[p] => w.bucket >= Bucket[p]
        BY <1>3
      <4>5. b > Bucket[p] => Own(p)' = {}
        BY <1>1, <1>5, <3>3, <4>4 DEF Own
      <4> HIDE DEF b
      <4> QED  BY <3>1, <4>2, <4>3, <4>5 DEF ReleaseOK
    <3> QED  BY <3>2, <3>3
  <2> QED  BY <2>1, <2>2
<1>7. w # NoRelease /\ (w.bucket # Last => release'[p] # NoRelease)
  <2>1. w.at = "walk" /\ (w.bucket # Last => release'[p].at = "walk")
    BY <1>1, <1>4
  <2>2. NoRelease.at = "idle"
    BY DEF NoRelease
  <2> QED  BY <2>1, <2>2
<1>8. ASSUME NEW q \in Processes PROVE ProcessOK(q)'
  <2>1. CASE q # p
    BY <1>1, <1>2, <1>3, <2>1 DEF ProcessOK
  <2>2. CASE q = p
    BY <1>1, <1>2, <1>3, <1>4, <1>7, <2>2 DEF ProcessOK
  <2> QED  BY <2>1, <2>2
<1>9. ASSUME NEW g \in Files PROVE FileOK(g)' /\ (g \notin inherited => OwnFile(g)')
  BY <1>1, <1>2 DEF FileOK, OwnFile
<1>10. ASSUME ~clashed, NEW g \in Files \ inherited, Outlived(g)' PROVE FALSE
  <2>1. /\ mem[g] = "kept" /\ release'[id[g]] = NoRelease /\ release[id[g]] # NoRelease
        /\ id[g] \in Processes
    BY <1>1, <1>2, <1>10 DEF Outlived, DInv, Tidy, NoneLeft, FileOK
  <2>2. id[g] = p /\ w.bucket = Last
    BY <1>3, <1>7, <2>1
  <2> QED  BY <1>3, <1>5, <1>10, <2>1, <2>2 DEF Own
<1>11. Life'
  BY <1>1, <1>8, <1>9 DEF Life
<1>12. ASSUME ~clashed PROVE CallOK(p)' /\ NoneLeft' /\ ~touched'
  <2>1. CallOK(p) /\ ~touched
    BY <1>12 DEF DInv, Tidy, Walks
  <2>2. CallOK(p)'
    BY <1>1, <2>1, WalkStays DEF table
  <2>3. NoneLeft'
    BY <1>1, <1>10, <1>12 DEF NoneLeft
  <2> QED  BY <1>1, <2>1, <2>2, <2>3
<1> QED  BY <1>1, <1>3, <1>6, <1>11, <1>12, CursorsMove DEF table

\* The walks of a process go on as they should after a step of another one.
LEMMA StillWalks ==
  ASSUME NEW q \in Processes, NEW w, release'[q] = w,
         w.at = "walk" => Clean(q, w.node, NONE)',
         w.at = "free" => mem'[w.node] = "kept" /\ w.tmp = next'[w.node] /\ Clean(q, w.tmp, w.node)',
         w.at # "idle" /\ w.bucket = Bucket[q] => Meets(q, w.node)',
         w.at # "idle" /\ w.bucket > Bucket[q] => Own(q)' = {}
  PROVE  ReleaseOK(q)'
BY DEF ReleaseOK, Clean, From, Meets, Own

\* Walks when the entry n is taken out between a and h.
TakenOut(n, a, h) ==
  /\ n \in Files /\ a \in Node /\ h \in Node
  /\ next[n] = h /\ mem[n] = "kept" /\ (a # NONE => next[a] = n)
  /\ UNCHANGED id
  /\ \A g \in Files : next'[g] = IF g = a THEN h ELSE next[g]
  /\ \A g \in Files : mem'[g] = IF g = n THEN "freed" ELSE mem[g]

LEMMA WalksPass ==
  ASSUME NEW n, NEW a, NEW h, TakenOut(n, a, h), NEW q \in Processes, NEW m, NEW x
  PROVE  /\ id[n] # q /\ Clean(q, m, x) => Clean(q, m, x)'
         /\ Clean(q, h, n) => Clean(q, h, NONE)'
         /\ id[n] # q /\ Meets(q, m) => Meets(q, m)'
         /\ Meets(q, n) => Meets(q, h)'
<1> USE Names DEF TakenOut
<1>1. ASSUME NEW S \in SUBSET Files, From(m, S) PROVE From(m, S)'
  BY <1>1, Names DEF From, Node
<1>2. ASSUME id[n] # q, Clean(q, m, x) PROVE Clean(q, m, x)'
  BY <1>1, <1>2 DEF Clean
<1>3. ASSUME Clean(q, h, n) PROVE Clean(q, h, NONE)'
  <2>1. PICK S \in SUBSET Files : From(h, S) /\ n \notin S /\ \A f \in S : id[f] = q => mem[f] = "kept"
    BY <1>3 DEF Clean
  <2>2. a \notin S
    BY <2>1, Names DEF From
  <2>3. From(h, S)'
    BY <2>1, <2>2 DEF From
  <2> QED  BY <2>1, <2>3, Names DEF Clean
<1>4. ASSUME NEW S \in SUBSET Files,
             \A g \in S : mem'[g] \in {"kept", "freed"} /\ (next'[g] # NONE => next'[g] \in S)
      PROVE  /\ \A g \in S : mem[g] \in {"kept", "freed"} /\ (next[g] # NONE => next[g] \in S \cup {n})
             /\ a \in S \/ n \in S => (h # NONE => h \in S)
  <2>1. ASSUME NEW g \in S
        PROVE  mem[g] \in {"kept", "freed"} /\ (next[g] # NONE => next[g] \in S \cup {n})
    BY <1>4 DEF Node
  <2>2. a \in S \/ n \in S => (h # NONE => h \in S)
    BY <1>4
  <2> QED  BY <2>1, <2>2
<1>5. ASSUME id[n] # q, Meets(q, m) PROVE Meets(q, m)'
  <2> SUFFICES ASSUME NEW S \in SUBSET Files, From(m, S)' PROVE Own(q)' \subseteq S
    BY DEF Meets
  <2>1. /\ m # NONE => m \in S
        /\ \A g \in S : mem'[g] \in {"kept", "freed"} /\ (next'[g] # NONE => next'[g] \in S)
    BY DEF From
  <2>2. Own(q) \subseteq S \cup {n}
    <3>1. CASE a \in S \/ n \in S
      <4>1. From(m, S \cup {n}) /\ S \cup {n} \in SUBSET Files
        BY <1>4, <2>1, <3>1 DEF From
      <4> QED  BY <1>5, <4>1 DEF Meets
    <3>2. CASE a \notin S /\ n \notin S
      <4>1. From(m, S)
        BY <1>4, <2>1, <3>2 DEF From
      <4> QED  BY <1>5, <4>1 DEF Meets
    <3> QED  BY <3>1, <3>2
  <2> QED  BY <1>5, <2>2 DEF Own
<1>6. ASSUME Meets(q, n) PROVE Meets(q, h)'
  <2> SUFFICES ASSUME NEW S \in SUBSET Files, From(h, S)' PROVE Own(q)' \subseteq S
    BY DEF Meets
  <2>1. /\ h # NONE => h \in S
        /\ \A g \in S : mem'[g] \in {"kept", "freed"} /\ (next'[g] # NONE => next'[g] \in S)
    BY DEF From
  <2>2. From(n, S \cup {n}) /\ S \cup {n} \in SUBSET Files
    BY <1>4, <2>1 DEF From
  <2>3. Own(q) \subseteq S \cup {n}
    BY <1>6, <2>2 DEF Meets
  <2> QED  BY <2>3 DEF Own
<1> QED  BY <1>2, <1>3, <1>5, <1>6

\* Two updates of a chain that overlap are a clash.
LEMMA NoClash ==
  ASSUME NEW p \in Processes, Stores(p), ~clashed'
  PROVE  ~clashed /\ \A q \in Processes : q # p /\ Bucket[q] = Bucket[p] => ~Updating(q)
BY DEF Stores

LEMMA ReleaseFrees ==
  ASSUME DInv, TypeInv', NEW p \in Processes, ReleaseFree(p)
  PROVE  DInv'
<1> USE Names
<1> DEFINE w == release[p]
<1>1. PICK n \in Files, a \in Node, h \in Node, t \in Node :
        /\ n = w.node /\ a = pprev[n] /\ h = next[n] /\ t = w.tmp
  <2>1. w.at = "free"
    BY DEF ReleaseFree
  <2>2. w.node \in Files
    BY <2>1 DEF DInv, TypeInv, RestInv, Freeing
  <2> QED  BY <2>1, <2>2 DEF DInv, TypeInv, RestInv, RestTypes
<1>2. /\ \A q \in Processes : ProcessOK(q) /\ CursorsOK(q)
      /\ \A g \in Files : FileOK(g) /\ EntryOK(g) /\ (g \notin inherited => OwnFile(g))
      /\ \A b \in Buckets : Linked(processi[b])
      /\ \A g \in Files : next[g] \in Node /\ pprev[g] \in Node
  BY DEF DInv, Life, Pointers, TypeInv, RestInv, RestTypes
<1>3. /\ w.at = "free" /\ Bucket[p] \in Buckets /\ id[n] = p /\ mem[n] \in {"kept", "freed"}
      /\ w \in [at : {"idle", "walk", "free"}, bucket : Buckets, node : Node, tmp : Node]
  <2>1. w.at = "free"
    BY DEF ReleaseFree
  <2>2. n # NONE /\ Linked(w.node) /\ id[w.node] = p
    BY <1>2, <2>1 DEF CursorsOK
  <2> QED  BY <1>1, <2>1, <2>2 DEF Linked, DInv, TypeInv, RestInv, RestTypes
<1>4. /\ UNCHANGED <<alive, users, fd, inherited, call, id, touched>> /\ Stores(p)
      /\ mem' = [mem EXCEPT ![n] = "freed"]
      /\ release' = [release EXCEPT ![p] = [w EXCEPT !.at = "walk", !.node = w.tmp, !.tmp = NONE]]
  BY <1>1 DEF ReleaseFree, procs
<1>5. /\ \A g \in Files : next'[g] = IF g = a THEN h ELSE next[g]
      /\ \A g \in Files : pprev'[g] = IF g = h THEN a ELSE pprev[g]
      /\ \A b \in Buckets : processi'[b] = IF b = Bucket[p] /\ a = NONE THEN h ELSE processi[b]
  <2> DEFINE before == {f \in Files : f = pprev[n]}
             after  == {f \in Files : f = next[n]}
  <2>1. /\ processi' = IF before = {} THEN [processi EXCEPT ![Bucket[p]] = next[n]] ELSE processi
        /\ next'  = [f \in Files |-> IF f \in before THEN next[n] ELSE next[f]]
        /\ pprev' = [f \in Files |-> IF f \in after THEN pprev[n] ELSE pprev[f]]
    BY <1>1, <1>3 DEF ReleaseFree
  <2>2. /\ \A g \in Files : (g \in before <=> g = a) /\ (g \in after <=> g = h)
        /\ before = {} <=> a = NONE
    BY <1>1 DEF Node
  <2> HIDE DEF before, after
  <2> QED  BY <1>1, <2>1, <2>2 DEF DInv, TypeInv, RestInv, RestTypes
<1>6. /\ \A g \in Files : mem'[g] = IF g = n THEN "freed" ELSE mem[g]
      /\ \A q \in Processes : q # p => release'[q] = release[q]
      /\ release'[p].at = "walk" /\ release'[p].node = t /\ release'[p].tmp = NONE
      /\ release'[p].bucket = w.bucket
  <2>1. release'[p] = [w EXCEPT !.at = "walk", !.node = w.tmp, !.tmp = NONE]
    BY <1>4 DEF DInv, TypeInv, RestInv, RestTypes
  <2> QED  BY <1>1, <1>3, <1>4, <2>1 DEF DInv, TypeInv, RestInv, RestTypes
<1>7. w # NoRelease /\ release'[p] # NoRelease
  BY <1>3, <1>6 DEF NoRelease
<1>8. fd[p] = NONE /\ call[p] = NoCall
  BY <1>2, <1>7 DEF ProcessOK
<1>9. ASSUME NEW q \in Processes PROVE ProcessOK(q)'
  <2>1. CASE q # p
    <3>1. release'[q] = release[q]
      BY <1>6, <2>1
    <3>2. /\ fd[q] # NONE => fd[q] \in Files
          /\ call[q] # NoCall => call[q].file \in Files
      BY <1>2 DEF DInv, TypeInv, RestInv, RestTypes, Node, ProcessOK
    <3>3. fd[q] = n => q \in users[n]
      BY <1>2, <1>3, <2>1 DEF ProcessOK
    <3> QED  BY <1>2, <1>4, <1>6, <3>1, <3>2, <3>3 DEF ProcessOK
  <2>2. CASE q = p
    BY <1>2, <1>4, <1>6, <1>7, <1>8, <2>2 DEF ProcessOK
  <2> QED  BY <2>1, <2>2
<1>10. ASSUME NEW g \in Files PROVE FileOK(g)' /\ (g \notin inherited => OwnFile(g)')
  <2>1. FileOK(g)'
    BY <1>2, <1>3, <1>4, <1>6 DEF FileOK
  <2>2. g \notin inherited => OwnFile(g)'
    BY <1>2, <1>3, <1>4, <1>6, <1>8 DEF OwnFile
  <2> QED  BY <2>1, <2>2
<1>11. Life'
  BY <1>4, <1>9, <1>10 DEF Life
<1>12. Linked(a) /\ Linked(h) /\ Linked(t)
  BY <1>1, <1>2 DEF EntryOK, CursorsOK
<1>13. \A m \in Node : Linked(m) => Linked(m)'
  BY <1>6 DEF Linked, Node
<1>14. Pointers'
  <2>1. ASSUME NEW b \in Buckets PROVE Linked(processi[b])'
    BY <1>2, <1>5, <1>6, <1>12 DEF Linked, DInv, TypeInv, RestInv, RestTypes, Node
  <2>2. ASSUME NEW g \in Files PROVE EntryOK(g)'
    <3>1. Linked(next[g])' /\ Linked(pprev[g])'
      BY <1>2, <1>5, <1>6, <1>12 DEF EntryOK, Linked, Node
    <3>2. mem'[g] \in {"none", "new"} => g # h /\ g # n
      BY <1>6, <1>12 DEF Linked
    <3>3. mem'[g] = "none" => g # a
      BY <1>6, <1>12 DEF Linked
    <3> QED  BY <1>2, <1>5, <1>6, <3>1, <3>2, <3>3 DEF EntryOK
  <2>3. ASSUME NEW q \in Processes PROVE CursorsOK(q)'
    <3>1. /\ call[q].node \in Node /\ release[q].node \in Node /\ release[q].tmp \in Node
      BY DEF DInv, TypeInv, RestInv, RestTypes
    <3>2. CASE q # p
      BY <1>2, <1>4, <1>6, <3>1, <3>2 DEF CursorsOK, Linked, Node
    <3>3. CASE q = p
      BY <1>2, <1>4, <1>6, <1>12, <3>1, <3>3 DEF CursorsOK, Linked, Node
    <3> QED  BY <3>2, <3>3
  <2> QED  BY <2>1, <2>2, <2>3 DEF Pointers
<1>15. Ordered'
  <2>1. PICK rank \in [Files -> Nat] : OrderOK(rank)
    BY DEF DInv, Ordered
  <2>2. /\ h # NONE => h \in Files /\ rank[n] < rank[h]
        /\ a # NONE => a \in Files /\ rank[a] < rank[n]
        /\ a # NONE /\ h # NONE => rank[a] < rank[h]
    <3>1. /\ h # NONE => h \in Files /\ rank[n] < rank[h]
          /\ a # NONE => a \in Files /\ rank[a] < rank[n]
      BY <1>1, <1>3, <2>1 DEF OrderOK, Node
    <3>2. rank[n] \in Nat /\ (h \in Files => rank[h] \in Nat) /\ (a \in Files => rank[a] \in Nat)
      OBVIOUS
    <3> QED  BY <3>1, <3>2
  <2>3. OrderOK(rank)'
    <3> SUFFICES ASSUME NEW g \in Files
                 PROVE  /\ mem'[g] # "new" /\ next'[g] # NONE => rank[g] < rank[next'[g]]
                        /\ pprev'[g] # NONE => rank[pprev'[g]] < rank[g]
      BY DEF OrderOK
    <3>1. mem'[g] # "new" => mem[g] # "new"
      BY <1>3, <1>6
    <3>2. mem'[g] # "new" /\ next'[g] # NONE => rank[g] < rank[next'[g]]
      BY <1>5, <2>1, <2>2, <3>1 DEF OrderOK
    <3>3. pprev'[g] # NONE => rank[pprev'[g]] < rank[g]
      BY <1>5, <2>1, <2>2 DEF OrderOK
    <3> QED  BY <3>2, <3>3
  <2> QED  BY <2>3 DEF Ordered
<1>16. ASSUME ~clashed'
       PROVE  /\ ~clashed /\ Tidy
              /\ mem[n] = "kept" /\ t = h /\ LinkOK(n) /\ (a # NONE => a \in Chain(Bucket[p]) /\ next[a] = n)
              /\ \A q \in Processes : q # p /\ Bucket[q] = Bucket[p] => ~Updating(q)
  <2>1. ~clashed /\ \A q \in Processes : q # p /\ Bucket[q] = Bucket[p] => ~Updating(q)
    BY <1>4, <1>16, NoClash
  <2>2. Tidy /\ ReleaseOK(p) /\ LinkOK(n)
    BY <2>1 DEF DInv, Tidy, Walks, Sound
  <2>3. mem[n] = "kept" /\ t = h
    BY <1>1, <1>3, <2>2 DEF ReleaseOK
  <2> QED  BY <1>1, <1>3, <2>1, <2>2, <2>3 DEF LinkOK
<1>17. ASSUME ~clashed' PROVE Sound'
  <2>1. ASSUME NEW g \in Files, mem[g] = "new" PROVE id[g] \in Processes /\ Bucket[id[g]] # Bucket[p]
    <3>1. id[g] \in Processes /\ fd[id[g]] = g
      BY <1>2, <2>1 DEF FileOK
    <3> QED  BY <1>8, <1>16, <1>17, <2>1, <3>1 DEF Updating
  <2>2. /\ h # NONE => h \in Chain(Bucket[p]) /\ h \in Files /\ pprev[h] = n
        /\ a # NONE => a \in Chain(Bucket[p]) /\ a \in Files /\ next[a] = n
        /\ a = NONE => processi[Bucket[p]] = n
        /\ a # n /\ h # n
    <3>1. a # n /\ h # n
      <4>1. PICK rank \in [Files -> Nat] : OrderOK(rank)
        BY DEF DInv, Ordered
      <4> QED  BY <1>1, <1>3, <4>1 DEF OrderOK
    <3> QED  BY <1>1, <1>3, <1>16, <1>17, <3>1 DEF LinkOK, Chain
  <2>3. \A b \in Buckets : Chain(b)' = Chain(b) \ {n}
    BY <1>4, <1>6 DEF Chain
  <2>4. /\ \A b \in Buckets : HeadOK(b) /\ processi[b] \in Node
        /\ \A g \in Files : LinkOK(g)
    BY <1>16, <1>17 DEF Tidy, Sound, DInv, TypeInv, RestInv, RestTypes
  <2>5. ASSUME NEW b \in Buckets PROVE HeadOK(b)'
    <3>1. CASE b = Bucket[p] /\ a = NONE
      BY <1>5, <2>2, <2>3, <3>1 DEF HeadOK
    <3>2. CASE b # Bucket[p] \/ a # NONE
      <4>1. processi'[b] = processi[b]
        BY <1>5, <3>2
      <4>2. processi[b] # NONE => processi[b] # n /\ processi[b] # h
        BY <1>1, <1>3, <2>2, <2>4, <3>2 DEF HeadOK, Chain
      <4>3. processi[b] # NONE => processi[b] \in Files /\ pprev'[processi[b]] = NONE
        BY <1>5, <2>4, <4>2 DEF HeadOK, Node
      <4> QED  BY <2>3, <2>4, <4>1, <4>2, <4>3 DEF HeadOK
    <3> QED  BY <3>1, <3>2
  <2>6. ASSUME NEW g \in Files PROVE LinkOK(g)'
    <3>1. LinkOK(g) /\ id'[g] = id[g] /\ FileOK(g)
      BY <1>2, <1>4, <2>4
    <3>2. CASE mem[g] = "new"
      <4>1. g # n /\ g # a /\ mem'[g] = "new"
        BY <1>6, <1>16, <1>17, <2>2, <3>2 DEF Chain
      <4>2. id[g] \in Processes /\ processi'[Bucket[id[g]]] = processi[Bucket[id[g]]]
        BY <1>5, <2>1, <3>2
      <4> QED  BY <1>5, <3>1, <3>2, <4>1, <4>2 DEF LinkOK
    <3>3. CASE mem[g] = "kept" /\ g # n
      <4>1. PICK b \in Buckets : b = Bucket[id[g]] /\ mem'[g] = "kept"
        BY <1>6, <3>1, <3>3 DEF FileOK
      <4>2. next'[g] # NONE => next'[g] \in Chain(b)' /\ pprev'[next'[g]] = g
        <5>1. CASE g = a
          BY <1>5, <2>2, <2>3, <4>1, <5>1 DEF Chain
        <5>2. CASE g # a
          <6>1. next'[g] = next[g]
            BY <1>5, <5>2
          <6>2. next[g] # NONE => next[g] \in Chain(b) /\ next[g] \in Files /\ pprev[next[g]] = g
            BY <3>1, <3>3, <4>1 DEF LinkOK, Chain
          <6>3. next[g] # NONE => next[g] # n /\ next[g] # h
            BY <1>1, <2>2, <3>3, <5>2, <6>2
          <6> QED  BY <1>5, <2>3, <4>1, <6>1, <6>2, <6>3
        <5> QED  BY <5>1, <5>2
      <4>3. pprev'[g] # NONE => pprev'[g] \in Chain(b)' /\ next'[pprev'[g]] = g
        <5>1. CASE g = h
          BY <1>5, <2>2, <2>3, <4>1, <5>1 DEF Chain
        <5>2. CASE g # h
          <6>1. pprev'[g] = pprev[g]
            BY <1>5, <5>2
          <6>2. pprev[g] # NONE => pprev[g] \in Chain(b) /\ pprev[g] \in Files /\ next[pprev[g]] = g
            BY <3>1, <3>3, <4>1 DEF LinkOK, Chain
          <6>3. pprev[g] # NONE => pprev[g] # n /\ pprev[g] # a
            BY <1>1, <2>2, <3>3, <5>2, <6>2
          <6> QED  BY <1>5, <2>3, <4>1, <6>1, <6>2, <6>3
        <5> QED  BY <5>1, <5>2
      <4>4. pprev'[g] = NONE => processi'[b] = g
        <5>1. CASE g = h
          BY <1>5, <2>2, <4>1, <5>1 DEF Chain
        <5>2. CASE g # h
          <6>1. pprev'[g] = pprev[g] /\ (pprev[g] = NONE => processi[b] = g)
            BY <1>5, <3>1, <3>3, <4>1, <5>2 DEF LinkOK
          <6>2. processi[b] = g => ~(b = Bucket[p] /\ a = NONE)
            BY <2>2, <3>3
          <6> QED  BY <1>5, <4>1, <6>1, <6>2
        <5> QED  BY <5>1, <5>2
      <4> QED  BY <1>4, <4>1, <4>2, <4>3, <4>4 DEF LinkOK, Chain
    <3>4. CASE mem[g] \in {"none", "freed"} \/ g = n
      BY <1>6, <3>4 DEF LinkOK
    <3> QED  BY <3>2, <3>3, <3>4 DEF DInv, TypeInv, RestInv, RestTypes
  <2> QED  BY <2>5, <2>6 DEF Sound
<1>18. ASSUME ~clashed', NEW q \in Processes PROVE CallOK(q)' /\ ReleaseOK(q)'
  <2>1. PICK c, r : c = call[q].node /\ r = release[q]
    OBVIOUS
  <2>2. CallOK(q) /\ ReleaseOK(q) /\ CursorsOK(q)
    BY <1>2, <1>16, <1>18 DEF Tidy, Walks
  <2>3. TakenOut(n, a, h)
    BY <1>1, <1>4, <1>5, <1>6, <1>16, <1>18 DEF TakenOut
  <2>4. CASE q = p
    <3>1. CallOK(q)'
      <4>1. call'[q].node = NONE
        BY <1>4, <1>8, <2>4 DEF NoCall
      <4>2. From(call[q].node, {})'
        BY <4>1 DEF From
      <4> QED  BY <4>2 DEF CallOK, Clean
    <3>2. PICK s : s = release'[p] /\ s.at = "walk" /\ s.node = h /\ s.bucket = w.bucket
      BY <1>6, <1>16, <1>18
    <3>3. Clean(p, h, n)
      BY <1>1, <1>3, <1>16, <1>18, <2>2, <2>4 DEF ReleaseOK
    <3>4. w.bucket = Bucket[p] => Meets(p, n)
      BY <1>1, <1>3, <2>2, <2>4 DEF ReleaseOK
    <3>5. w.bucket > Bucket[p] => Own(p) = {}
      BY <1>3, <2>2, <2>4 DEF ReleaseOK
    <3>6. Clean(p, h, NONE)' /\ (w.bucket = Bucket[p] => Meets(p, h)')
      BY <2>3, <3>3, <3>4, WalksPass
    <3>7. w.bucket > Bucket[p] => Own(p)' = {}
      BY <1>4, <1>6, <3>5 DEF Own
    <3>8. ReleaseOK(p)'
      BY <3>2, <3>6, <3>7, StillWalks
    <3> QED  BY <2>4, <3>1, <3>8
  <2>5. CASE q # p
    <3>1. id[n] # q /\ release'[q] = r /\ call'[q].node = c
      BY <1>3, <1>4, <1>6, <2>1, <2>5
    <3>2. ASSUME NEW m, NEW x
          PROVE  /\ Clean(q, m, x) => Clean(q, m, x)'
                 /\ Meets(q, m) => Meets(q, m)'
      BY <2>3, <3>1, WalksPass
    <3>3. CallOK(q)'
      <4>1. Clean(q, c, NONE)'
        BY <2>1, <2>2, <3>2 DEF CallOK
      <4> QED  BY <3>1, <4>1 DEF CallOK, Clean, From
    <3>4. r.at = "walk" => Clean(q, r.node, NONE)'
      BY <2>1, <2>2, <3>2 DEF ReleaseOK
    <3>5. ASSUME r.at = "free"
          PROVE  mem'[r.node] = "kept" /\ r.tmp = next'[r.node] /\ Clean(q, r.tmp, r.node)'
      <4>1. /\ r.node \in Files /\ mem[r.node] = "kept" /\ r.tmp = next[r.node]
            /\ Clean(q, r.tmp, r.node) /\ id[r.node] = q
        BY <2>1, <2>2, <3>5 DEF ReleaseOK, CursorsOK, DInv, TypeInv, RestInv, Freeing
      <4>2. Updating(q)
        BY <2>1, <3>5 DEF Updating
      <4>3. r.node # a
        BY <1>16, <1>18, <2>5, <4>1, <4>2 DEF Chain, Node
      <4> QED  BY <1>5, <1>6, <3>1, <3>2, <4>1, <4>3
    <3>6. r.at # "idle" /\ r.bucket = Bucket[q] => Meets(q, r.node)'
      BY <2>1, <2>2, <3>2 DEF ReleaseOK
    <3>7. r.at # "idle" /\ r.bucket > Bucket[q] => Own(q)' = {}
      <4>1. r.at # "idle" /\ r.bucket > Bucket[q] => Own(q) = {}
        BY <2>1, <2>2 DEF ReleaseOK
      <4> QED  BY <1>4, <1>6, <4>1 DEF Own
    <3>8. ReleaseOK(q)'
      BY <3>1, <3>4, <3>5, <3>6, <3>7, StillWalks
    <3> QED  BY <3>3, <3>8
  <2> QED  BY <2>4, <2>5
<1>19. ASSUME ~clashed' PROVE NoneLeft' /\ ~touched'
  <2>1. ASSUME NEW g \in Files \ inherited, Outlived(g)' PROVE FALSE
    <3>1. mem'[g] = "kept" /\ release'[id[g]] = NoRelease
      BY <1>4, <2>1 DEF Outlived
    <3>2. mem[g] = "kept" /\ id[g] \in Processes /\ id[g] # p
      BY <1>2, <1>6, <1>7, <3>1 DEF FileOK
    <3>3. Outlived(g)
      BY <1>4, <1>6, <2>1, <3>2 DEF Outlived
    <3> QED  BY <1>16, <1>19, <3>3 DEF Tidy, NoneLeft
  <2> QED  BY <1>4, <1>16, <1>19, <2>1 DEF Tidy, NoneLeft
<1>20. ASSUME ~clashed' PROVE Tidy'
  BY <1>17, <1>18, <1>19, <1>20 DEF Tidy, Walks
<1> QED  BY <1>11, <1>14, <1>15, <1>20 DEF DInv
-----------------------------------------------------------------------------
(* An open: the entry is made, out of everybody's sight, and then added.   *)
LEMMA OpenMakes ==
  ASSUME DInv, TypeInv', NEW p \in Processes, fib_open(p)
  PROVE  DInv'
<1> USE Names
<1>1. /\ \A q \in Processes : ProcessOK(q) /\ CursorsOK(q)
      /\ \A g \in Files : FileOK(g) /\ EntryOK(g) /\ (g \notin inherited => OwnFile(g))
      /\ \A b \in Buckets : Linked(processi[b])
  BY DEF DInv, Life, Pointers
<1>2. PICK f \in Files, h \in Node :
        /\ h = processi[Bucket[p]] /\ alive[p] = "alive" /\ fd[p] = NONE /\ mem[f] = "none"
        /\ mem' = [mem EXCEPT ![f] = "new"] /\ id' = [id EXCEPT ![f] = p]
        /\ next' = [next EXCEPT ![f] = h] /\ fd' = [fd EXCEPT ![p] = f]
        /\ UNCHANGED <<alive, users, inherited, call, release, processi, pprev, touched, clashed>>
  <2> DEFINE g == CHOOSE g \in Free : TRUE
  <2>1. g \in Free
    BY DEF fib_open
  <2>2. /\ mem' = [mem EXCEPT ![g] = "new"] /\ id' = [id EXCEPT ![g] = p]
        /\ next' = [next EXCEPT ![g] = processi[Bucket[p]]] /\ fd' = [fd EXCEPT ![p] = g]
        /\ alive[p] = "alive" /\ fd[p] = NONE
        /\ UNCHANGED <<alive, users, inherited, call, release, processi, pprev, touched, clashed>>
    BY DEF fib_open
  <2> HIDE DEF g
  <2>3. processi[Bucket[p]] \in Node
    BY DEF DInv, TypeInv, RestInv, RestTypes
  <2> QED  BY <2>1, <2>2, <2>3 DEF Free
<1>3. /\ \A g \in Files : /\ mem'[g] = IF g = f THEN "new" ELSE mem[g]
                          /\ id'[g] = IF g = f THEN p ELSE id[g]
                          /\ next'[g] = IF g = f THEN h ELSE next[g]
                          /\ next[g] \in Node /\ pprev[g] \in Node
      /\ \A q \in Processes : fd'[q] = (IF q = p THEN f ELSE fd[q]) /\ fd[q] \in Node
      /\ \A q \in Processes : /\ call[q].node \in Node /\ release[q].node \in Node
                              /\ release[q].tmp \in Node /\ Bucket[q] \in Buckets
      /\ \A b \in Buckets : processi[b] \in Node
  BY <1>2 DEF DInv, TypeInv, RestInv, RestTypes
<1>4. call[p] = NoCall /\ release[p] = NoRelease
  BY <1>1, <1>2 DEF ProcessOK
<1>5. users[f] = {} /\ pprev[f] = NONE /\ Linked(h)
  BY <1>1, <1>2, <1>3 DEF FileOK, EntryOK
<1>6. \A m \in Node : Linked(m) => m # f /\ Linked(m)'
  BY <1>2, <1>3 DEF Linked, Node
<1>7. ASSUME NEW q \in Processes PROVE ProcessOK(q)'
  <2>1. CASE q = p
    BY <1>1, <1>2, <1>3, <1>4, <2>1 DEF ProcessOK
  <2>2. CASE q # p
    <3>1. fd'[q] = fd[q] /\ fd[q] # f /\ (fd[q] # NONE => fd[q] \in Files)
      BY <1>1, <1>2, <1>3, <2>2 DEF ProcessOK, Node
    <3>2. call[q] # NoCall => call[q].file \in Files /\ call[q].file # f
      BY <1>1, <1>2 DEF ProcessOK
    <3> QED  BY <1>1, <1>2, <1>3, <3>1, <3>2 DEF ProcessOK
  <2> QED  BY <2>1, <2>2
<1>8. ASSUME NEW g \in Files PROVE FileOK(g)'
  <2>1. CASE g = f
    BY <1>2, <1>3, <1>5, <2>1 DEF FileOK
  <2>2. CASE g # f
    <3>1. mem[g] = "new" => id[g] # p
      BY <1>1, <1>2 DEF FileOK
    <3> QED  BY <1>1, <1>2, <1>3, <2>2, <3>1 DEF FileOK
  <2> QED  BY <2>1, <2>2
<1>9. ASSUME NEW g \in Files, g \notin inherited PROVE OwnFile(g)'
  <2>1. CASE g = f
    <3>1. \A q \in Processes : call[q] # NoCall => call[q].file # f
      BY <1>1, <1>2 DEF ProcessOK
    <3>2. \A q \in Processes : fd'[q] = f => q = p
      BY <1>1, <1>2, <1>3 DEF ProcessOK
    <3> QED  BY <1>2, <1>3, <1>5, <2>1, <3>1, <3>2 DEF OwnFile
  <2>2. CASE g # f
    BY <1>1, <1>2, <1>3, <1>9, <2>2 DEF OwnFile
  <2> QED  BY <2>1, <2>2
<1>10. Life'
  BY <1>2, <1>7, <1>8, <1>9 DEF Life
<1>11. Pointers'
  <2>1. ASSUME NEW b \in Buckets PROVE Linked(processi[b])'
    BY <1>1, <1>2, <1>3 DEF Linked, Node
  <2>2. ASSUME NEW g \in Files PROVE EntryOK(g)'
    <3>1. Linked(next[g])' /\ Linked(pprev[g])'
      BY <1>1, <1>2, <1>3, <1>5 DEF EntryOK, Linked, Node
    <3> QED  BY <1>1, <1>2, <1>3, <1>5, <3>1 DEF EntryOK
  <2>3. ASSUME NEW q \in Processes PROVE CursorsOK(q)'
    BY <1>1, <1>2, <1>3 DEF CursorsOK, Linked, Node, DInv, TypeInv, RestInv, Freeing
  <2> QED  BY <2>1, <2>2, <2>3 DEF Pointers
<1>12. Ordered'
  <2>1. PICK rank \in [Files -> Nat] : OrderOK(rank)
    BY DEF DInv, Ordered
  <2>2. OrderOK(rank)'
    BY <1>2, <1>3, <2>1 DEF OrderOK
  <2> QED  BY <2>2 DEF Ordered
<1>13. ASSUME ~clashed PROVE Sound'
  <2>1. \A b \in Buckets : Chain(b)' = Chain(b) /\ f \notin Chain(b) /\ HeadOK(b)
    BY <1>2, <1>3, <1>13 DEF Chain, DInv, Tidy, Sound
  <2>2. \A b \in Buckets : HeadOK(b)'
    BY <1>2, <2>1 DEF HeadOK
  <2>3. ASSUME NEW g \in Files PROVE LinkOK(g)'
    <3>1. CASE g = f
      BY <1>2, <1>3, <3>1 DEF LinkOK
    <3>2. CASE g # f /\ mem[g] \in {"new", "kept"}
      <4>1. PICK b \in Buckets : b = Bucket[id[g]] /\ b = Bucket[id'[g]]
        BY <1>1, <1>3, <3>2 DEF FileOK
      <4>2. LinkOK(g)
        BY <1>13 DEF DInv, Tidy, Sound
      <4> QED  BY <1>2, <1>3, <2>1, <3>2, <4>1, <4>2 DEF LinkOK
    <3>3. CASE g # f /\ mem[g] \notin {"new", "kept"}
      BY <1>3, <3>3 DEF LinkOK
    <3> QED  BY <3>1, <3>2, <3>3
  <2> QED  BY <2>2, <2>3 DEF Sound
<1>14. ASSUME NEW q \in Processes, NEW m, NEW x
       PROVE  /\ Clean(q, m, x) => Clean(q, m, x)'
              /\ Meets(q, m) => Meets(q, m)'
  <2>1. ASSUME NEW S \in SUBSET Files
        PROVE  From(m, S)' <=> From(m, S)
    <3>1. From(m, S) \/ From(m, S)' => f \notin S
      BY <1>2, <1>3 DEF From
    <3>2. f \notin S => (From(m, S)' <=> From(m, S))
      BY <1>3 DEF From
    <3> QED  BY <3>1, <3>2
  <2>2. Clean(q, m, x) => Clean(q, m, x)'
    <3> SUFFICES ASSUME NEW S \in SUBSET Files, From(m, S), x \notin S,
                        \A g \in S : id[g] = q => mem[g] = "kept"
                 PROVE  Clean(q, m, x)'
      BY DEF Clean
    <3>1. f \notin S
      BY <1>2 DEF From
    <3>2. \A g \in S : id'[g] = q => mem'[g] = "kept"
      BY <1>3, <3>1
    <3> QED  BY <2>1, <3>2 DEF Clean
  <2>3. Own(q)' = Own(q)
    BY <1>2, <1>3 DEF Own
  <2>4. Meets(q, m) => Meets(q, m)'
    BY <2>1, <2>3 DEF Meets
  <2> QED  BY <2>2, <2>4
<1>15. ASSUME ~clashed, NEW q \in Processes PROVE CallOK(q)' /\ ReleaseOK(q)'
  <2>1. PICK c, r : c = call[q].node /\ r = release[q]
    OBVIOUS
  <2>2. CallOK(q) /\ ReleaseOK(q) /\ CursorsOK(q)
    BY <1>1, <1>15 DEF DInv, Tidy, Walks
  <2>3. CallOK(q)'
    <3>1. Clean(q, c, NONE)'
      BY <1>14, <2>1, <2>2 DEF CallOK
    <3> QED  BY <1>2, <2>1, <3>1 DEF CallOK, Clean, From
  <2>4. release'[q] = r /\ (r.at = "walk" => Clean(q, r.node, NONE)')
    BY <1>2, <1>14, <2>1, <2>2 DEF ReleaseOK
  <2>5. ASSUME r.at = "free"
        PROVE  mem'[r.node] = "kept" /\ r.tmp = next'[r.node] /\ Clean(q, r.tmp, r.node)'
    <3>1. /\ r.node \in Files /\ mem[r.node] = "kept" /\ r.tmp = next[r.node]
          /\ Clean(q, r.tmp, r.node)
      BY <2>1, <2>2, <2>5 DEF ReleaseOK, DInv, TypeInv, RestInv, Freeing
    <3>2. Clean(q, r.tmp, r.node)'
      BY <1>14, <3>1
    <3> QED  BY <1>2, <1>3, <3>1, <3>2
  <2>6. r.at # "idle" /\ r.bucket = Bucket[q] => Meets(q, r.node)'
    BY <1>14, <2>1, <2>2 DEF ReleaseOK
  <2>7. r.at # "idle" /\ r.bucket > Bucket[q] => Own(q)' = {}
    BY <1>2, <1>3, <2>1, <2>2 DEF ReleaseOK, Own
  <2>8. ReleaseOK(q)'
    BY <2>4, <2>5, <2>6, <2>7, StillWalks
  <2> QED  BY <2>3, <2>8
<1>16. ASSUME ~clashed PROVE NoneLeft' /\ ~touched'
  <2>1. NoneLeft'
    BY <1>2, <1>3, <1>16 DEF DInv, Tidy, NoneLeft, Outlived
  <2> QED  BY <1>2, <1>16, <2>1 DEF DInv, Tidy
<1>17. ~clashed => Tidy'
  BY <1>13, <1>15, <1>16 DEF Tidy, Walks
<1> QED  BY <1>2, <1>10, <1>11, <1>12, <1>17 DEF DInv

LEMMA OpenAdds ==
  ASSUME DInv, TypeInv', NEW p \in Processes, hash_add(p)
  PROVE  DInv'
<1> USE Names
<1>1. /\ \A q \in Processes : ProcessOK(q) /\ CursorsOK(q)
      /\ \A g \in Files : FileOK(g) /\ EntryOK(g) /\ (g \notin inherited => OwnFile(g))
      /\ \A b \in Buckets : Linked(processi[b])
  BY DEF DInv, Life, Pointers
<1>2. PICK f \in Files, h \in Node :
        /\ f = fd[p] /\ h = next[f] /\ mem[f] = "new"
        /\ processi' = [processi EXCEPT ![Bucket[p]] = f]
        /\ pprev' = IF h = NONE THEN pprev ELSE [pprev EXCEPT ![h] = f]
        /\ mem' = [mem EXCEPT ![f] = "kept"] /\ users' = [users EXCEPT ![f] = {p}]
        /\ Stores(p)
        /\ UNCHANGED <<alive, fd, inherited, call, release, next, id, touched>>
  BY DEF hash_add, DInv, TypeInv, RestInv, RestTypes, Node
<1>3. /\ \A g \in Files : next[g] \in Node /\ pprev[g] \in Node
      /\ \A q \in Processes : fd[q] \in Node
      /\ \A q \in Processes : /\ call[q].node \in Node /\ release[q].node \in Node
                              /\ release[q].tmp \in Node /\ Bucket[q] \in Buckets
      /\ \A b \in Buckets : processi[b] \in Node
  BY DEF DInv, TypeInv, RestInv, RestTypes
<1>4. id[f] = p /\ call[p] = NoCall /\ release[p] = NoRelease
  BY <1>1, <1>2 DEF ProcessOK
<1>5. /\ pprev[f] = NONE /\ Linked(h) /\ h # f
      /\ \A m \in Node : Linked(m) => m # f
  BY <1>1, <1>2 DEF EntryOK, Linked
<1>6. /\ \A b \in Buckets : processi'[b] = IF b = Bucket[p] THEN f ELSE processi[b]
      /\ \A g \in Files : /\ mem'[g] = IF g = f THEN "kept" ELSE mem[g]
                          /\ users'[g] = IF g = f THEN {p} ELSE users[g]
                          /\ pprev'[g] = IF g = h THEN f ELSE pprev[g]
  BY <1>2, <1>5 DEF DInv, TypeInv, RestInv, RestTypes, Node
<1>7. \A q \in Processes : fd[q] = f => q = p
  BY <1>1, <1>2, <1>4 DEF ProcessOK
<1>9. ASSUME NEW q \in Processes PROVE ProcessOK(q)'
  <2>1. CASE q = p
    <3>1. fd[p] = f /\ alive[p] = "alive"
      BY <1>1, <1>2 DEF ProcessOK
    <3> QED  BY <1>1, <1>2, <1>4, <1>6, <2>1, <3>1 DEF ProcessOK
  <2>2. CASE q # p
    <3>1. fd[q] # f /\ (fd[q] # NONE => fd[q] \in Files)
      BY <1>3, <1>7, <2>2 DEF Node
    <3>2. call[q] # NoCall => call[q].file \in Files /\ call[q].file # f
      BY <1>1, <1>2 DEF ProcessOK
    <3> QED  BY <1>1, <1>2, <1>6, <3>1, <3>2 DEF ProcessOK
  <2> QED  BY <2>1, <2>2
<1>10. ASSUME NEW g \in Files PROVE FileOK(g)'
  BY <1>1, <1>2, <1>4, <1>6 DEF FileOK
<1>11. ASSUME NEW g \in Files, g \notin inherited PROVE OwnFile(g)'
  <2>1. CASE g = f
    <3>1. \A q \in Processes : call[q] # NoCall => call[q].file # f
      BY <1>1, <1>2 DEF ProcessOK
    <3>2. users'[g] = {p} /\ mem'[g] = "kept" /\ id'[g] = p /\ UNCHANGED <<fd, call>>
      BY <1>2, <1>4, <1>6, <2>1
    <3> QED  BY <1>7, <2>1, <3>1, <3>2 DEF OwnFile
  <2>2. CASE g # f
    BY <1>1, <1>2, <1>6, <1>11, <2>2 DEF OwnFile
  <2> QED  BY <2>1, <2>2
<1>12. Life'
  BY <1>2, <1>9, <1>10, <1>11 DEF Life
<1>13. \A m \in Node : Linked(m) => (m # NONE => mem'[m] \in {"kept", "freed"})
  BY <1>6 DEF Linked, Node
<1>14. Pointers'
  <2>1. ASSUME NEW b \in Buckets PROVE Linked(processi[b])'
    BY <1>1, <1>3, <1>6, <1>13 DEF Linked
  <2>2. ASSUME NEW g \in Files PROVE EntryOK(g)'
    <3>1. Linked(next[g])' /\ Linked(pprev[g])'
      BY <1>1, <1>2, <1>3, <1>6, <1>13 DEF EntryOK, Linked
    <3>2. mem'[g] \in {"none", "new"} => g # h
      BY <1>5, <1>6 DEF Linked
    <3> QED  BY <1>1, <1>2, <1>6, <3>1, <3>2 DEF EntryOK
  <2>3. ASSUME NEW q \in Processes PROVE CursorsOK(q)'
    BY <1>1, <1>2, <1>3, <1>13 DEF CursorsOK, Linked
  <2> QED  BY <2>1, <2>2, <2>3 DEF Pointers
<1>15. Ordered'
  <2>1. PICK rank \in [Files -> Nat] : OrderOK(rank)
    BY DEF DInv, Ordered
  <2>2. PICK rank2 \in [Files -> Nat] : \A g \in Files : rank2[g] = IF g = f THEN 0 ELSE rank[g] + 1
    <3>1. [g \in Files |-> IF g = f THEN 0 ELSE rank[g] + 1] \in [Files -> Nat]
      OBVIOUS
    <3> QED  BY <3>1
  <2>3. OrderOK(rank2)'
    <3> SUFFICES ASSUME NEW g \in Files
                 PROVE  /\ mem'[g] # "new" /\ next[g] # NONE => rank2[g] < rank2[next[g]]
                        /\ pprev'[g] # NONE => rank2[pprev'[g]] < rank2[g]
      BY <1>2 DEF OrderOK
    <3>1. next[g] # NONE => next[g] \in Files /\ next[g] # f
      BY <1>1, <1>3, <1>5 DEF EntryOK, Node
    <3>2. pprev[g] # NONE => pprev[g] \in Files /\ pprev[g] # f /\ g # f
      BY <1>1, <1>3, <1>5 DEF EntryOK, Node
    <3>3. mem'[g] # "new" /\ next[g] # NONE => rank2[g] < rank2[next[g]]
      BY <1>6, <2>1, <2>2, <3>1 DEF OrderOK
    <3>4. pprev'[g] # NONE => rank2[pprev'[g]] < rank2[g]
      BY <1>5, <1>6, <2>1, <2>2, <3>2 DEF OrderOK
    <3> QED  BY <3>3, <3>4
  <2> QED  BY <2>3 DEF Ordered
<1>16. ASSUME ~clashed'
       PROVE  /\ ~clashed /\ Tidy
              /\ \A q \in Processes : q # p /\ Bucket[q] = Bucket[p] => ~Updating(q)
  BY <1>2, <1>16, NoClash DEF DInv
<1>17. ASSUME ~clashed' PROVE Sound'
  <2>1. ASSUME NEW g \in Files, mem[g] = "new", g # f
        PROVE  id[g] \in Processes /\ Bucket[id[g]] # Bucket[p]
    <3>1. id[g] \in Processes /\ fd[id[g]] = g
      BY <1>1, <2>1 DEF FileOK
    <3> QED  BY <1>2, <1>16, <1>17, <2>1, <3>1 DEF Updating
  <2>2. /\ \A b \in Buckets : HeadOK(b)
        /\ \A g \in Files : LinkOK(g)
    BY <1>16, <1>17 DEF Tidy, Sound
  <2>3. /\ h = processi[Bucket[p]]
        /\ h # NONE => h \in Chain(Bucket[p]) /\ h \in Files /\ pprev[h] = NONE
    BY <1>2, <1>3, <1>4, <2>2 DEF LinkOK, HeadOK, Node
  <2>4. \A b \in Buckets : Chain(b) \subseteq Chain(b)' /\ f \notin Chain(b) /\ (b = Bucket[p] => f \in Chain(b)')
    BY <1>2, <1>4, <1>6 DEF Chain
  <2>5. ASSUME NEW b \in Buckets PROVE HeadOK(b)'
    <3>1. CASE b = Bucket[p]
      BY <1>5, <1>6, <2>4, <3>1 DEF HeadOK
    <3>2. CASE b # Bucket[p]
      <4>1. processi'[b] = processi[b] /\ HeadOK(b)
        BY <1>6, <2>2, <3>2
      <4>2. processi[b] # NONE => processi[b] \in Files /\ processi[b] # h
        BY <2>3, <3>2, <4>1 DEF HeadOK, Chain
      <4> QED  BY <1>6, <2>4, <4>1, <4>2 DEF HeadOK
    <3> QED  BY <3>1, <3>2
  <2>6. ASSUME NEW g \in Files PROVE LinkOK(g)'
    <3>1. LinkOK(g) /\ FileOK(g)
      BY <1>1, <2>2
    <3>2. CASE mem[g] = "new" /\ g # f
      <4>1. mem'[g] = "new" /\ id[g] \in Processes /\ processi'[Bucket[id[g]]] = processi[Bucket[id[g]]]
        BY <1>3, <1>6, <2>1, <3>2
      <4> QED  BY <1>2, <3>1, <3>2, <4>1 DEF LinkOK
    <3>3. CASE g = f
      <4>1. PICK b \in Buckets : b = Bucket[p]
        BY <1>3
      <4>2. next[f] # NONE => next[f] \in Chain(b)' /\ pprev'[next[f]] = f
        BY <1>2, <1>6, <2>3, <2>4, <4>1
      <4>3. pprev'[f] = NONE /\ processi'[b] = f
        BY <1>5, <1>6, <4>1
      <4> QED  BY <1>2, <1>4, <1>6, <3>3, <4>1, <4>2, <4>3 DEF LinkOK, Chain
    <3>4. CASE mem[g] = "kept" /\ g # f
      <4>1. PICK b \in Buckets : b = Bucket[id[g]] /\ mem'[g] = "kept"
        BY <1>3, <1>6, <3>1, <3>4 DEF FileOK
      <4>2. next[g] # NONE => next[g] \in Chain(b)' /\ pprev'[next[g]] = g
        <5>1. next[g] # NONE => next[g] \in Chain(b) /\ next[g] \in Files /\ pprev[next[g]] = g
          BY <3>1, <3>4, <4>1 DEF LinkOK, Chain
        <5>2. next[g] # NONE => next[g] # h
          BY <2>3, <5>1
        <5> QED  BY <1>6, <2>4, <5>1, <5>2
      <4>3. pprev'[g] # NONE => pprev'[g] \in Chain(b)' /\ next[pprev'[g]] = g
        <5>1. CASE g = h
          <6>1. b = Bucket[p]
            BY <2>3, <4>1, <5>1 DEF Chain
          <6> QED  BY <1>2, <1>6, <2>4, <5>1, <6>1
        <5>2. CASE g # h
          BY <1>6, <2>4, <3>1, <3>4, <4>1, <5>2 DEF LinkOK
        <5> QED  BY <5>1, <5>2
      <4>4. pprev'[g] = NONE => processi'[b] = g
        <5>1. pprev'[g] = NONE => g # h /\ pprev[g] = NONE
          BY <1>6
        <5>2. pprev[g] = NONE => processi[b] = g
          BY <3>1, <3>4, <4>1 DEF LinkOK
        <5> QED  BY <1>6, <2>3, <5>1, <5>2
      <4> QED  BY <1>2, <4>1, <4>2, <4>3, <4>4 DEF LinkOK, Chain
    <3>5. CASE mem[g] \in {"none", "freed"}
      BY <1>2, <1>6, <3>5 DEF LinkOK
    <3> QED  BY <3>2, <3>3, <3>4, <3>5 DEF DInv, TypeInv, RestInv, RestTypes
  <2> QED  BY <2>5, <2>6 DEF Sound
<1>18. ASSUME NEW q \in Processes, NEW m, NEW x
       PROVE  /\ Clean(q, m, x) => Clean(q, m, x)'
              /\ q # p /\ m \in Node /\ Linked(m) /\ Meets(q, m) => Meets(q, m)'
  <2>1. Clean(q, m, x) => Clean(q, m, x)'
    <3> SUFFICES ASSUME NEW S \in SUBSET Files, From(m, S), x \notin S,
                        \A g \in S : id[g] = q => mem[g] = "kept"
                 PROVE  Clean(q, m, x)'
      BY DEF Clean
    <3>1. f \notin S
      BY <1>2 DEF From
    <3>2. From(m, S)'
      BY <1>2, <1>6, <3>1 DEF From
    <3>3. \A g \in S : id'[g] = q => mem'[g] = "kept"
      BY <1>2, <1>6, <3>1
    <3> QED  BY <3>2, <3>3 DEF Clean
  <2>2. ASSUME q # p, m \in Node, Linked(m), Meets(q, m), NEW S \in SUBSET Files, From(m, S)'
        PROVE  Own(q)' \subseteq S
    <3>1. From(m, S \ {f})
      <4>1. m # NONE => m \in S \ {f}
        BY <1>5, <2>2 DEF From
      <4>2. ASSUME NEW g \in S \ {f}
            PROVE  mem[g] \in {"kept", "freed"} /\ (next[g] # NONE => next[g] \in S \ {f})
        BY <1>1, <1>2, <1>3, <1>5, <1>6, <2>2 DEF From, EntryOK
      <4> QED  BY <4>1, <4>2 DEF From
    <3>2. Own(q) \subseteq S
      BY <2>2, <3>1 DEF Meets
    <3> QED  BY <1>2, <1>4, <1>6, <2>2, <3>2 DEF Own
  <2> QED  BY <2>1, <2>2 DEF Meets
<1>19. ASSUME ~clashed', NEW q \in Processes PROVE CallOK(q)' /\ ReleaseOK(q)'
  <2>1. PICK c, r : c = call[q].node /\ r = release[q]
    OBVIOUS
  <2>2. CallOK(q) /\ ReleaseOK(q) /\ CursorsOK(q)
    BY <1>1, <1>16, <1>19 DEF Tidy, Walks
  <2>3. CallOK(q)'
    <3>1. Clean(q, c, NONE)'
      BY <1>18, <2>1, <2>2 DEF CallOK
    <3> QED  BY <1>2, <2>1, <3>1 DEF CallOK, Clean, From
  <2>4. release'[q] = r
    BY <1>2, <2>1
  <2>5. CASE q = p
    <3>1. r.at = "idle"
      BY <1>4, <2>1, <2>5 DEF NoRelease
    <3> QED  BY <2>3, <2>4, <3>1, StillWalks
  <2>6. CASE q # p
    <3>1. r.at = "walk" => Clean(q, r.node, NONE)'
      BY <1>18, <2>1, <2>2 DEF ReleaseOK
    <3>2. ASSUME r.at = "free"
          PROVE  mem'[r.node] = "kept" /\ r.tmp = next'[r.node] /\ Clean(q, r.tmp, r.node)'
      <4>1. /\ r.node \in Files /\ mem[r.node] = "kept" /\ r.tmp = next[r.node]
            /\ Clean(q, r.tmp, r.node)
        BY <2>1, <2>2, <3>2 DEF ReleaseOK, DInv, TypeInv, RestInv, Freeing
      <4>2. Clean(q, r.tmp, r.node)'
        BY <1>18, <4>1
      <4> QED  BY <1>2, <1>6, <4>1, <4>2
    <3>3. r.at # "idle" /\ r.bucket = Bucket[q] => Meets(q, r.node)'
      <4>1. Linked(r.node) /\ r.node \in Node
        BY <1>3, <2>1, <2>2 DEF CursorsOK
      <4> QED  BY <1>18, <2>1, <2>2, <2>6, <4>1 DEF ReleaseOK
    <3>4. r.at # "idle" /\ r.bucket > Bucket[q] => Own(q)' = {}
      BY <1>2, <1>4, <1>6, <2>1, <2>2, <2>6 DEF ReleaseOK, Own
    <3>5. ReleaseOK(q)'
      BY <2>4, <3>1, <3>2, <3>3, <3>4, StillWalks
    <3> QED  BY <2>3, <3>5
  <2> QED  BY <2>5, <2>6
<1>20. ASSUME ~clashed' PROVE NoneLeft' /\ ~touched'
  <2>1. ASSUME NEW g \in Files \ inherited, Outlived(g)' PROVE FALSE
    <3>1. g # f
      BY <1>6, <2>1 DEF Outlived
    <3>2. Outlived(g)
      BY <1>2, <1>6, <2>1, <3>1 DEF Outlived
    <3> QED  BY <1>16, <1>20, <3>2 DEF Tidy, NoneLeft
  <2> QED  BY <1>2, <1>16, <1>20, <2>1 DEF Tidy, NoneLeft
<1>21. ASSUME ~clashed' PROVE Tidy'
  BY <1>17, <1>19, <1>20, <1>21 DEF Tidy, Walks
<1> QED  BY <1>12, <1>14, <1>15, <1>21 DEF DInv

LEMMA DeviceInductive == DInv /\ [Next]_vars => DInv'
<1> SUFFICES ASSUME DInv, [Next]_vars PROVE DInv'
  OBVIOUS
<1>1. TypeInv'
  BY TypesInductive DEF DInv
<1>2. ASSUME NEW p \in Processes,
             \/ Act(p)
             \/ fib_open(p) \/ close_fiberlib(p) \/ fib_ioctl(p)
             \/ Exec(p) \/ Kill(p) \/ Spawn(p)
             \/ \E q \in Processes : Fork(p, q)
      PROVE  DInv'
  BY <1>1, <1>2, OpenMakes, OpenAdds, DropKeeps, LifeStays, CallBegins, CallWalks, CallEnds,
     ReleaseLooks, ReleaseMoves, ReleaseFrees DEF Act
<1>3. ASSUME NEW r \in Readers,
             \/ Look(r)
             \/ \E p \in Processes, kind \in {"read", "readdir", "lookup"} : Probe(r, kind, p)
      PROVE  DInv'
  <2>1. UNCHANGED <<alive, users, fd, inherited, call, release, table, touched, clashed>>
    BY <1>3 DEF Look, ProbePass, ProbeAlloc, ProbeSplice, ProbeEnd, Probe, procs
  <2> QED  BY <1>1, <2>1, ReadersKeep
<1>4. CASE UNCHANGED vars
  <2>1. UNCHANGED <<alive, users, fd, inherited, call, release, table, touched, clashed>>
    BY <1>4 DEF vars, table
  <2> QED  BY <1>1, <2>1, ReadersKeep
<1> QED  BY <1>2, <1>3, <1>4 DEF Next

LEMMA Device == Spec => []DInv
<1>1. DInv /\ [Next]_vars => DInv'
  BY DeviceInductive
<1> QED  BY <1>1, DeviceInit, PTL DEF Spec

\* No ioctl works on a freed entry while no two updates of a chain have overlapped,
\* though releases of other processes, in the same bucket too, free entries under
\* its walk; and the file held for its time keeps the entry of its opener.
THEOREM CallsStaySafe == Spec => []CallsSafe
<1>1. DInv => CallsSafe
  <2> SUFFICES ASSUME DInv PROVE CallsSafe
    OBVIOUS
  <2>1. ASSUME NEW p \in Processes, call[p] # NoCall, call[p].file \notin inherited
        PROVE  mem[call[p].file] = "kept"
    BY <2>1 DEF DInv, Life, ProcessOK, OwnFile
  <2> QED  BY <2>1 DEF DInv, Tidy, CallsSafe
<1> QED  BY <1>1, Device, PTL

\* fib_release leaves nothing behind: an entry outlives its file only if a fork
\* has shared the file, or two updates of a chain have overlapped.
THEOREM ReleaseComplete == Spec => []GoneWithItsFile
<1>1. DInv => GoneWithItsFile
  BY DEF DInv, Tidy, NoneLeft, Outlived, GoneWithItsFile
<1> QED  BY <1>1, Device, PTL

\* As long as no two updates of one chain overlap, the chains hold what has been
\* added and not freed, the back links fit, and no entry is freed twice, however
\* the process ids hash and whatever else goes on in the bucket: walks of calls
\* and releases over entries that others free, and opens and releases that wait.
THEOREM ChainsHold == Spec => []ChainsSound
<1>1. DInv => ChainsSound
  <2> SUFFICES ASSUME DInv, ~clashed PROVE ChainsSound
    BY DEF ChainsSound
  <2>1. \A b \in Buckets : Reach(b) = {f \in Files : mem[f] = "kept" /\ Bucket[id[f]] = b}
    BY ReachesAll DEF Chain, DInv, Tidy
  <2>2. ASSUME NEW f \in Files, NEW g \in Files, mem[f] = "kept", mem[g] = "kept"
        PROVE  next[f] = g <=> pprev[g] = f
    BY <2>2, Names DEF DInv, Tidy, Sound, LinkOK
  <2>3. ASSUME NEW p \in Processes, release[p].at = "free" PROVE mem[release[p].node] = "kept"
    BY <2>3 DEF DInv, Tidy, Walks, ReleaseOK
  <2> QED  BY <2>1, <2>2, <2>3 DEF ChainsSound
<1> QED  BY <1>1, Device, PTL
=============================================================================
