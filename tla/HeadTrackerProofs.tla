-------------------------- MODULE HeadTrackerProofs -------------------------
(***************************************************************************)
(* Invariants of the head tracker for every set of claims, stream set and  *)
(* bound.  Rooted is inductive together with TypeOK: a candidate that is   *)
(* new to the tree is stored only when its walk meets the current head's,  *)
(* so its parent is tracked or both walks end at a genesis block.          *)
(* From there: the walks of a bounded tree are finite, so they come to the *)
(* root or to genesis, so two of them meet exactly if they should; and a   *)
(* walk turned around is the canonical chain, which every transition takes *)
(* to the next one.                                                        *)
(***************************************************************************)
EXTENDS HeadTracker, TLAPS, SequenceTheorems, FiniteSetTheorems, WellFoundedInduction

IInv == TypeOK /\ Rooted

(***************************************************************************)
(* The walk towards the root visits tracked hashes only.                   *)
(***************************************************************************)
LEMMA WalkIsTracked ==
  ASSUME NEW h, NEW i \in DOMAIN Walk(h)
  PROVE  h \in Tracked /\ Walk(h)[i] \in Tracked
<1>1. h \in Tracked
  <2>1. CASE h \notin Tracked
    BY <2>1 DEF Walk
  <2>2. QED
    BY <2>1
<1>2. Walk(h)[i] \in Tracked
  BY <1>1 DEF Walk
<1>3. QED
  BY <1>1, <1>2

(***************************************************************************)
(* A new head whose walk meets the current head's has a tracked parent, or *)
(* is a genesis block of a tree whose root is one.                         *)
(***************************************************************************)
LEMMA MeetingHeadIsConnected ==
  ASSUME TypeOK, Rooted, NEW c \in Claims, currentHash # None,
         c.hash \notin Tracked, Meets(c)
  PROVE  c.parent \in Tracked \/ (c.parent = Zero /\ nodes[root].parent = Zero)
<1>1. Zero \notin Tracked
  BY TrackerAssumption DEF TypeOK
<1>2. c.hash # Zero
  BY TrackerAssumption
<1>3. c.hash \notin Positions(currentHash)
  BY <1>2, WalkIsTracked DEF Positions
<1>4. PICK x \in Positions(c.parent) : x \in Positions(currentHash)
  BY <1>3 DEF Meets
<1>5. CASE c.parent \in Tracked
  BY <1>5
<1>6. CASE c.parent \notin Tracked
  <2>1. c.parent = Zero /\ x = Zero
    BY <1>4, <1>6, WalkIsTracked DEF Positions, ReachesGenesis
  <2>2. currentHash # Zero
    BY <1>1, TrackerAssumption DEF TypeOK
  <2>3. ReachesGenesis(currentHash)
    BY <1>1, <1>4, <2>1, WalkIsTracked DEF Positions
  <2>4. PICK i \in DOMAIN Walk(currentHash) : nodes[Walk(currentHash)[i]].parent = Zero
    BY <2>2, <2>3 DEF ReachesGenesis
  <2>5. Walk(currentHash)[i] \in Tracked
    BY WalkIsTracked
  <2>6. nodes[root].parent = Zero
    BY <1>1, <2>4, <2>5 DEF Rooted
  <2>7. QED
    BY <2>1, <2>6
<1>7. QED
  BY <1>5, <1>6

(***************************************************************************)
(* Storing an admissible head never changes what is stored already.        *)
(***************************************************************************)
LEMMA StoreExtends ==
  ASSUME TypeOK, NEW o \in Observations, Admissible(o), Store(o.head)
  PROVE  /\ DOMAIN nodes' = Tracked \cup {o.head.hash}
         /\ nodes'[o.head.hash] = o.head
         /\ \A h \in Tracked : nodes'[h] = nodes[h]
<1>1. \A h \in Tracked : nodes'[h] = nodes[h]
  BY DEF Store, Admissible, Tracked
<1>2. QED
  BY <1>1 DEF Store

(***************************************************************************)
(* Storing a head that is tracked already or connected keeps the tree      *)
(* rooted.                                                                 *)
(***************************************************************************)
LEMMA StoreKeepsRooted ==
  ASSUME TypeOK, Rooted, currentHash # None,
         NEW o \in Observations, Admissible(o), FollowsParent(o.head), Store(o.head),
         \/ o.head.hash \in Tracked
         \/ o.head.parent \in Tracked
         \/ o.head.parent = Zero /\ nodes[root].parent = Zero,
         root' = root
  PROVE  Rooted'
<1> DEFINE c == o.head
<1>1. /\ DOMAIN nodes' = Tracked \cup {c.hash}
      /\ nodes'[c.hash] = c
      /\ \A h \in Tracked : nodes'[h] = nodes[h]
  BY StoreExtends
<1>2. root \in Tracked /\ Zero \notin Tracked
  BY TrackerAssumption DEF TypeOK
<1>3. c \in Claims /\ WellFormed(c) /\ c.number \in Nat
  BY TrackerAssumption DEF Observations, Admissible
<1>4. ASSUME NEW h \in Tracked
      PROVE  \/ h = root'
             \/ /\ nodes'[h].number = 0 /\ nodes'[h].parent = Zero
                /\ nodes'[root'].parent = Zero
             \/ /\ nodes'[h].parent \in DOMAIN nodes'
                /\ nodes'[h].number = nodes'[nodes'[h].parent].number + 1
                /\ nodes'[h].time >= nodes'[nodes'[h].parent].time
  BY <1>1, <1>2, <1>4 DEF Rooted
<1>5. CASE c.hash \in Tracked
  <2>1. DOMAIN nodes' = Tracked
    BY <1>1, <1>5
  <2>2. QED
    BY <1>4, <2>1 DEF Rooted, Tracked
<1>6. CASE c.hash \notin Tracked /\ c.parent \in Tracked
  <2>1. c.number > 0
    BY <1>2, <1>3, <1>6 DEF WellFormed
  <2>2. /\ nodes'[c.hash].parent \in DOMAIN nodes'
        /\ nodes'[c.hash].number = nodes'[nodes'[c.hash].parent].number + 1
        /\ nodes'[c.hash].time >= nodes'[nodes'[c.hash].parent].time
    BY <1>1, <1>6, <2>1 DEF FollowsParent
  <2>3. QED
    BY <1>1, <1>4, <2>2 DEF Rooted, Tracked
<1>7. CASE c.hash \notin Tracked /\ c.parent = Zero /\ nodes[root].parent = Zero
  <2>1. /\ nodes'[c.hash].number = 0 /\ nodes'[c.hash].parent = Zero
        /\ nodes'[root'].parent = Zero
    BY <1>1, <1>2, <1>3, <1>7 DEF WellFormed
  <2>2. QED
    BY <1>1, <1>4, <2>1 DEF Rooted, Tracked
<1>8. QED
  BY <1>5, <1>6, <1>7

-----------------------------------------------------------------------------

\* A tracker before its bootstrap knows no node and has no head.
LEMMA InitInv == Init => IInv
  BY TrackerAssumption DEF Init, IInv, TypeOK, Rooted, Tracked

(***************************************************************************)
(* Every branch of apply preserves the types, and a head that is stored    *)
(* becomes or stays part of the tree.                                      *)
(***************************************************************************)
LEMMA NextTypeOK ==
  ASSUME TypeOK, [Next]_vars
  PROVE  TypeOK'
<1>1. CASE UNCHANGED vars
  BY <1>1 DEF TypeOK, vars, Tracked
<1>2. ASSUME NEW o \in Observations,
             Bootstrap(o) \/ Duplicate(o) \/ Extend(o) \/ Orphan(o) \/ Reorg(o) \/ Reject(o)
      PROVE  TypeOK'
  <2>1. /\ o.head \in Claims /\ o.sequence \in 0 .. MaxSequence
        /\ o.head.hash # None
    BY TrackerAssumption DEF Observations
  <2>2. CASE Reject(o)
    BY <2>2 DEF Reject, TypeOK, Tracked
  <2>3. CASE Orphan(o)
    BY <2>1, <2>3, TrackerAssumption DEF Orphan, TypeOK, Tracked
  <2>4. CASE Store(o.head) /\ Admissible(o) /\ lastSequence' = o.sequence
             /\ currentHash' \in {currentHash, o.head.hash} /\ currentHash' # None
             /\ root' = (IF currentHash = None THEN o.head.hash ELSE root)
    <3>1. /\ DOMAIN nodes' = Tracked \cup {o.head.hash}
          /\ nodes'[o.head.hash] = o.head
          /\ \A h \in Tracked : nodes'[h] = nodes[h]
      BY <2>4, StoreExtends
    <3>2. DOMAIN nodes' \subseteq {c.hash : c \in Claims}
      BY <2>1, <3>1 DEF TypeOK
    <3>3. \A h \in DOMAIN nodes' : nodes'[h] \in Claims /\ nodes'[h].hash = h
      BY <2>1, <3>1 DEF TypeOK
    <3>4. /\ currentHash' \in DOMAIN nodes' /\ root' \in DOMAIN nodes'
          /\ root' # None
      BY <2>1, <2>4, <3>1, TrackerAssumption DEF TypeOK
    <3>5. lastSequence' \in -1 .. MaxSequence
      BY <2>1, <2>4, TrackerAssumption
    <3>6. QED
      BY <2>4, <3>2, <3>3, <3>4, <3>5 DEF TypeOK, Tracked
  <2>5. CASE Bootstrap(o)
    BY <2>1, <2>4, <2>5 DEF Bootstrap
  <2>6. CASE Duplicate(o)
    BY <2>1, <2>4, <2>6 DEF Duplicate
  <2>7. CASE Extend(o)
    BY <2>1, <2>4, <2>7 DEF Extend, Placeable
  <2>8. CASE Reorg(o)
    BY <2>1, <2>4, <2>8 DEF Reorg, Placeable
  <2>9. QED
    BY <1>2, <2>2, <2>3, <2>5, <2>6, <2>7, <2>8
<1>3. QED
  BY <1>1, <1>2 DEF Next

(***************************************************************************)
(* A tree with a current head has a tracked root, and every stored head is *)
(* tracked already, a child of a tracked head, or a further genesis block. *)
(***************************************************************************)
LEMMA NextRooted ==
  ASSUME IInv, [Next]_vars
  PROVE  Rooted'
<1> USE DEF IInv
<1>1. CASE UNCHANGED vars
  BY <1>1 DEF Rooted, vars, Tracked
<1>2. ASSUME NEW o \in Observations, Bootstrap(o)
      PROVE  Rooted'
  <2>1. Tracked = {}
    BY <1>2 DEF Bootstrap, TypeOK
  <2>2. DOMAIN nodes' = {o.head.hash}
    BY <1>2, <2>1 DEF Bootstrap, Store
  <2>3. QED
    BY <1>2, <2>2 DEF Bootstrap, Rooted, Tracked
<1>3. ASSUME NEW o \in Observations, Duplicate(o)
      PROVE  Rooted'
  <2>1. o.head.hash \in Tracked /\ currentHash # None
    BY <1>3, TrackerAssumption DEF Duplicate, TypeOK, Observations
  <2>2. /\ DOMAIN nodes' = Tracked /\ root' = root
        /\ \A h \in Tracked : nodes'[h] = nodes[h]
    BY <1>3, <2>1, StoreExtends DEF Duplicate
  <2>3. root \in Tracked
    BY <2>1 DEF TypeOK
  <2>4. QED
    BY <2>2, <2>3 DEF Rooted, Tracked
<1>4. ASSUME NEW o \in Observations, Extend(o)
      PROVE  Rooted'
  <2>1. o.head.parent \in Tracked
    BY <1>4 DEF Extend, Placeable, TypeOK
  <2>2. QED
    BY <1>4, <2>1, StoreKeepsRooted DEF Extend, Placeable
<1>5. ASSUME NEW o \in Observations, Orphan(o) \/ Reject(o)
      PROVE  Rooted'
  BY <1>5 DEF Orphan, Reject, Rooted, Tracked
<1>6. ASSUME NEW o \in Observations, Reorg(o)
      PROVE  Rooted'
  <2>1. o.head \in Claims
    BY DEF Observations
  <2>2. \/ o.head.hash \in Tracked
        \/ o.head.parent \in Tracked
        \/ o.head.parent = Zero /\ nodes[root].parent = Zero
    BY <1>6, <2>1, MeetingHeadIsConnected DEF Reorg, Placeable
  <2>3. QED
    BY <1>6, <2>2, StoreKeepsRooted DEF Reorg, Placeable
<1>7. QED
  BY <1>1, <1>2, <1>3, <1>4, <1>5, <1>6 DEF Next

(***************************************************************************)
(* Type correctness, with "a tracker with nodes has a current head".       *)
(***************************************************************************)
THEOREM TypeCorrectness == Spec => []TypeOK
<1>1. Init => TypeOK
  BY InitInv DEF IInv
<1>2. TypeOK /\ [Next]_vars => TypeOK'
  BY NextTypeOK
<1>3. QED
  BY <1>1, <1>2, PTL DEF Spec

(***************************************************************************)
(* No unconnected topology is ever retained, and no tracked child          *)
(* disagrees in height or time with the parent it was accepted under.      *)
(***************************************************************************)
THEOREM TreeIsRooted == Spec => []Rooted
<1>1. Init => IInv
  BY InitInv
<1>2. IInv /\ [Next]_vars => IInv'
  BY NextTypeOK, NextRooted DEF IInv
<1>3. IInv => Rooted
  BY DEF IInv
<1>4. QED
  BY <1>1, <1>2, <1>3, PTL DEF Spec

(***************************************************************************)
(* Every accepted head keeps the metadata it was first accepted with.      *)
(***************************************************************************)
THEOREM TrackedHeadsNeverChange == Spec => NodesAreImmutable
<1>1. ASSUME TypeOK, [Next]_vars
      PROVE  [\A h \in Tracked : h \in DOMAIN nodes' /\ nodes'[h] = nodes[h]]_vars
  <2>1. ASSUME NEW o \in Observations, Admissible(o), Store(o.head)
        PROVE  \A h \in Tracked : h \in DOMAIN nodes' /\ nodes'[h] = nodes[h]
    BY <1>1, <2>1, StoreExtends
  <2>2. ASSUME NEW o \in Observations, Orphan(o) \/ Reject(o)
        PROVE  \A h \in Tracked : h \in DOMAIN nodes' /\ nodes'[h] = nodes[h]
    BY <2>2 DEF Orphan, Reject, Tracked
  <2>3. QED
    BY <1>1, <2>1, <2>2 DEF Next, Bootstrap, Duplicate, Extend, Reorg, Placeable
<1>2. QED
  BY <1>1, TypeCorrectness, PTL DEF Spec, NodesAreImmutable

-----------------------------------------------------------------------------
(* The walk: what the recursive function in Walk computes.                 *)

(* A set of naturals that is not empty has a least element.                *)
LEMMA LeastNatural ==
  ASSUME NEW S, S \subseteq Nat, S # {}
  PROVE  \E m \in S : \A n \in S : m <= n
<1>1. PICK m \in S : \A n \in S : ~(<<n, m>> \in OpToRel(<, Nat))
  BY NatLessThanWellFounded, WFMin
<1>2. \A n \in S : ~(n < m)
  BY <1>1 DEF OpToRel
<1>3. QED
  BY <1>2

(***************************************************************************)
(* A set that holds zero and the successors of its naturals holds them     *)
(* all.                                                                    *)
(***************************************************************************)
LEMMA Induction ==
  ASSUME NEW S, 0 \in S, \A n \in Nat : n \in S => n + 1 \in S
  PROVE  Nat \subseteq S
<1>1. SUFFICES ASSUME NEW k \in Nat, k \notin S PROVE FALSE
  OBVIOUS
<1> DEFINE T == Nat \ S
<1>2. T \subseteq Nat /\ T # {}
  BY <1>1
<1>3. PICK m \in T : \A n \in T : m <= n
  BY <1>2, LeastNatural
<1>4. m \in Nat /\ m # 0 /\ m - 1 \in Nat
  BY <1>3
<1>5. m - 1 \notin T
  BY <1>3, <1>4
<1>6. QED
  BY <1>3, <1>4, <1>5

(* What _paths_to_common_ancestor follows upwards from a hash.             *)
Above(h) == IF h \in Tracked THEN nodes[h].parent ELSE None

(* The first n hashes of the ascent that Walk(h) is cut from.              *)
Ascent(up, h, n) == up = [i \in 1 .. n |-> IF i = 1 THEN h ELSE Above(up[i - 1])]

(* Such an ascent exists: it is built from the bottom, one hash at a time. *)
LEMMA AscentExists ==
  ASSUME NEW h, NEW n \in Nat
  PROVE  \E up : Ascent(up, h, n)
<1> DEFINE Good == {k \in Nat : \E up : Ascent(up, h, k)}
<1>1. 0 \in Good
  <2>1. Ascent([i \in 1 .. 0 |-> h], h, 0)
    BY DEF Ascent
  <2>. QED
    BY <2>1
<1>2. ASSUME NEW k \in Nat, k \in Good PROVE k + 1 \in Good
  <2>1. PICK f : Ascent(f, h, k)
    BY <1>2
  <2> DEFINE g == [i \in 1 .. k + 1 |-> IF i = 1 THEN h ELSE Above(f[i - 1])]
  <2>2. \A i \in 1 .. k : f[i] = IF i = 1 THEN h ELSE Above(f[i - 1])
    BY <2>1 DEF Ascent
  <2>3. \A i \in 1 .. k : g[i] = f[i]
    BY <2>2
  <2>4. ASSUME NEW i \in 1 .. k + 1, i # 1 PROVE f[i - 1] = g[i - 1]
    <3>1. i - 1 \in 1 .. k
      BY <2>4
    <3> HIDE DEF g
    <3>. QED
      BY <2>3, <3>1
  <2>5. \A i \in 1 .. k + 1 : (IF i = 1 THEN h ELSE Above(f[i - 1]))
                               = (IF i = 1 THEN h ELSE Above(g[i - 1]))
    BY <2>4
  <2>6. g = [i \in 1 .. k + 1 |-> IF i = 1 THEN h ELSE Above(g[i - 1])]
    BY <2>5, Zenon
  <2> HIDE DEF g
  <2>7. Ascent(g, h, k + 1)
    BY <2>6 DEF Ascent
  <2>. QED
    BY <2>7
<1>3. Nat \subseteq Good
  <2> HIDE DEF Good
  <2>1. \A m \in Nat : m \in Good => m + 1 \in Good
    BY <1>2
  <2>. QED
    BY <1>1, <2>1, Induction
<1>. QED
  BY <1>3

(* Positions up to which an ascent visits tracked hashes, each once.       *)
Fresh(up, i) == \A j \in 1 .. i : up[j] \in Tracked /\ \A k \in 1 .. j - 1 : up[k] # up[j]

(***************************************************************************)
(* What Walk's local function and its result are, without the CHOOSE in    *)
(* it.                                                                     *)
(***************************************************************************)
Ascends(up, h, n, w) ==
  /\ \A i \in 1 .. n : up[i] = IF i = 1 THEN h ELSE Above(up[i - 1])
  /\ w = [i \in {i \in 1 .. n : Fresh(up, i)} |-> up[i]]

(* Walk(h) is cut from an ascent.                                          *)
LEMMA WalkAscends ==
  ASSUME NEW h \in Tracked, NEW n, n = Cardinality(Tracked), n \in Nat
  PROVE  \E up : Ascends(up, h, n, Walk(h))
<1> DEFINE up == CHOOSE f : f = [i \in 1 .. Cardinality(Tracked) |->
                                   IF i = 1 THEN h
                                   ELSE IF f[i - 1] \in Tracked THEN nodes[f[i - 1]].parent
                                   ELSE None]
<1>1. Ascent(up, h, n)
  <2>1. \E f : f = [i \in 1 .. n |-> IF i = 1 THEN h ELSE Above(f[i - 1])]
    <3>1. \E f : Ascent(f, h, n)
      BY AscentExists
    <3>. QED
      BY <3>1, Zenon DEF Ascent
  <2>2. up = CHOOSE f : f = [i \in 1 .. n |-> IF i = 1 THEN h ELSE Above(f[i - 1])]
    BY DEF Above
  <2>. QED
    BY <2>1, <2>2 DEF Ascent
<1>2. Walk(h) = [i \in {i \in 1 .. Cardinality(Tracked) :
                          \A j \in 1 .. i : /\ up[j] \in Tracked
                                            /\ \A k \in 1 .. j - 1 : up[k] # up[j]} |-> up[i]]
  BY Zenon DEF Walk
<1> HIDE DEF up
<1>3. Walk(h) = [i \in {i \in 1 .. n : Fresh(up, i)} |-> up[i]]
  BY <1>2 DEF Fresh
<1>4. \A i \in 1 .. n : up[i] = IF i = 1 THEN h ELSE Above(up[i - 1])
  BY <1>1 DEF Ascent
<1>. QED
  BY <1>3, <1>4 DEF Ascends

(***************************************************************************)
(* A way up from h through the heads N: each hash is followed by its       *)
(* parent.                                                                 *)
(***************************************************************************)
Chain(N, h, w) ==
  /\ w \in Seq(DOMAIN N) /\ Len(w) >= 1 /\ w[1] = h
  /\ \A i \in 1 .. Len(w) - 1 : w[i + 1] = N[w[i]].parent

(* A way up that visits no hash twice.                                     *)
Once(w) == \A i, j \in 1 .. Len(w) : w[i] = w[j] => i = j

(***************************************************************************)
(* The positions an ascent visits before it repeats itself or leaves the   *)
(* tree.                                                                   *)
(***************************************************************************)
LEMMA FreshPositions ==
  ASSUME NEW up, NEW n \in Nat, n >= 1, up[1] \in Tracked
  PROVE  \E m \in 1 .. n : /\ {i \in 1 .. n : Fresh(up, i)} = 1 .. m
                           /\ m < n => ~Fresh(up, m + 1)
<1>1. ASSUME NEW i \in Nat, Fresh(up, i), NEW j \in 1 .. i PROVE Fresh(up, j)
  BY <1>1 DEF Fresh
<1>2. Fresh(up, 1)
  BY DEF Fresh
<1> DEFINE Bad == {i \in 1 .. n : ~Fresh(up, i)}
<1>3. CASE Bad = {}
  BY <1>3
<1>4. CASE Bad # {}
  <2>1. PICK b \in Bad : \A i \in Bad : b <= i
    <3>1. Bad \subseteq Nat
      OBVIOUS
    <3> HIDE DEF Bad
    <3>. QED
      BY <1>4, <3>1, LeastNatural
  <2>2. b \in 1 .. n /\ b # 1 /\ ~Fresh(up, b)
    BY <1>2, <2>1
  <2>3. b - 1 \in 1 .. n /\ (b - 1) + 1 = b
    BY <2>2
  <2>4. ASSUME NEW i \in 1 .. n PROVE Fresh(up, i) <=> i \in 1 .. b - 1
    <3>1. CASE i < b
      BY <2>1, <2>2, <3>1
    <3>2. CASE b <= i
      <4>1. b \in 1 .. i /\ i \in Nat
        BY <2>2, <3>2
      <4>2. ~Fresh(up, i)
        BY <1>1, <2>2, <4>1
      <4>. QED
        BY <2>2, <3>2, <4>2
    <3>. QED
      BY <2>2, <3>1, <3>2
  <2>5. {i \in 1 .. n : Fresh(up, i)} = 1 .. b - 1
    BY <2>2, <2>4
  <2>. QED
    BY <2>2, <2>3, <2>5
<1>. QED
  BY <1>3, <1>4

(***************************************************************************)
(* A walk is a way up that visits no hash twice and stops only where the   *)
(* parent of the last is not tracked, or was visited.                      *)
(***************************************************************************)
LEMMA WalkIsChain ==
  ASSUME IsFiniteSet(Tracked), NEW h \in Tracked
  PROVE  /\ Chain(nodes, h, Walk(h)) /\ Once(Walk(h))
         /\ nodes[Last(Walk(h))].parent \in Tracked
              => \E i \in 1 .. Len(Walk(h)) : Walk(h)[i] = nodes[Last(Walk(h))].parent
<1> DEFINE n == Cardinality(Tracked)
           w == Walk(h)
<1>1. n \in Nat /\ n >= 1
  <2>1. n \in Nat /\ n # 0
    BY FS_CardinalityType, FS_EmptySet
  <2>. QED
    BY <2>1
<1>a. \E up : Ascends(up, h, n, w)
  <2>1. n = Cardinality(Tracked)
    OBVIOUS
  <2> HIDE DEF n
  <2>. QED
    BY <1>1, <2>1, WalkAscends
<1>b. PICK up : Ascends(up, h, n, w)
  BY <1>a
<1>2. /\ \A i \in 1 .. n : up[i] = IF i = 1 THEN h ELSE Above(up[i - 1])
      /\ w = [i \in {i \in 1 .. n : Fresh(up, i)} |-> up[i]]
  BY <1>b, Zenon DEF Ascends
<1> HIDE DEF n
<1>3. up[1] = h /\ 1 \in 1 .. n
  BY <1>1, <1>2
<1>4. PICK m \in 1 .. n : /\ {i \in 1 .. n : Fresh(up, i)} = 1 .. m
                          /\ m < n => ~Fresh(up, m + 1)
  BY <1>1, <1>3, FreshPositions
<1>5. w = [i \in 1 .. m |-> up[i]] /\ m \in Nat /\ m >= 1
  BY <1>1, <1>2, <1>4
<1>6. Fresh(up, m)
  BY <1>4, <1>5
<1>7. \A i \in 1 .. m : up[i] \in Tracked /\ \A j \in 1 .. i - 1 : up[j] # up[i]
  BY <1>6 DEF Fresh
<1>8. /\ w \in Seq(Tracked) /\ Len(w) = m /\ \A i \in 1 .. m : w[i] = up[i]
  BY <1>5, <1>7
<1> HIDE DEF w
<1>9. \A i \in 1 .. m - 1 : w[i + 1] = nodes[w[i]].parent
  <2>1. ASSUME NEW i \in 1 .. m - 1 PROVE w[i + 1] = nodes[w[i]].parent
    <3>1. i \in 1 .. m /\ i + 1 \in 1 .. m /\ i + 1 \in 1 .. n /\ i + 1 # 1 /\ (i + 1) - 1 = i
      BY <1>1, <1>4
    <3>2. up[i + 1] = Above(up[i])
      BY <1>2, <3>1
    <3>. QED
      BY <1>7, <1>8, <3>1, <3>2 DEF Above
  <2>. QED
    BY <2>1
<1>10. Chain(nodes, h, w)
  BY <1>3, <1>5, <1>8, <1>9 DEF Chain, Tracked
<1>11. Once(w)
  <2>1. ASSUME NEW i \in 1 .. m, NEW j \in 1 .. m, i < j PROVE up[i] # up[j]
    <3>1. i \in 1 .. j - 1
      BY <2>1
    <3>. QED
      BY <1>7, <3>1
  <2>2. ASSUME NEW i \in 1 .. m, NEW j \in 1 .. m, up[i] = up[j] PROVE i = j
    BY <2>1, <2>2
  <2>. QED
    BY <1>8, <2>2 DEF Once
<1>12. ASSUME nodes[w[m]].parent \in Tracked
       PROVE  \E i \in 1 .. m : w[i] = nodes[w[m]].parent
  <2>1. m \in 1 .. m
    BY <1>5
  <2>2. CASE m < n
    <3>1. m + 1 \in 1 .. n /\ m + 1 # 1 /\ (m + 1) - 1 = m
      BY <1>1, <1>5, <2>2
    <3>2. up[m + 1] = Above(up[m])
      BY <1>2, <3>1
    <3>3. up[m + 1] = nodes[w[m]].parent
      BY <1>7, <1>8, <2>1, <3>2 DEF Above
    <3>4. PICK j \in 1 .. m + 1 : ~(up[j] \in Tracked /\ \A k \in 1 .. j - 1 : up[k] # up[j])
      BY <1>4, <2>2 DEF Fresh
    <3>5. j = m + 1
      <4>1. j \notin 1 .. m
        BY <1>7, <3>4
      <4>. QED
        BY <1>5, <4>1
    <3>6. PICK k \in 1 .. m : up[k] = up[m + 1]
      BY <1>5, <1>12, <3>3, <3>4, <3>5
    <3>. QED
      BY <1>8, <3>3, <3>6
  <2>3. CASE ~(m < n)
    <3>1. m = n
      BY <1>1, <1>4, <2>3
    <3> DEFINE f == [i \in 1 .. m |-> w[i]]
    <3>2. f \in Injection(1 .. m, Tracked)
      <4>1. \A i \in 1 .. m : w[i] \in Tracked
        BY <1>7, <1>8
      <4>2. \A i, j \in 1 .. m : w[i] = w[j] => i = j
        BY <1>8, <1>11 DEF Once
      <4>. QED
        BY <4>1, <4>2 DEF Injection, IsInjective
    <3>3. Cardinality(1 .. m) = Cardinality(Tracked)
      <4>1. Cardinality(1 .. m) = m
        BY <1>5, FS_Interval
      <4>. QED
        BY <3>1, <4>1 DEF n
    <3>4. f \in Surjection(1 .. m, Tracked)
      <4> HIDE DEF f
      <4>. QED
        BY <3>2, <3>3, FS_Injection
    <3>. QED
      BY <1>12, <3>4 DEF Surjection
  <2>. QED
    BY <2>2, <2>3
<1>. QED
  BY <1>8, <1>10, <1>11, <1>12 DEF Last, w

(***************************************************************************)
(* Where every parent is tracked and one block lower, no hash is above     *)
(* itself.                                                                 *)
(***************************************************************************)
LEMMA NumbersFall ==
  ASSUME TypeOK, NEW h, NEW w, Chain(nodes, h, w),
         \A i \in 1 .. Len(w) : /\ nodes[w[i]].parent \in Tracked
                                /\ nodes[w[i]].number = nodes[nodes[w[i]].parent].number + 1,
         NEW k \in 1 .. Len(w)
  PROVE  w[k] # nodes[Last(w)].parent
<1> DEFINE m == Len(w)
           number(i) == nodes[w[i]].number
<1>1. /\ m \in Nat /\ m >= 1 /\ \A i \in 1 .. m : w[i] \in Tracked
      /\ \A i \in 1 .. m - 1 : w[i + 1] = nodes[w[i]].parent
  BY LenProperties, ElementOfSeq DEF Chain, Tracked
<1>2. \A x \in Tracked : nodes[x].number \in Nat
  BY TrackerAssumption DEF TypeOK
<1> DEFINE Good == {d \in Nat : \A i \in 1 .. m : i - d >= 1 => number(i - d) = number(i) + d}
<1>3. 0 \in Good
  <2>1. \A i \in 1 .. m : number(i) \in Nat /\ i - 0 = i
    BY <1>1, <1>2
  <2>. QED
    BY <2>1
<1>4. ASSUME NEW d \in Nat, d \in Good PROVE d + 1 \in Good
  <2>1. ASSUME NEW i \in 1 .. m, i - (d + 1) >= 1
        PROVE  number(i - (d + 1)) = number(i) + (d + 1)
    <3> DEFINE j == i - (d + 1)
    <3>1. j \in 1 .. m /\ j \in 1 .. m - 1 /\ j + 1 = i - d /\ i - d >= 1 /\ i - d \in 1 .. m
      BY <1>1, <2>1
    <3>2. number(i - d) = number(i) + d
      BY <1>4, <3>1
    <3>3. number(j) = number(i - d) + 1
      BY <1>1, <3>1
    <3>4. number(i) \in Nat
      BY <1>1, <1>2
    <3>5. number(j) \in Nat
      BY <1>1, <1>2, <3>1
    <3> HIDE DEF number
    <3>. QED
      BY <3>2, <3>3, <3>4, <3>5
  <2>. QED
    BY <2>1
<1>5. Nat \subseteq Good
  <2> HIDE DEF Good
  <2>1. \A d \in Nat : d \in Good => d + 1 \in Good
    BY <1>4
  <2>. QED
    BY <1>3, <2>1, Induction
<1>6. m - k \in Nat /\ m - (m - k) = k /\ m \in 1 .. m /\ k >= 1
  BY <1>1
<1>7. number(k) = number(m) + (m - k)
  <2>1. m - k \in Good
    BY <1>5, <1>6
  <2>. QED
    BY <1>6, <2>1
<1>8. number(m) = nodes[nodes[w[m]].parent].number + 1
  BY <1>6
<1>9. /\ number(m) \in Nat /\ nodes[w[m]].parent \in Tracked
      /\ nodes[nodes[w[m]].parent].number \in Nat
  BY <1>1, <1>2, <1>6
<1>10. w[k] # nodes[w[m]].parent
  <2>1. number(k) > nodes[nodes[w[m]].parent].number
    BY <1>6, <1>7, <1>8, <1>9
  <2>. QED
    BY <1>9, <2>1
<1>. QED
  BY <1>10 DEF Last

(* A walk gets to the root, or to one of several genesis blocks.           *)
LEMMA WalkGetsToTheTop ==
  ASSUME TypeOK, Rooted, IsFiniteSet(Tracked), NEW h \in Tracked
  PROVE  \/ \E i \in 1 .. Len(Walk(h)) : Walk(h)[i] = root
         \/ /\ nodes[root].parent = Zero
            /\ \E i \in 1 .. Len(Walk(h)) : nodes[Walk(h)[i]].parent = Zero
<1> DEFINE w == Walk(h)
<1>1. SUFFICES ASSUME \A i \in 1 .. Len(w) : w[i] # root,
                      ~(/\ nodes[root].parent = Zero
                        /\ \E i \in 1 .. Len(w) : nodes[w[i]].parent = Zero)
               PROVE  FALSE
  OBVIOUS
<1>2. /\ Chain(nodes, h, w)
      /\ nodes[Last(w)].parent \in Tracked => \E i \in 1 .. Len(w) : w[i] = nodes[Last(w)].parent
  BY WalkIsChain
<1>3. Len(w) \in 1 .. Len(w) /\ \A i \in 1 .. Len(w) : w[i] \in Tracked
  BY <1>2, LenProperties, ElementOfSeq DEF Chain, Tracked
<1> HIDE DEF w
<1>4. \A i \in 1 .. Len(w) : /\ nodes[w[i]].parent \in Tracked
                             /\ nodes[w[i]].number = nodes[nodes[w[i]].parent].number + 1
  BY <1>1, <1>3 DEF Rooted
<1>5. nodes[Last(w)].parent \in Tracked
  BY <1>3, <1>4 DEF Last
<1>. QED
  BY <1>2, <1>4, <1>5, NumbersFall

(* The root's own parent is never reported as one of its descendants.      *)
RootIsOnTop == root # None => nodes[root].parent \notin Tracked

(* Then a walk ends only where the tree does.                              *)
LEMMA WalkEndsOnTop ==
  ASSUME TypeOK, Rooted, IsFiniteSet(Tracked), RootIsOnTop, NEW h \in Tracked
  PROVE  nodes[Last(Walk(h))].parent \notin Tracked
<1> DEFINE w == Walk(h)
<1>1. SUFFICES ASSUME nodes[Last(w)].parent \in Tracked PROVE FALSE
  OBVIOUS
<1>2. /\ Chain(nodes, h, w)
      /\ nodes[Last(w)].parent \in Tracked => \E i \in 1 .. Len(w) : w[i] = nodes[Last(w)].parent
  BY WalkIsChain
<1>3. /\ Len(w) \in Nat /\ \A i \in 1 .. Len(w) : w[i] \in Tracked
      /\ \A i \in 1 .. Len(w) - 1 : w[i + 1] = nodes[w[i]].parent
  BY <1>2, LenProperties, ElementOfSeq DEF Chain, Tracked
<1> HIDE DEF w
<1>4. ASSUME NEW i \in 1 .. Len(w) PROVE nodes[w[i]].parent \in Tracked
  <2>1. CASE i = Len(w)
    BY <1>1, <2>1 DEF Last
  <2>2. CASE i # Len(w)
    <3>1. i \in 1 .. Len(w) - 1 /\ i + 1 \in 1 .. Len(w)
      BY <1>3, <2>2
    <3>. QED
      BY <1>3, <3>1
  <2>. QED
    BY <2>1, <2>2
<1>5. /\ Zero \notin Tracked /\ root # None /\ root \in Tracked
  BY TrackerAssumption DEF TypeOK
<1>6. \A i \in 1 .. Len(w) : /\ nodes[w[i]].parent \in Tracked
                             /\ nodes[w[i]].number = nodes[nodes[w[i]].parent].number + 1
  BY <1>3, <1>4, <1>5 DEF Rooted, RootIsOnTop
<1>. QED
  BY <1>1, <1>2, <1>6, NumbersFall

-----------------------------------------------------------------------------
(* The ceiling, and which heads are orphans.                               *)

(* The tracker never holds more heads than it may.                         *)
Bounded == IsFiniteSet(Tracked) /\ Cardinality(Tracked) <= MaxTrackedHeads

(* The tracker starts empty.                                               *)
LEMMA InitBounded == Init => Bounded
  BY TrackerAssumption, FS_EmptySet DEF Init, Bounded, Tracked

(* Storing a head for which there is room keeps the ceiling.               *)
LEMMA StoreKeepsBounded ==
  ASSUME IsFiniteSet(Tracked), Cardinality(Tracked) <= MaxTrackedHeads, NEW c, HasRoom(c),
         Store(c)
  PROVE  Bounded'
<1>1. DOMAIN nodes' = Tracked \cup {c.hash}
  BY DEF Store
<1>2. Cardinality(Tracked) \in Nat /\ MaxTrackedHeads \in Nat
  BY FS_CardinalityType, TrackerAssumption
<1>3. CASE c.hash \in Tracked
  <2>1. DOMAIN nodes' = Tracked
    BY <1>1, <1>3
  <2>. QED
    BY <2>1 DEF Bounded, Tracked
<1>4. CASE c.hash \notin Tracked
  <2>1. /\ IsFiniteSet(Tracked \cup {c.hash})
        /\ Cardinality(Tracked \cup {c.hash}) = Cardinality(Tracked) + 1
    BY <1>4, FS_AddElement
  <2>2. Cardinality(Tracked) < MaxTrackedHeads
    BY <1>4 DEF HasRoom
  <2>3. Cardinality(Tracked) + 1 <= MaxTrackedHeads
    BY <1>2, <2>2
  <2>. QED
    BY <1>1, <2>1, <2>3 DEF Bounded, Tracked
<1>. QED
  BY <1>3, <1>4

(* apply raises at the ceiling before it stores, so no step goes over it.  *)
LEMMA NextBounded ==
  ASSUME TypeOK, Bounded, [Next]_vars
  PROVE  Bounded'
<1>1. IsFiniteSet(Tracked) /\ Cardinality(Tracked) <= MaxTrackedHeads
  BY DEF Bounded
<1>2. ASSUME nodes' = nodes PROVE Bounded'
  BY <1>1, <1>2 DEF Bounded, Tracked
<1>3. ASSUME NEW o \in Observations, Bootstrap(o) PROVE HasRoom(o.head) /\ Store(o.head)
  <2>1. Tracked = {} /\ MaxTrackedHeads \in Nat \ {0}
    BY <1>3, TrackerAssumption DEF Bootstrap, TypeOK
  <2>2. Cardinality(Tracked) = 0
    BY <2>1, FS_EmptySet
  <2>. QED
    BY <1>3, <2>1, <2>2 DEF Bootstrap, HasRoom
<1>4. ASSUME NEW o \in Observations, Duplicate(o) PROVE HasRoom(o.head) /\ Store(o.head)
  BY <1>4, TrackerAssumption DEF Duplicate, HasRoom, TypeOK, Observations
<1>5. ASSUME NEW o \in Observations, Extend(o) \/ Reorg(o) PROVE HasRoom(o.head) /\ Store(o.head)
  BY <1>5 DEF Extend, Reorg, Placeable
<1>6. ASSUME NEW o \in Observations, Orphan(o) \/ Reject(o) PROVE nodes' = nodes
  BY <1>6 DEF Orphan, Reject
<1>7. CASE UNCHANGED vars
  BY <1>2, <1>7 DEF vars
<1>. QED
  BY <1>1, <1>2, <1>3, <1>4, <1>5, <1>6, <1>7, StoreKeepsBounded DEF Next

(* What every step keeps of the tree.                                      *)
TreeInv == TypeOK /\ Rooted /\ Bounded

(* It holds in every state.                                                *)
LEMMA TreeInvHolds == Spec => []TreeInv
<1>1. Init => TreeInv
  BY InitInv, InitBounded DEF IInv, TreeInv
<1>2. TreeInv /\ [Next]_vars => TreeInv'
  BY NextTypeOK, NextRooted, NextBounded DEF IInv, TreeInv
<1>. QED
  BY <1>1, <1>2, PTL DEF Spec

(***************************************************************************)
(* MAX_TRACKED_HEADS is a ceiling: whatever is observed, the tree stays    *)
(* finite and no larger.  This is also why _paths_to_common_ancestor ends: *)
(* no walk of it visits a hash twice.                                      *)
(***************************************************************************)
THEOREM TreeIsBounded == Spec => []Bounded
<1>1. TreeInv => Bounded
  BY DEF TreeInv
<1>. QED
  BY <1>1, TreeInvHolds, PTL

(* The positions of a tracked head are those of its walk, by number.       *)
LEMMA PositionsOfTracked ==
  ASSUME IsFiniteSet(Tracked), NEW h \in Tracked, h # Zero
  PROVE  /\ Positions(h) = {Walk(h)[i] : i \in 1 .. Len(Walk(h))}
                             \cup (IF ReachesGenesis(h) THEN {Zero} ELSE {})
         /\ ReachesGenesis(h) <=> \E i \in 1 .. Len(Walk(h)) : nodes[Walk(h)[i]].parent = Zero
<1>1. DOMAIN Walk(h) = 1 .. Len(Walk(h))
  BY WalkIsChain, LenProperties DEF Chain
<1>. QED
  BY <1>1 DEF Positions, ReachesGenesis

(* Every walk passes the root, or ends above genesis as the root does.     *)
LEMMA TopIsSeen ==
  ASSUME TreeInv, NEW h \in Tracked
  PROVE  /\ root \in Positions(h) \/ nodes[root].parent = Zero
         /\ nodes[root].parent = Zero <=> Zero \in Positions(h)
<1>1. /\ TypeOK /\ Rooted /\ IsFiniteSet(Tracked)
  BY DEF TreeInv, Bounded
<1>2. /\ Zero \notin Tracked /\ h # Zero
  BY <1>1, TrackerAssumption DEF TypeOK
<1>3. \A i \in 1 .. Len(Walk(h)) : Walk(h)[i] \in Tracked
  BY <1>1, WalkIsChain, LenProperties, ElementOfSeq DEF Chain, Tracked
<1>4. \/ \E i \in 1 .. Len(Walk(h)) : Walk(h)[i] = root
      \/ /\ nodes[root].parent = Zero
         /\ \E i \in 1 .. Len(Walk(h)) : nodes[Walk(h)[i]].parent = Zero
  BY <1>1, WalkGetsToTheTop
<1>5. ASSUME Zero \in Positions(h) PROVE nodes[root].parent = Zero
  <2>1. PICK i \in 1 .. Len(Walk(h)) : nodes[Walk(h)[i]].parent = Zero
    BY <1>1, <1>2, <1>3, <1>5, PositionsOfTracked
  <2>. QED
    BY <1>1, <1>2, <1>3, <2>1 DEF Rooted
<1>. QED
  BY <1>1, <1>2, <1>4, <1>5, PositionsOfTracked

(* Two walks meet exactly if the candidate hangs on the tree.              *)
LEMMA MeetsIffConnected ==
  ASSUME TreeInv, NEW c \in Claims, currentHash # None,
         c.hash \in Tracked => nodes[c.hash] = c
  PROVE  Meets(c) <=> \/ c.parent \in Tracked
                      \/ c.parent = Zero /\ nodes[root].parent = Zero
                      \/ c.hash = root
<1>1. /\ TypeOK /\ Rooted /\ IsFiniteSet(Tracked)
  BY DEF TreeInv, Bounded
<1>2. /\ Zero \notin Tracked /\ currentHash \in Tracked /\ root \in Tracked /\ c.hash # Zero
  BY <1>1, TrackerAssumption DEF TypeOK
<1>3. /\ root \in Positions(currentHash) \/ nodes[root].parent = Zero
      /\ nodes[root].parent = Zero <=> Zero \in Positions(currentHash)
  BY <1>2, TopIsSeen
<1>4. Positions(Zero) = {Zero}
  BY <1>2, WalkIsTracked DEF Positions, ReachesGenesis
<1>5. CASE c.parent \in Tracked
  <2>1. /\ root \in Positions(c.parent) \/ nodes[root].parent = Zero
        /\ nodes[root].parent = Zero <=> Zero \in Positions(c.parent)
    BY <1>5, TopIsSeen
  <2>. QED
    BY <1>3, <1>5, <2>1 DEF Meets
<1>6. CASE c.parent = Zero /\ nodes[root].parent = Zero
  BY <1>3, <1>4, <1>6 DEF Meets
<1>7. CASE c.hash = root
  <2>1. nodes[root].parent = Zero => c.parent = Zero
    BY <1>2, <1>7
  <2>. QED
    BY <1>3, <1>6, <1>7, <2>1 DEF Meets
<1>8. ASSUME Meets(c), c.parent \notin Tracked, c.hash # root
      PROVE  c.parent = Zero /\ nodes[root].parent = Zero
  <2>1. CASE c.hash \in Tracked
    BY <1>1, <1>8, <2>1 DEF Rooted
  <2>2. CASE c.hash \notin Tracked
    BY <1>1, <1>8, <2>2, MeetingHeadIsConnected
  <2>. QED
    BY <2>1, <2>2
<1>. QED
  BY <1>5, <1>6, <1>7, <1>8

(***************************************************************************)
(* An orphan verdict is honest: a head that is neither current nor a child *)
(* of the current head is an orphan exactly if its parent is untracked, it *)
(* is no second genesis of a tree that starts at one, and it is not the    *)
(* root itself.  The code asks no such thing: it only tries to make two    *)
(* walks meet.                                                             *)
(***************************************************************************)
THEOREM OrphansAreUnconnected == Spec => OrphanIffUnconnected
<1> DEFINE P == outcome'.kind \in {"orphan", "reorg"} =>
                  LET c == outcome'.observation.head
                  IN  (outcome'.kind = "orphan") <=>
                        /\ c.parent \notin Tracked
                        /\ ~(c.parent = Zero /\ nodes[root].parent = Zero)
                        /\ c.hash # root
<1>1. ASSUME TreeInv, [Next]_vars PROVE [P]_vars
  <2>1. ASSUME NEW o \in Observations, Orphan(o) \/ Reorg(o) PROVE P
    <3>1. /\ o.head \in Claims /\ currentHash # None
          /\ o.head.hash \in Tracked => nodes[o.head.hash] = o.head
      BY <2>1 DEF Orphan, Reorg, Placeable, Admissible, Observations
    <3>2. /\ outcome'.observation = o
          /\ outcome'.kind = IF Meets(o.head) THEN "reorg" ELSE "orphan"
      BY <2>1 DEF Orphan, Reorg, ReorgTransition, Transition
    <3>3. (outcome'.kind = "orphan") <=> ~Meets(o.head)
      BY <3>2
    <3>. QED
      BY <1>1, <3>1, <3>2, <3>3, MeetsIffConnected
  <2>2. ASSUME NEW o \in Observations, Bootstrap(o) \/ Duplicate(o) \/ Extend(o) \/ Reject(o)
        PROVE  P
    BY <2>2 DEF Bootstrap, Duplicate, Extend, Reject, Transition, Rejected
  <2>. QED
    BY <1>1, <2>1, <2>2 DEF Next
<1>. QED
  BY <1>1, TreeInvHolds, PTL DEF Spec, OrphanIffUnconnected

-----------------------------------------------------------------------------
(* Ways up that end, and chains that are turned around.                    *)

(* A list turned around.                                                   *)
LEMMA Reversed ==
  ASSUME NEW S, NEW s \in Seq(S)
  PROVE  /\ Reverse(s) \in Seq(S) /\ Len(Reverse(s)) = Len(s) /\ Len(s) \in Nat
         /\ \A i \in 1 .. Len(s) : Reverse(s)[i] = s[(Len(s) - i) + 1]
<1>1. Len(s) \in Nat /\ \A i \in 1 .. Len(s) : (Len(s) - i) + 1 \in 1 .. Len(s) /\ s[i] \in S
  BY LenProperties, ElementOfSeq
<1>. QED
  BY <1>1 DEF Reverse

(* A piece of a list.                                                      *)
LEMMA Cut ==
  ASSUME NEW S, NEW s \in Seq(S), NEW a \in Nat, NEW b \in Nat, a >= 1, b <= Len(s), a <= b + 1
  PROVE  /\ SubSeq(s, a, b) \in Seq(S) /\ Len(SubSeq(s, a, b)) = (b - a) + 1
         /\ \A i \in 1 .. (b - a) + 1 : SubSeq(s, a, b)[i] = s[(a + i) - 1]
<1>1. a \in Int /\ b \in Int /\ \A i \in a .. b : s[i] \in S
  <2>1. Len(s) \in Nat
    BY LenProperties
  <2>2. ASSUME NEW i \in a .. b PROVE s[i] \in S
    <3>1. i \in 1 .. Len(s)
      BY <2>1
    <3>. QED
      BY <3>1, ElementOfSeq
  <2>. QED
    BY <2>2
<1>2. /\ SubSeq(s, a, b) \in Seq(S)
      /\ Len(SubSeq(s, a, b)) = IF a <= b THEN b - a + 1 ELSE 0
      /\ \A i \in 1 .. b - a + 1 : SubSeq(s, a, b)[i] = s[a + i - 1]
  BY <1>1, SubSeqProperties
<1>3. ~(a <= b) => b - a + 1 = 0
  OBVIOUS
<1>. QED
  BY <1>2, <1>3

(* From the i-th hash of one list and the j-th of the other on they agree. *)
Agree(w, i, v, j) ==
  Len(w) - i = Len(v) - j /\ \A m \in 0 .. Len(w) - i : w[i + m] = v[j + m]

(* The first k of c are kept, the rest is removed and other hashes added.  *)
Replaces(c, d, k, removed, added) ==
  /\ k \in 0 .. Len(c)
  /\ removed = Reverse(SubSeq(c, k + 1, Len(c)))
  /\ d = SubSeq(c, 1, k) \o added

(***************************************************************************)
(* From the lists of hashes that go up to a common end, the one turned     *)
(* around becomes the other by giving up what lies below the end on its    *)
(* own side, newest first, and taking what lies below it on the other.     *)
(***************************************************************************)
LEMMA Switched ==
  ASSUME NEW S, NEW w \in Seq(S), NEW v \in Seq(S),
         NEW i \in 1 .. Len(w) + 1, NEW j \in 1 .. Len(v) + 1, Agree(w, i, v, j)
  PROVE  Replaces(Reverse(w), Reverse(v), (Len(w) + 1) - i,
                  SubSeq(w, 1, i - 1), Reverse(SubSeq(v, 1, j - 1)))
<1> DEFINE n == Len(w)
           k == (n + 1) - i
           c == Reverse(w)
           a == SubSeq(w, 1, i - 1)
           b == SubSeq(c, k + 1, n)
           front == SubSeq(c, 1, k)
           e == SubSeq(v, 1, j - 1)
<1>1. n \in Nat /\ Len(v) \in Nat
  BY LenProperties
<1>2. /\ i \in Nat /\ j \in Nat /\ i >= 1 /\ j >= 1 /\ i <= n + 1 /\ j <= Len(v) + 1
      /\ k \in 0 .. n /\ k \in Nat /\ k = (n + 1) - i /\ Len(v) = k + (j - 1)
  <2>1. Len(w) - i = Len(v) - j
    BY DEF Agree
  <2>. QED
    BY <1>1, <2>1
<1>3. c \in Seq(S) /\ Len(c) = n /\ \A x \in 1 .. n : c[x] = w[(n - x) + 1]
  BY Reversed
<1> HIDE DEF k
<1>4. a \in Seq(S) /\ Len(a) = i - 1 /\ \A x \in 1 .. i - 1 : a[x] = w[x]
  <2>1. /\ a \in Seq(S) /\ Len(a) = ((i - 1) - 1) + 1
        /\ \A x \in 1 .. ((i - 1) - 1) + 1 : a[x] = w[(1 + x) - 1]
    <3>1. 1 \in Nat /\ i - 1 \in Nat /\ i - 1 <= Len(w) /\ 1 <= (i - 1) + 1
      BY <1>1, <1>2
    <3>. QED
      BY <3>1, Cut
  <2>2. ((i - 1) - 1) + 1 = i - 1 /\ \A x \in 1 .. i - 1 : (1 + x) - 1 = x
    BY <1>2
  <2> HIDE DEF a
  <2>. QED
    BY <2>1, <2>2
<1>5. e \in Seq(S) /\ Len(e) = j - 1 /\ \A x \in 1 .. j - 1 : e[x] = v[x]
  <2>1. /\ e \in Seq(S) /\ Len(e) = ((j - 1) - 1) + 1
        /\ \A x \in 1 .. ((j - 1) - 1) + 1 : e[x] = v[(1 + x) - 1]
    <3>1. 1 \in Nat /\ j - 1 \in Nat /\ j - 1 <= Len(v) /\ 1 <= (j - 1) + 1
      BY <1>1, <1>2
    <3>. QED
      BY <3>1, Cut
  <2>2. ((j - 1) - 1) + 1 = j - 1 /\ \A x \in 1 .. j - 1 : (1 + x) - 1 = x
    BY <1>2
  <2> HIDE DEF e
  <2>. QED
    BY <2>1, <2>2
<1> HIDE DEF c
<1>6. b \in Seq(S) /\ Len(b) = i - 1 /\ \A x \in 1 .. i - 1 : b[x] = c[k + x]
  <2>1. /\ b \in Seq(S) /\ Len(b) = (n - (k + 1)) + 1
        /\ \A x \in 1 .. (n - (k + 1)) + 1 : b[x] = c[((k + 1) + x) - 1]
    <3>1. k + 1 \in Nat /\ n \in Nat /\ k + 1 >= 1 /\ n <= Len(c) /\ k + 1 <= n + 1
      BY <1>1, <1>2, <1>3
    <3>. QED
      BY <1>3, <3>1, Cut
  <2>2. (n - (k + 1)) + 1 = i - 1 /\ \A x \in 1 .. i - 1 : ((k + 1) + x) - 1 = k + x
    BY <1>1, <1>2
  <2> HIDE DEF b
  <2>. QED
    BY <2>1, <2>2
<1>7. front \in Seq(S) /\ Len(front) = k /\ \A x \in 1 .. k : front[x] = c[x]
  <2>1. /\ front \in Seq(S) /\ Len(front) = (k - 1) + 1
        /\ \A x \in 1 .. (k - 1) + 1 : front[x] = c[(1 + x) - 1]
    <3>1. 1 \in Nat /\ k \in Nat /\ k <= Len(c) /\ 1 <= k + 1
      BY <1>1, <1>2, <1>3
    <3>. QED
      BY <1>3, <3>1, Cut
  <2>2. (k - 1) + 1 = k /\ \A x \in 1 .. k : (1 + x) - 1 = x
    BY <1>2
  <2> HIDE DEF front
  <2>. QED
    BY <2>1, <2>2
<1> HIDE DEF a, b, e, front
<1>8. a = Reverse(b)
  <2>1. Reverse(b) \in Seq(S) /\ Len(Reverse(b)) = i - 1
        /\ \A x \in 1 .. i - 1 : Reverse(b)[x] = b[((i - 1) - x) + 1]
    <3>1. b \in Seq(S)
      BY <1>6
    <3>2. Len(b) = i - 1
      BY <1>6
    <3>3. /\ Reverse(b) \in Seq(S) /\ Len(Reverse(b)) = Len(b)
          /\ \A x \in 1 .. Len(b) : Reverse(b)[x] = b[(Len(b) - x) + 1]
      BY <3>1, Reversed, Zenon
    <3>. QED
      BY <3>2, <3>3, Zenon
  <2>2. ASSUME NEW x \in 1 .. i - 1 PROVE a[x] = Reverse(b)[x]
    <3> DEFINE y == ((i - 1) - x) + 1
    <3>1. y \in 1 .. i - 1 /\ k + y \in 1 .. n /\ (n - (k + y)) + 1 = x
      BY <1>1, <1>2
    <3>2. Reverse(b)[x] = b[y] /\ b[y] = c[k + y] /\ c[k + y] = w[x]
      BY <1>3, <1>6, <2>1, <3>1
    <3>. QED
      BY <1>4, <3>2
  <2>. QED
    BY <1>4, <2>1, <2>2, SeqEqual
<1>9. Reverse(v) = front \o Reverse(e)
  <2>1. /\ Reverse(e) \in Seq(S) /\ Len(Reverse(e)) = j - 1
        /\ \A x \in 1 .. j - 1 : Reverse(e)[x] = e[((j - 1) - x) + 1]
    <3>1. e \in Seq(S)
      BY <1>5
    <3>2. Len(e) = j - 1
      BY <1>5
    <3>3. /\ Reverse(e) \in Seq(S) /\ Len(Reverse(e)) = Len(e)
          /\ \A x \in 1 .. Len(e) : Reverse(e)[x] = e[(Len(e) - x) + 1]
      BY <3>1, Reversed, Zenon
    <3>. QED
      BY <3>2, <3>3, Zenon
  <2>2. /\ front \o Reverse(e) \in Seq(S) /\ Len(front \o Reverse(e)) = k + (j - 1)
        /\ \A x \in 1 .. k + (j - 1) :
              (front \o Reverse(e))[x] = IF x <= k THEN front[x] ELSE Reverse(e)[x - k]
    <3> DEFINE r == Reverse(e)
               d == j - 1
    <3>1. front \in Seq(S) /\ r \in Seq(S) /\ Len(front) = k /\ Len(r) = d
      BY <1>7, <2>1
    <3> HIDE DEF r, d
    <3>2. /\ front \o r \in Seq(S) /\ Len(front \o r) = Len(front) + Len(r)
          /\ \A x \in 1 .. Len(front) + Len(r) :
                (front \o r)[x] = IF x <= Len(front) THEN front[x] ELSE r[x - Len(front)]
      BY <3>1, ConcatProperties, Zenon
    <3>. QED
      BY <3>1, <3>2, Zenon DEF r, d
  <2>3. /\ Reverse(v) \in Seq(S) /\ Len(Reverse(v)) = Len(v)
        /\ \A x \in 1 .. Len(v) : Reverse(v)[x] = v[(Len(v) - x) + 1]
    BY Reversed
  <2>4. ASSUME NEW x \in 1 .. Len(v) PROVE Reverse(v)[x] = (front \o Reverse(e))[x]
    <3>1. CASE x <= k
      <4> DEFINE m == k - x
      <4>1. /\ x \in 1 .. k /\ x \in 1 .. n /\ m \in 0 .. n - i
            /\ i + m = (n - x) + 1 /\ j + m = (Len(v) - x) + 1
        BY <1>1, <1>2, <3>1
      <4>2. w[i + m] = v[j + m]
        BY <4>1 DEF Agree
      <4>3. front[x] = w[(n - x) + 1]
        BY <1>3, <1>7, <4>1
      <4>. QED
        BY <1>2, <2>2, <2>3, <3>1, <4>1, <4>2, <4>3
    <3>2. CASE ~(x <= k)
      <4>1. /\ x - k \in 1 .. j - 1 /\ ((j - 1) - (x - k)) + 1 \in 1 .. j - 1
            /\ ((j - 1) - (x - k)) + 1 = (Len(v) - x) + 1
        BY <1>1, <1>2, <3>2
      <4>2. Reverse(e)[x - k] = v[(Len(v) - x) + 1]
        BY <1>5, <2>1, <4>1
      <4>. QED
        BY <1>2, <2>2, <2>3, <3>2, <4>2
    <3>. QED
      BY <3>1, <3>2
  <2>. QED
    BY <1>2, <2>2, <2>3, <2>4, SeqEqual
<1>. QED
  BY <1>2, <1>3, <1>8, <1>9 DEF a, b, c, e, front, k, Replaces

(* A way up that cannot be continued.                                      *)
Ended(N, w) == N[w[Len(w)]].parent \notin DOMAIN N

(***************************************************************************)
(* Two ways up that share a hash go the same way from there, as far as the *)
(* second one goes; and it goes as far as the first, since it ended.       *)
(***************************************************************************)
LEMMA ChainFollows ==
  ASSUME NEW N, NEW h, NEW g, NEW w, NEW v, Chain(N, h, w), Chain(N, g, v), Ended(N, v),
         NEW i \in 1 .. Len(w), NEW j \in 1 .. Len(v), w[i] = v[j],
         NEW m \in 0 .. Len(w) - i
  PROVE  j + m <= Len(v) /\ w[i + m] = v[j + m]
<1>1. /\ Len(w) \in Nat /\ Len(v) \in Nat /\ \A x \in 1 .. Len(w) : w[x] \in DOMAIN N
      /\ \A x \in 1 .. Len(w) - 1 : w[x + 1] = N[w[x]].parent
      /\ \A x \in 1 .. Len(v) - 1 : v[x + 1] = N[v[x]].parent
  BY LenProperties, ElementOfSeq DEF Chain
<1> DEFINE Good == {d \in Nat : i + d <= Len(w) => j + d <= Len(v) /\ w[i + d] = v[j + d]}
<1>2. 0 \in Good
  <2>1. i + 0 = i /\ j + 0 = j /\ j <= Len(v)
    BY <1>1
  <2>. QED
    BY <2>1
<1>3. ASSUME NEW d \in Nat, d \in Good PROVE d + 1 \in Good
  <2>1. SUFFICES ASSUME i + (d + 1) <= Len(w)
                 PROVE  j + (d + 1) <= Len(v) /\ w[i + (d + 1)] = v[j + (d + 1)]
    OBVIOUS
  <2>2. /\ i + d <= Len(w) /\ i + d \in 1 .. Len(w) - 1 /\ i + (d + 1) = (i + d) + 1
        /\ i + (d + 1) \in 1 .. Len(w)
    BY <1>1, <2>1
  <2>3. j + d <= Len(v) /\ w[i + d] = v[j + d]
    BY <1>3, <2>2
  <2>4. w[i + (d + 1)] = N[v[j + d]].parent /\ w[i + (d + 1)] \in DOMAIN N
    BY <1>1, <2>2, <2>3
  <2>5. j + d # Len(v)
    BY <2>4 DEF Ended
  <2>6. j + d \in 1 .. Len(v) - 1 /\ j + (d + 1) = (j + d) + 1 /\ j + (d + 1) <= Len(v)
    <3>1. j \in Nat /\ j >= 1 /\ d \in Nat /\ Len(v) \in Nat
      BY <1>1
    <3>. QED
      BY <2>3, <2>5, <3>1
  <2>. QED
    BY <1>1, <2>4, <2>6
<1>4. Nat \subseteq Good
  <2> HIDE DEF Good
  <2>1. \A d \in Nat : d \in Good => d + 1 \in Good
    BY <1>3
  <2>. QED
    BY <1>2, <2>1, Induction
<1>5. m \in Good /\ i + m <= Len(w)
  BY <1>1, <1>4
<1>. QED
  BY <1>5

(* Two ways up that cannot be continued are one from where they meet.      *)
LEMMA ChainsMerge ==
  ASSUME NEW N, NEW h, NEW g, NEW w, NEW v, Chain(N, h, w), Chain(N, g, v),
         Ended(N, w), Ended(N, v), NEW i \in 1 .. Len(w), NEW j \in 1 .. Len(v), w[i] = v[j]
  PROVE  Agree(w, i, v, j)
<1>1. Len(w) \in Nat /\ Len(v) \in Nat
  BY LenProperties DEF Chain
<1>2. Len(w) - i \in 0 .. Len(w) - i /\ Len(v) - j \in 0 .. Len(v) - j
  BY <1>1
<1>3. \A m \in 0 .. Len(w) - i : j + m <= Len(v) /\ w[i + m] = v[j + m]
  BY ChainFollows
<1>4. \A m \in 0 .. Len(v) - j : i + m <= Len(w) /\ v[j + m] = w[i + m]
  BY ChainFollows
<1>5. j + (Len(w) - i) <= Len(v) /\ i + (Len(v) - j) <= Len(w)
  BY <1>2, <1>3, <1>4
<1>. QED
  BY <1>1, <1>3, <1>5 DEF Agree

(* So there is one way up from a hash.                                     *)
LEMMA OneWayUp ==
  ASSUME NEW N, NEW h, NEW w, NEW v, Chain(N, h, w), Chain(N, h, v), Ended(N, w), Ended(N, v)
  PROVE  w = v
<1>1. /\ w \in Seq(DOMAIN N) /\ v \in Seq(DOMAIN N) /\ Len(w) \in Nat /\ Len(v) \in Nat
      /\ 1 \in 1 .. Len(w) /\ 1 \in 1 .. Len(v) /\ w[1] = v[1]
  BY LenProperties DEF Chain
<1>2. /\ Len(w) - 1 = Len(v) - 1
      /\ \A m \in 0 .. Len(w) - 1 : w[1 + m] = v[1 + m]
  BY <1>1, ChainsMerge DEF Agree
<1>3. Len(w) = Len(v)
  BY <1>1, <1>2
<1>4. ASSUME NEW x \in 1 .. Len(w) PROVE w[x] = v[x]
  <2>1. x - 1 \in 0 .. Len(w) - 1 /\ 1 + (x - 1) = x
    BY <1>1
  <2>. QED
    BY <1>2, <2>1
<1>. QED
  BY <1>1, <1>3, <1>4, SeqEqual

(* What walks are in a tree whose root is on top.                          *)
Walks == \A h \in Tracked : /\ Chain(nodes, h, Walk(h)) /\ Once(Walk(h))
                            /\ Ended(nodes, Walk(h))

(* Walks end above the last tracked head and nowhere else.                 *)
LEMMA WalksAre == TreeInv /\ RootIsOnTop => Walks
<1>1. ASSUME TreeInv, RootIsOnTop, NEW h \in Tracked
      PROVE  /\ Chain(nodes, h, Walk(h)) /\ Once(Walk(h)) /\ Ended(nodes, Walk(h))
  <2>1. TypeOK /\ Rooted /\ IsFiniteSet(Tracked)
    BY <1>1 DEF TreeInv, Bounded
  <2>2. nodes[Last(Walk(h))].parent \notin Tracked
    BY <1>1, <2>1, WalkEndsOnTop
  <2>. QED
    BY <2>1, <2>2, WalkIsChain DEF Ended, Tracked, Last
<1>. QED
  BY <1>1 DEF Walks

(* Nothing to walk from a hash that is not tracked.                        *)
LEMMA WalkOfUntracked ==
  ASSUME NEW h, h \notin Tracked
  PROVE  Walk(h) = <<>>
  BY DEF Walk

(* Storing a head leaves the walks of the others as they are.              *)
LEMMA StoredKeepsWalks ==
  ASSUME TreeInv, Walks, RootIsOnTop', NEW o \in Observations, Admissible(o), Store(o.head),
         currentHash # None, root' = root, NEW h \in Tracked
  PROVE  Chain(nodes', h, Walk(h)) /\ Ended(nodes', Walk(h))
<1> DEFINE w == Walk(h)
           c == o.head
<1>1. TypeOK /\ Rooted
  BY DEF TreeInv
<1>2. /\ DOMAIN nodes' = Tracked \cup {c.hash}
      /\ nodes'[c.hash] = c
      /\ \A x \in Tracked : nodes'[x] = nodes[x]
  BY <1>1, StoreExtends
<1>3. root \in Tracked /\ root # None /\ Zero \notin Tracked /\ c.hash # Zero
  BY <1>1, TrackerAssumption DEF TypeOK, Observations
<1>4. Chain(nodes, h, w) /\ Ended(nodes, w)
  BY DEF Walks
<1> HIDE DEF w, c
<1>5. /\ w \in Seq(Tracked) /\ Len(w) \in Nat /\ Len(w) >= 1 /\ w[1] = h
      /\ \A x \in 1 .. Len(w) : w[x] \in Tracked
      /\ \A x \in 1 .. Len(w) - 1 : w[x + 1] = nodes[w[x]].parent
  BY <1>4, LenProperties, ElementOfSeq DEF Chain, Tracked
<1>6. Chain(nodes', h, w)
  <2>1. w \in Seq(DOMAIN nodes')
    BY <1>2, <1>5, SeqMonotonic
  <2>2. \A x \in 1 .. Len(w) - 1 : x \in 1 .. Len(w)
    BY <1>5
  <2>3. \A x \in 1 .. Len(w) - 1 : w[x + 1] = nodes'[w[x]].parent
    BY <1>2, <1>5, <2>2
  <2>. QED
    BY <1>5, <2>1, <2>3 DEF Chain
<1>7. Ended(nodes', w)
  <2> DEFINE x == w[Len(w)]
  <2>1. x \in Tracked /\ nodes'[x].parent = nodes[x].parent /\ nodes[x].parent \notin Tracked
    <3>1. Len(w) \in 1 .. Len(w)
      BY <1>5
    <3>. QED
      BY <1>2, <1>4, <1>5, <3>1 DEF Ended, Tracked
  <2>2. x = root \/ nodes[x].parent = Zero
    BY <1>1, <2>1 DEF Rooted
  <2>3. nodes'[root].parent \notin DOMAIN nodes'
    BY <1>3 DEF RootIsOnTop, Tracked
  <2>. QED
    BY <1>2, <1>3, <2>1, <2>2, <2>3 DEF Ended
<1>. QED
  BY <1>6, <1>7 DEF w

(* The walk of the stored head is the head, and the walk of its parent.    *)
LEMMA StoredWalk ==
  ASSUME TreeInv, Walks, Walks', RootIsOnTop', NEW o \in Observations, Admissible(o),
         Store(o.head), currentHash # None, root' = root,
         o.head.parent \in Tracked \/ o.head.parent \notin DOMAIN nodes',
         NEW v, v = Walk(o.head.hash)'
  PROVE  /\ Chain(nodes', o.head.hash, v) /\ Ended(nodes', v) /\ Once(v)
         /\ v = <<o.head.hash>> \o Walk(o.head.parent)
<1> DEFINE c == o.head
           p == Walk(c.parent)
           u == <<c.hash>> \o p
<1>1. /\ DOMAIN nodes' = Tracked \cup {c.hash}
      /\ nodes'[c.hash] = c
      /\ \A x \in Tracked : nodes'[x] = nodes[x]
  BY StoreExtends DEF TreeInv
<1>2. \A h \in DOMAIN nodes' : /\ Chain(nodes', h, Walk(h)') /\ Once(Walk(h)')
                               /\ Ended(nodes', Walk(h)')
  BY DEF Walks, Tracked
<1>3. c.hash \in DOMAIN nodes'
  BY <1>1
<1>4. Chain(nodes', c.hash, v) /\ Ended(nodes', v) /\ Once(v)
  <2>1. /\ Chain(nodes', c.hash, Walk(c.hash)') /\ Once(Walk(c.hash)')
        /\ Ended(nodes', Walk(c.hash)')
    BY <1>2, <1>3
  <2>. QED
    BY <2>1
<1>5. CASE c.parent \in Tracked
  <2>1. Chain(nodes', c.parent, p) /\ Ended(nodes', p)
    BY <1>5, StoredKeepsWalks
  <2>2. /\ p \in Seq(DOMAIN nodes') /\ Len(p) \in Nat /\ Len(p) >= 1 /\ p[1] = c.parent
        /\ \A x \in 1 .. Len(p) - 1 : p[x + 1] = nodes'[p[x]].parent
    BY <2>1, LenProperties DEF Chain
  <2>3. /\ u \in Seq(DOMAIN nodes') /\ Len(u) = 1 + Len(p) /\ u[1] = c.hash
        /\ \A x \in 2 .. 1 + Len(p) : u[x] = p[x - 1]
    <3> DEFINE T == DOMAIN nodes'
               one == <<c.hash>>
    <3>1. one \in Seq(T) /\ Len(one) = 1 /\ one[1] = c.hash
      BY <1>3
    <3>2. p \in Seq(T)
      BY <2>2
    <3> HIDE DEF one, p, T
    <3>3. /\ one \o p \in Seq(T) /\ Len(one \o p) = Len(one) + Len(p)
          /\ \A x \in 1 .. Len(one) + Len(p) :
                (one \o p)[x] = IF x <= Len(one) THEN one[x] ELSE p[x - Len(one)]
      BY <3>1, <3>2, ConcatProperties
    <3>4. \A x \in 1 .. 1 + Len(p) : (one \o p)[x] = IF x <= 1 THEN c.hash ELSE p[x - 1]
      <4>1. \A x \in 1 .. 1 + Len(p) : x <= 1 => x = 1
        OBVIOUS
      <4>. QED
        BY <3>1, <3>3, <4>1
    <3>5. one \o p \in Seq(T) /\ Len(one \o p) = 1 + Len(p)
      BY <3>1, <3>3
    <3>6. /\ 1 \in 1 .. 1 + Len(p) /\ 1 <= 1
          /\ \A x \in 2 .. 1 + Len(p) : x \in 1 .. 1 + Len(p) /\ ~(x <= 1)
      BY <2>2
    <3>7. (one \o p)[1] = c.hash /\ \A x \in 2 .. 1 + Len(p) : (one \o p)[x] = p[x - 1]
      BY <3>4, <3>6
    <3>. QED
      BY <3>5, <3>7 DEF one, T
  <2> HIDE DEF u, p
  <2>4. ASSUME NEW x \in 1 .. Len(u) - 1 PROVE u[x + 1] = nodes'[u[x]].parent
    <3>1. CASE x = 1
      <4>1. x + 1 \in 2 .. 1 + Len(p) /\ (x + 1) - 1 = 1
        BY <2>2, <3>1
      <4>. QED
        BY <1>1, <2>2, <2>3, <3>1, <4>1
    <3>2. CASE x # 1
      <4>1. /\ x \in 2 .. 1 + Len(p) /\ x + 1 \in 2 .. 1 + Len(p) /\ (x + 1) - 1 = (x - 1) + 1
            /\ x - 1 \in 1 .. Len(p) - 1
        BY <2>2, <2>3, <3>2
      <4>. QED
        BY <2>2, <2>3, <4>1
    <3>. QED
      BY <3>1, <3>2
  <2>5. Chain(nodes', c.hash, u)
    <3>1. Len(u) >= 1
      BY <2>2, <2>3
    <3>. QED
      BY <2>3, <2>4, <3>1 DEF Chain
  <2>6. Ended(nodes', u)
    <3>1. Len(u) \in 2 .. 1 + Len(p) /\ Len(u) - 1 = Len(p)
      BY <2>2, <2>3
    <3>. QED
      BY <2>1, <2>3, <3>1 DEF Ended
  <2>. QED
    BY <1>4, <2>5, <2>6, OneWayUp DEF u, p
<1>6. CASE c.parent \notin DOMAIN nodes'
  <2>1. p = <<>>
    BY <1>1, <1>6, WalkOfUntracked
  <2>2. u = <<c.hash>>
    BY <2>1
  <2>3. Chain(nodes', c.hash, <<c.hash>>) /\ Ended(nodes', <<c.hash>>)
    BY <1>1, <1>3, <1>6 DEF Chain, Ended
  <2> HIDE DEF u
  <2>. QED
    BY <1>4, <2>2, <2>3, OneWayUp DEF u
<1>. QED
  BY <1>4, <1>5, <1>6

(* The tip of a chain is where the walk it was taken from began.           *)
LEMMA TipOfReversed ==
  ASSUME NEW S, NEW w \in Seq(S), Len(w) >= 1
  PROVE  /\ Reverse(w) # <<>> /\ Reverse(w)[Len(Reverse(w))] = w[1]
         /\ Once(w) => IsInjective(Reverse(w))
<1>1. /\ Reverse(w) \in Seq(S) /\ Len(Reverse(w)) = Len(w) /\ Len(w) \in Nat
      /\ \A i \in 1 .. Len(w) : Reverse(w)[i] = w[(Len(w) - i) + 1]
  BY Reversed
<1>2. Len(w) \in 1 .. Len(w) /\ (Len(w) - Len(w)) + 1 = 1
  BY <1>1
<1>3. DOMAIN Reverse(w) = 1 .. Len(w)
  BY <1>1, LenProperties
<1>4. \A i \in 1 .. Len(w) : (Len(w) - i) + 1 \in 1 .. Len(w)
  BY <1>1
<1>5. ASSUME Once(w), NEW i \in 1 .. Len(w), NEW j \in 1 .. Len(w), Reverse(w)[i] = Reverse(w)[j]
      PROVE  i = j
  <2>1. (Len(w) - i) + 1 = (Len(w) - j) + 1
    BY <1>1, <1>4, <1>5 DEF Once
  <2>. QED
    BY <1>1, <2>1
<1>6. Once(w) => IsInjective(Reverse(w))
  BY <1>3, <1>5 DEF IsInjective
<1>7. Reverse(w) # <<>>
  BY <1>1, <1>3
<1>. QED
  BY <1>1, <1>2, <1>6, <1>7

(***************************************************************************)
(* An event that names the parts of two walks up to where they meet tells  *)
(* the consumer how to get from one chain to the other.                    *)
(***************************************************************************)
LEMMA SwitchTo ==
  ASSUME NEW S, NEW w \in Seq(S), NEW v \in Seq(S), Len(w) >= 1, Len(v) >= 1,
         NEW i \in 1 .. Len(w) + 1, NEW j \in 1 .. Len(v) + 1, Agree(w, i, v, j),
         Once(v), v[1] # w[1],
         CanonicalPath = Reverse(w), CanonicalPath' = Reverse(v),
         outcome'.kind \in {"extend", "reorg"},
         outcome'.removed = SubSeq(w, 1, i - 1),
         outcome'.added = Reverse(SubSeq(v, 1, j - 1)),
         outcome'.old = w[1], outcome'.new = v[1],
         outcome'.ancestor = IF i = Len(w) + 1 THEN Zero ELSE w[i]
  PROVE  Canonical!Next
<1> DEFINE k == (Len(w) + 1) - i
           c == Reverse(w)
           d == Reverse(v)
<1>1. /\ k \in 0 .. Len(c)
      /\ SubSeq(w, 1, i - 1) = Reverse(SubSeq(c, k + 1, Len(c)))
      /\ d = SubSeq(c, 1, k) \o Reverse(SubSeq(v, 1, j - 1))
  <2>1. Replaces(Reverse(w), Reverse(v), (Len(w) + 1) - i,
                 SubSeq(w, 1, i - 1), Reverse(SubSeq(v, 1, j - 1)))
    BY Switched
  <2>. QED
    BY <2>1 DEF Replaces
<1>2. /\ c # <<>> /\ c[Len(c)] = w[1]
      /\ d # <<>> /\ d[Len(d)] = v[1] /\ IsInjective(d)
  BY TipOfReversed
<1>3. d # c
  BY <1>2
<1>4. IF k = 0 THEN i = Len(w) + 1 ELSE i # Len(w) + 1 /\ c[k] = w[i]
  <2>1. /\ Len(w) \in Nat /\ \A x \in 1 .. Len(w) : c[x] = w[(Len(w) - x) + 1]
    BY Reversed
  <2> HIDE DEF c
  <2>2. CASE k = 0
    BY <2>1, <2>2
  <2>3. CASE k # 0
    <3>1. k \in 1 .. Len(w) /\ (Len(w) - k) + 1 = i /\ i # Len(w) + 1
      <4>1. Len(w) \in Nat /\ i \in Nat /\ i >= 1 /\ i <= Len(w) + 1 /\ k = (Len(w) + 1) - i
        BY <2>1
      <4> HIDE DEF k
      <4>. QED
        BY <2>3, <4>1
    <3>2. c[k] = w[(Len(w) - k) + 1]
      BY <2>1, <3>1
    <3>. QED
      BY <2>3, <3>1, <3>2
  <2>. QED
    BY <2>2, <2>3
<1>5. \A s : Canonical!Reverse(s) = Reverse(s)
  BY DEF Canonical!Reverse, Reverse
<1> HIDE DEF c, d, k
<1>6. /\ outcome'.removed = Canonical!Reverse(SubSeq(CanonicalPath, k + 1, Len(CanonicalPath)))
      /\ CanonicalPath' = SubSeq(CanonicalPath, 1, k) \o outcome'.added
      /\ CanonicalPath' # CanonicalPath
      /\ Canonical!IsInjective(CanonicalPath')
      /\ outcome'.old = Canonical!Tip(CanonicalPath)
      /\ outcome'.new = Canonical!Tip(CanonicalPath')
      /\ outcome'.ancestor = Canonical!ForkPoint(k)
      /\ k \in 0 .. Len(CanonicalPath)
  <2>1. CanonicalPath = c /\ CanonicalPath' = d
    BY DEF c, d
  <2>2. Canonical!IsInjective(d)
    BY <1>2 DEF IsInjective, Canonical!IsInjective
  <2>3. Canonical!Tip(c) = w[1] /\ Canonical!Tip(d) = v[1]
    BY <1>2 DEF Canonical!Tip, Canonical!Last
  <2>4. outcome'.ancestor = Canonical!ForkPoint(k)
    BY <1>2, <1>4, <2>1 DEF Canonical!ForkPoint
  <2>5. outcome'.removed = Canonical!Reverse(SubSeq(c, k + 1, Len(c)))
    BY <1>1, <1>5
  <2>. QED
    BY <1>1, <1>3, <2>1, <2>2, <2>3, <2>4, <2>5
<1>7. Canonical!Switch
  BY <1>6 DEF Canonical!Switch
<1>. QED
  BY <1>7 DEF Canonical!Next

-----------------------------------------------------------------------------
(* Transitions that add to the chain or hold it.                           *)

(* The current head is where its walk begins.                              *)
LEMMA CurrentWalk ==
  ASSUME TypeOK, Walks, currentHash # None, NEW w, w = Walk(currentHash)
  PROVE  /\ currentHash \in Tracked /\ w \in Seq(Tracked) /\ Len(w) \in Nat /\ Len(w) >= 1
         /\ w[1] = currentHash /\ CanonicalPath = Reverse(w)
         /\ \A i \in 1 .. Len(w) : w[i] \in Tracked
         /\ Canonical!Tip(CanonicalPath) = currentHash
<1>1. currentHash \in Tracked
  BY DEF TypeOK
<1>2. Chain(nodes, currentHash, w)
  BY <1>1 DEF Walks
<1>3. /\ w \in Seq(Tracked) /\ Len(w) \in Nat /\ Len(w) >= 1 /\ w[1] = currentHash
      /\ \A i \in 1 .. Len(w) : w[i] \in Tracked
  BY <1>2, LenProperties, ElementOfSeq DEF Chain, Tracked
<1>4. CanonicalPath = Reverse(w)
  BY DEF CanonicalPath
<1>5. Reverse(w) # <<>> /\ Reverse(w)[Len(Reverse(w))] = w[1]
  BY <1>3, TipOfReversed
<1>6. Canonical!Tip(CanonicalPath) = currentHash
  BY <1>3, <1>4, <1>5 DEF Canonical!Tip, Canonical!Last
<1>. QED
  BY <1>1, <1>3, <1>4, <1>6

(* Nothing stored, no new head: the chain is the same.                     *)
LEMMA SamePath ==
  ASSUME TypeOK, Walks, Walks', DOMAIN nodes' = Tracked, \A x \in Tracked : nodes'[x] = nodes[x],
         currentHash' = currentHash
  PROVE  CanonicalPath' = CanonicalPath
<1>1. CASE currentHash = None
  <2>1. currentHash \notin Tracked
    BY <1>1, TrackerAssumption DEF TypeOK
  <2>2. Walk(currentHash) = <<>>
    BY <2>1, WalkOfUntracked
  <2>3. Walk(currentHash)' = <<>>
    <3>1. currentHash' \notin Tracked'
      BY <2>1 DEF Tracked
    <3>. QED
      BY <3>1 DEF Walk
  <2>. QED
    BY <2>2, <2>3 DEF CanonicalPath
<1>2. CASE currentHash # None
  <2> DEFINE v == Walk(currentHash)'
  <2>1. Chain(nodes, currentHash, Walk(currentHash)) /\ Ended(nodes, Walk(currentHash))
    BY <1>2 DEF Walks, TypeOK
  <2>2. Chain(nodes', currentHash, v) /\ Ended(nodes', v)
    BY <1>2 DEF Walks, TypeOK, Tracked
  <2> HIDE DEF v
  <2>3. /\ v \in Seq(Tracked) /\ Len(v) \in Nat /\ Len(v) >= 1
        /\ \A x \in 1 .. Len(v) : v[x] \in Tracked
    BY <2>2, LenProperties, ElementOfSeq DEF Chain
  <2>4. Chain(nodes, currentHash, v) /\ Ended(nodes, v)
    <3>1. \A x \in 1 .. Len(v) - 1 : x \in 1 .. Len(v)
      BY <2>3
    <3>2. Len(v) \in 1 .. Len(v)
      BY <2>3
    <3>. QED
      BY <2>2, <2>3, <3>1, <3>2 DEF Chain, Ended, Tracked
  <2>5. v = Walk(currentHash)
    BY <2>1, <2>4, OneWayUp
  <2>. QED
    BY <2>5 DEF CanonicalPath, v
<1>. QED
  BY <1>1, <1>2

(* A known tip, an orphan or a refused head leaves the chain alone.        *)
LEMMA HoldsStill ==
  ASSUME TypeOK, Walks, Walks', NEW o \in Observations, Duplicate(o) \/ Orphan(o) \/ Reject(o)
  PROVE  Canonical!Next
<1>1. /\ DOMAIN nodes' = Tracked /\ \A x \in Tracked : nodes'[x] = nodes[x]
      /\ currentHash' = currentHash
  <2>1. CASE Duplicate(o)
    <3>1. currentHash \in Tracked
      BY <2>1, TrackerAssumption DEF Duplicate, TypeOK, Observations
    <3>2. nodes[o.head.hash] = o.head /\ Tracked \cup {o.head.hash} = Tracked
      BY <2>1, <3>1 DEF Duplicate, Admissible
    <3>3. nodes' = [h \in Tracked |-> IF h = o.head.hash THEN o.head ELSE nodes[h]]
      BY <2>1, <3>2 DEF Duplicate, Store
    <3>. QED
      BY <2>1, <3>2, <3>3 DEF Duplicate
  <2>. QED
    BY <2>1 DEF Orphan, Reject, Tracked
<1>2. CanonicalPath' = CanonicalPath
  BY <1>1, SamePath
<1>3. CASE Duplicate(o) \/ Orphan(o)
  <2>1. currentHash # None
    BY <1>3, TrackerAssumption DEF Duplicate, Orphan, Placeable, Observations
  <2>2. Canonical!Tip(CanonicalPath) = currentHash
    BY <2>1, CurrentWalk
  <2>3. /\ outcome'.kind \in {"duplicate", "orphan"}
        /\ outcome'.old = currentHash /\ outcome'.new = currentHash
    BY <1>3 DEF Duplicate, Orphan, Transition
  <2>. QED
    BY <1>2, <2>2, <2>3 DEF Canonical!Next, Canonical!Hold
<1>4. CASE Reject(o)
  <2>1. outcome'.kind = "rejected"
    BY <1>4 DEF Reject, Rejected
  <2>. QED
    BY <1>2, <2>1 DEF Canonical!Next, Canonical!Hold
<1>. QED
  BY <1>3, <1>4

(* The first head is the whole chain.                                      *)
LEMMA BootstrapSwitches ==
  ASSUME TypeOK, Walks', RootIsOnTop', NEW o \in Observations, Bootstrap(o)
  PROVE  Canonical!Next
<1> DEFINE c == o.head
<1>1. Tracked = {} /\ c.hash # None
  BY TrackerAssumption DEF Bootstrap, TypeOK, Observations
<1>2. DOMAIN nodes' = {c.hash} /\ nodes'[c.hash] = c /\ root' = c.hash /\ currentHash' = c.hash
  BY <1>1 DEF Bootstrap, Store
<1>3. c.parent # c.hash
  BY <1>1, <1>2 DEF RootIsOnTop, Tracked
<1>4. Walk(currentHash)' = <<c.hash>>
  <2>1. Chain(nodes', currentHash', Walk(currentHash)') /\ Ended(nodes', Walk(currentHash)')
    BY <1>2 DEF Walks, Tracked
  <2>2. Chain(nodes', c.hash, <<c.hash>>) /\ Ended(nodes', <<c.hash>>)
    BY <1>2, <1>3 DEF Chain, Ended
  <2>. QED
    BY <1>2, <2>1, <2>2, OneWayUp
<1>5. CanonicalPath' = <<c.hash>>
  <2>1. Reverse(<<c.hash>>) = <<c.hash>>
    BY DEF Reverse
  <2>. QED
    BY <1>4, <2>1 DEF CanonicalPath
<1>6. CanonicalPath = <<>>
  <2>1. Walk(currentHash) = <<>>
    BY <1>1, WalkOfUntracked
  <2>. QED
    BY <2>1 DEF CanonicalPath, Reverse
<1>7. /\ outcome'.kind = "bootstrap" /\ outcome'.removed = <<>> /\ outcome'.added = <<c.hash>>
      /\ outcome'.old = None /\ outcome'.new = c.hash /\ outcome'.ancestor = None
  BY DEF Bootstrap, Transition
<1> HIDE DEF c
<1>8. Canonical!Switch
  <2>1. 0 \in 0 .. Len(CanonicalPath) /\ SubSeq(CanonicalPath, 0 + 1, Len(CanonicalPath)) = <<>>
    BY <1>6
  <2>2. Canonical!Reverse(<<>>) = <<>>
    BY DEF Canonical!Reverse
  <2>3. CanonicalPath' = SubSeq(CanonicalPath, 1, 0) \o outcome'.added
    BY <1>5, <1>6, <1>7
  <2>4. CanonicalPath' # CanonicalPath /\ Canonical!IsInjective(CanonicalPath')
    BY <1>5, <1>6 DEF Canonical!IsInjective
  <2>5. /\ Canonical!Tip(CanonicalPath) = None /\ Canonical!Tip(CanonicalPath') = c.hash
        /\ Canonical!ForkPoint(0) = None
    BY <1>5, <1>6 DEF Canonical!Tip, Canonical!ForkPoint, Canonical!Last
  <2>. QED
    BY <1>7, <2>1, <2>2, <2>3, <2>4, <2>5 DEF Canonical!Switch
<1>. QED
  BY <1>7, <1>8 DEF Canonical!Next

(* A child of the current head lengthens the chain by itself.              *)
LEMMA ExtendSwitches ==
  ASSUME TreeInv, Walks, Walks', RootIsOnTop', NEW o \in Observations, Extend(o)
  PROVE  Canonical!Next
<1> DEFINE c == o.head
           w == Walk(currentHash)
           v == Walk(c.hash)'
<1>1. /\ TypeOK /\ Admissible(o) /\ Store(o.head) /\ currentHash # None /\ root' = root
      /\ o.head.parent = currentHash /\ currentHash' = c.hash /\ c.hash # currentHash
  BY DEF Extend, Placeable, TreeInv
<1>2. /\ currentHash \in Tracked /\ w \in Seq(Tracked) /\ Len(w) \in Nat /\ Len(w) >= 1
      /\ w[1] = currentHash /\ CanonicalPath = Reverse(w)
      /\ \A i \in 1 .. Len(w) : w[i] \in Tracked
  BY <1>1, CurrentWalk
<1>3. Chain(nodes', c.hash, v) /\ Once(v) /\ v = <<c.hash>> \o w
  <2>1. o.head.parent \in Tracked \/ o.head.parent \notin DOMAIN nodes'
    BY <1>1, <1>2
  <2>2. /\ Chain(nodes', c.hash, v) /\ Ended(nodes', v) /\ Once(v)
        /\ v = <<c.hash>> \o Walk(o.head.parent)
    BY <1>1, <2>1, StoredWalk
  <2>. QED
    BY <1>1, <2>2
<1>4. CanonicalPath' = Reverse(v)
  BY <1>1 DEF CanonicalPath
<1>5. DOMAIN nodes' = Tracked \cup {c.hash}
  BY <1>1, StoreExtends
<1> DEFINE S == DOMAIN nodes'
<1>6. w \in Seq(S) /\ v \in Seq(S)
  BY <1>2, <1>3, <1>5, SeqMonotonic DEF Chain
<1>7. /\ Len(v) = 1 + Len(w) /\ v[1] = c.hash
      /\ \A x \in 1 .. Len(w) : v[1 + x] = w[x]
  <2> DEFINE one == <<c.hash>>
  <2>1. one \in Seq(S) /\ Len(one) = 1 /\ one[1] = c.hash
    BY <1>5
  <2> HIDE DEF one, w, S
  <2>2. /\ Len(one \o w) = Len(one) + Len(w)
        /\ \A x \in 1 .. Len(one) + Len(w) :
              (one \o w)[x] = IF x <= Len(one) THEN one[x] ELSE w[x - Len(one)]
    BY <1>6, <2>1, ConcatProperties
  <2>3. /\ 1 \in 1 .. 1 + Len(w) /\ 1 <= 1
        /\ \A x \in 1 .. Len(w) : 1 + x \in 1 .. 1 + Len(w) /\ ~(1 + x <= 1) /\ (1 + x) - 1 = x
    BY <1>2
  <2>. QED
    BY <1>3, <2>1, <2>2, <2>3 DEF one
<1> HIDE DEF v, w, S
<1>8. 1 \in 1 .. Len(w) + 1 /\ 2 \in 1 .. Len(v) + 1 /\ Agree(w, 1, v, 2)
  <2>1. Len(w) - 1 = Len(v) - 2
    BY <1>2, <1>7
  <2>2. ASSUME NEW m \in 0 .. Len(w) - 1 PROVE w[1 + m] = v[2 + m]
    <3>1. 1 + m \in 1 .. Len(w) /\ 1 + (1 + m) = 2 + m
      BY <1>2
    <3>. QED
      BY <1>7, <3>1
  <2>. QED
    BY <1>2, <1>7, <2>1, <2>2 DEF Agree
<1>9. /\ outcome'.kind \in {"extend", "reorg"}
      /\ outcome'.removed = SubSeq(w, 1, 1 - 1)
      /\ outcome'.added = Reverse(SubSeq(v, 1, 2 - 1))
      /\ outcome'.old = w[1] /\ outcome'.new = v[1]
      /\ outcome'.ancestor = IF 1 = Len(w) + 1 THEN Zero ELSE w[1]
  <2>1. /\ outcome'.kind = "extend" /\ outcome'.removed = <<>> /\ outcome'.added = <<c.hash>>
        /\ outcome'.old = currentHash /\ outcome'.new = c.hash /\ outcome'.ancestor = currentHash
    BY DEF Extend, Transition
  <2>2. SubSeq(w, 1, 1 - 1) = <<>>
    BY <1>6, SubSeqEmpty
  <2>3. SubSeq(v, 1, 2 - 1) = <<c.hash>>
    <3>1. /\ SubSeq(v, 1, 1) \in Seq(S) /\ Len(SubSeq(v, 1, 1)) = (1 - 1) + 1
          /\ \A i \in 1 .. (1 - 1) + 1 : SubSeq(v, 1, 1)[i] = v[(1 + i) - 1]
      BY <1>2, <1>6, <1>7, Cut
    <3>2. Len(SubSeq(v, 1, 1)) = 1 /\ SubSeq(v, 1, 1)[1] = v[1]
      BY <3>1
    <3>3. <<c.hash>> \in Seq(S)
      BY <1>5 DEF S
    <3>4. \A i \in 1 .. 1 : i = 1
      OBVIOUS
    <3>5. SubSeq(v, 1, 1) = <<c.hash>>
      <4> DEFINE sub == SubSeq(v, 1, 1)
                 one == <<c.hash>>
      <4>1. Len(one) = 1 /\ one[1] = c.hash
        OBVIOUS
      <4>2. sub \in Seq(S) /\ one \in Seq(S) /\ Len(sub) = 1 /\ sub[1] = c.hash
        BY <1>7, <3>1, <3>2, <3>3
      <4> HIDE DEF sub, one
      <4>3. Len(sub) = Len(one) /\ \A i \in 1 .. Len(sub) : sub[i] = one[i]
        BY <4>1, <4>2, <3>4
      <4>4. sub = one
        BY <4>2, <4>3, SeqEqual
      <4>. QED
        BY <4>4 DEF sub, one
    <3>6. 2 - 1 = 1
      OBVIOUS
    <3>. QED
      BY <3>5, <3>6
  <2>4. Reverse(<<c.hash>>) = <<c.hash>>
    BY DEF Reverse
  <2>5. 1 # Len(w) + 1
    BY <1>2
  <2>6. outcome'.added = Reverse(SubSeq(v, 1, 2 - 1))
    BY <2>1, <2>3, <2>4, Zenon
  <2>7. outcome'.ancestor = IF 1 = Len(w) + 1 THEN Zero ELSE w[1]
    BY <1>2, <2>1, <2>5, Zenon
  <2>. QED
    BY <1>2, <1>7, <2>1, <2>2, <2>6, <2>7, Zenon
<1>10. Len(v) >= 1 /\ v[1] # w[1]
  BY <1>1, <1>2, <1>7
<1>. QED
  BY <1>2, <1>3, <1>4, <1>6, <1>8, <1>9, <1>10, SwitchTo

-----------------------------------------------------------------------------
(* Where two trails join, and the reorganisation read from them.           *)

(* The least of a set of positions.                                        *)
LEMMA LeastIs ==
  ASSUME NEW I, I \subseteq Nat, I # {}
  PROVE  Min(I) \in I /\ \A i \in I : Min(I) <= i
<1>1. \E m \in I : \A i \in I : m <= i
  BY LeastNatural
<1>. QED
  BY <1>1 DEF Min

(* A way up, and the zero hash above it when it ends at a genesis block.   *)
Topped(s, g) == IF g THEN Append(s, Zero) ELSE s

(* What u is, if it is s topped.                                           *)
IsTopped(S, s, g, u) ==
  /\ Len(u) \in Nat /\ Len(s) \in Nat /\ Len(u) = IF g THEN Len(s) + 1 ELSE Len(s)
  /\ \A x \in 1 .. Len(s) : u[x] = s[x] /\ u[x] \in S
  /\ g => u[Len(s) + 1] = Zero
  /\ \A k \in 1 .. Len(s) + 1 : SubSeq(u, 1, k - 1) = SubSeq(s, 1, k - 1)

(* The topped way up is that, and below the top it is the way up itself.   *)
LEMMA ToppedIs ==
  ASSUME NEW S, NEW s \in Seq(S), NEW g, NEW u, u = Topped(s, g)
  PROVE  IsTopped(S, s, g, u)
<1> DEFINE R == S \cup {Zero}
<1>1. s \in Seq(R) /\ Len(s) \in Nat /\ \A x \in 1 .. Len(s) : s[x] \in S
  BY SeqMonotonic, LenProperties, ElementOfSeq
<1>2. /\ u \in Seq(R) /\ Len(u) \in Nat /\ Len(u) = IF g THEN Len(s) + 1 ELSE Len(s)
      /\ \A x \in 1 .. Len(s) : u[x] = s[x]
      /\ g => u[Len(s) + 1] = Zero
  <2>1. CASE g
    <3> DEFINE a == Append(s, Zero)
    <3>1. Zero \in R
      OBVIOUS
    <3> HIDE DEF R
    <3>2. /\ a \in Seq(R) /\ Len(a) = Len(s) + 1 /\ a[Len(s) + 1] = Zero
          /\ \A x \in 1 .. Len(s) : a[x] = s[x]
      BY <1>1, <3>1, AppendProperties
    <3>3. u = a
      BY <2>1 DEF Topped
    <3> HIDE DEF a
    <3>4. Len(u) = Len(s) + 1 /\ Len(u) \in Nat
      BY <1>1, <3>2, <3>3
    <3>5. Len(u) = IF g THEN Len(s) + 1 ELSE Len(s)
      BY <2>1, <3>4, Zenon
    <3>. QED
      BY <3>2, <3>3, <3>4, <3>5
  <2>2. CASE ~g
    BY <1>1, <2>2 DEF Topped
  <2>. QED
    BY <2>1, <2>2
<1> HIDE DEF R
<1>3. ASSUME NEW k \in 1 .. Len(s) + 1 PROVE SubSeq(u, 1, k - 1) = SubSeq(s, 1, k - 1)
  <2> DEFINE b == k - 1
             a1 == SubSeq(u, 1, b)
             a2 == SubSeq(s, 1, b)
  <2>1. b \in Nat /\ 1 \in Nat /\ 1 >= 1 /\ b <= Len(s) /\ b <= Len(u) /\ 1 <= b + 1
    BY <1>1, <1>2
  <2>2. (b - 1) + 1 = b /\ \A x \in 1 .. b : (1 + x) - 1 = x /\ x \in 1 .. Len(s)
    BY <1>1, <2>1
  <2> HIDE DEF b
  <2>3. /\ a1 \in Seq(R) /\ Len(a1) = (b - 1) + 1
        /\ \A x \in 1 .. (b - 1) + 1 : a1[x] = u[(1 + x) - 1]
    BY <1>2, <2>1, Cut
  <2>4. /\ a2 \in Seq(R) /\ Len(a2) = (b - 1) + 1
        /\ \A x \in 1 .. (b - 1) + 1 : a2[x] = s[(1 + x) - 1]
    BY <1>1, <2>1, Cut
  <2> HIDE DEF a1, a2
  <2>5. Len(a1) = b /\ Len(a2) = b /\ \A x \in 1 .. b : a1[x] = a2[x]
    BY <1>2, <2>2, <2>3, <2>4
  <2>6. a1 = a2
    BY <2>3, <2>4, <2>5, SeqEqual
  <2>. QED
    BY <2>6 DEF a1, a2, b
<1>. QED
  BY <1>1, <1>2, <1>3 DEF IsTopped

(* i and j are where the topped ways up w and v first come together.       *)
Joined(w, v, g, seen, i, j) ==
  /\ \/ i \in 1 .. Len(w) /\ j \in 1 .. Len(v) /\ w[i] = v[j]
     \/ i = Len(w) + 1 /\ j = Len(v) + 1
  /\ {x \in 1 .. Len(Topped(v, g)) : Topped(v, g)[x] \in seen} # {}
  /\ Min({x \in 1 .. Len(Topped(v, g)) : Topped(v, g)[x] \in seen}) = j
  /\ {x \in 1 .. Len(Topped(w, g)) : Topped(w, g)[x] = Topped(v, g)[j]} # {}
  /\ Min({x \in 1 .. Len(Topped(w, g)) : Topped(w, g)[x] = Topped(v, g)[j]}) = i
  /\ Topped(v, g)[j] = IF i = Len(w) + 1 THEN Zero ELSE w[i]

(* Two topped ways up one of which meets the other join somewhere.         *)
LEMMA TheyJoin ==
  ASSUME NEW S, NEW w \in Seq(S), NEW v \in Seq(S), Zero \notin S, NEW g, Once(w), NEW seen,
         seen = {w[x] : x \in 1 .. Len(w)} \cup (IF g THEN {Zero} ELSE {}),
         \E x \in 1 .. Len(Topped(v, g)) : Topped(v, g)[x] \in seen
  PROVE  \E i \in 1 .. Len(w) + 1, j \in 1 .. Len(v) + 1 : Joined(w, v, g, seen, i, j)
<1> DEFINE old == Topped(w, g)
           new == Topped(v, g)
           I == {x \in 1 .. Len(new) : new[x] \in seen}
           j == Min(I)
           K == {x \in 1 .. Len(old) : old[x] = new[j]}
<1> HIDE DEF old, new
<1>1. /\ Len(old) \in Nat /\ Len(w) \in Nat /\ Len(old) = IF g THEN Len(w) + 1 ELSE Len(w)
      /\ \A x \in 1 .. Len(w) : old[x] = w[x] /\ old[x] \in S
      /\ g => old[Len(w) + 1] = Zero
  <2>1. IsTopped(S, w, g, old)
    BY ToppedIs DEF old
  <2>. QED
    BY <2>1 DEF IsTopped
<1>2. /\ Len(new) \in Nat /\ Len(v) \in Nat /\ Len(new) = IF g THEN Len(v) + 1 ELSE Len(v)
      /\ \A x \in 1 .. Len(v) : new[x] = v[x] /\ new[x] \in S
      /\ g => new[Len(v) + 1] = Zero
  <2>1. IsTopped(S, v, g, new)
    BY ToppedIs DEF new
  <2>. QED
    BY <2>1 DEF IsTopped
<1>3. I \subseteq Nat /\ I # {}
  <2>1. \E x \in 1 .. Len(new) : new[x] \in seen
    BY DEF new
  <2>2. I # {}
    BY <2>1
  <2>3. I \subseteq Nat
    OBVIOUS
  <2>. QED
    BY <2>2, <2>3
<1> HIDE DEF I
<1>4. j \in I
  <2>1. Min(I) \in I
    BY <1>3, LeastIs
  <2>. QED
    BY <2>1
<1> HIDE DEF j
<1>5. j \in 1 .. Len(new) /\ new[j] \in seen
  BY <1>4 DEF I
<1>6. K \subseteq Nat
  BY <1>1
<1>7. CASE j \in 1 .. Len(v)
  <2>1. new[j] = v[j] /\ v[j] \in S
    BY <1>2, <1>7
  <2>2. PICK i \in 1 .. Len(w) : w[i] = v[j]
    BY <1>5, <2>1
  <2>3. ASSUME NEW x \in 1 .. Len(old) PROVE old[x] = new[j] <=> x = i
    <3>1. CASE x \in 1 .. Len(w)
      BY <1>1, <2>1, <2>2, <3>1 DEF Once
    <3>2. CASE x \notin 1 .. Len(w)
      <4>1. g /\ x = Len(w) + 1 /\ x # i
        BY <1>1, <3>2
      <4>. QED
        BY <1>1, <2>1, <4>1
    <3>. QED
      BY <3>1, <3>2
  <2>4. i \in 1 .. Len(old)
    BY <1>1
  <2>5. K = {i}
    BY <2>3, <2>4
  <2>6. Min(K) = i /\ K # {}
    <3>1. K # {}
      BY <2>5
    <3> HIDE DEF K
    <3>2. Min(K) \in K
      BY <1>6, <3>1, LeastIs
    <3>. QED
      BY <2>5, <3>1, <3>2
  <2>7. i # Len(w) + 1 /\ i \in 1 .. Len(w) + 1 /\ j \in 1 .. Len(v) + 1
    BY <1>1, <1>2, <1>7
  <2>8. Joined(w, v, g, seen, i, j)
    BY <1>3, <1>7, <2>1, <2>2, <2>6, <2>7, Zenon DEF Joined, I, K, old, new, j
  <2>. QED
    BY <2>7, <2>8
<1>8. CASE j \notin 1 .. Len(v)
  <2> DEFINE i == Len(w) + 1
  <2>1. g /\ j = Len(v) + 1 /\ new[j] = Zero
    BY <1>2, <1>5, <1>8
  <2>2. ASSUME NEW x \in 1 .. Len(old) PROVE old[x] = new[j] <=> x = i
    <3>1. CASE x \in 1 .. Len(w)
      BY <1>1, <2>1, <3>1
    <3>2. CASE x \notin 1 .. Len(w)
      BY <1>1, <2>1, <3>2
    <3>. QED
      BY <3>1, <3>2
  <2>3. i \in 1 .. Len(old)
    BY <1>1, <2>1
  <2>4. K = {i}
    BY <2>2, <2>3
  <2>5. Min(K) = i /\ K # {}
    <3>1. K # {}
      BY <2>4
    <3> HIDE DEF K
    <3>2. Min(K) \in K
      BY <1>6, <3>1, LeastIs
    <3>. QED
      BY <2>4, <3>1, <3>2
  <2>6. i \in 1 .. Len(w) + 1 /\ j \in 1 .. Len(v) + 1
    BY <1>1, <1>2, <2>1
  <2>7. Joined(w, v, g, seen, i, j)
    BY <1>3, <2>1, <2>5, Zenon DEF Joined, I, K, old, new, j
  <2>. QED
    BY <2>6, <2>7
<1>. QED
  BY <1>7, <1>8

(* A hash put below a topped way up is one put below the way up.           *)
HashBelow(x, p, g) == <<x>> \o Topped(p, g) = Topped(<<x>> \o p, g)

(* It always is.                                                           *)
LEMMA ToppedBelow ==
  ASSUME NEW S, NEW x \in S, NEW p \in Seq(S), NEW g
  PROVE  HashBelow(x, p, g)
<1> DEFINE R == S \cup {Zero}
           one == <<x>>
           z == <<Zero>>
<1>1. one \in Seq(R) /\ z \in Seq(R) /\ Zero \in R
  OBVIOUS
<1>2. p \in Seq(R)
  BY SeqMonotonic
<1> HIDE DEF R, one, z
<1>3. one \o p \in Seq(R)
  BY <1>1, <1>2, ConcatProperties
<1>4. (one \o p) \o z = one \o (p \o z)
  BY <1>1, <1>2, ConcatAssociative
<1>5. Append(p, Zero) = p \o z /\ Append(one \o p, Zero) = (one \o p) \o z
  BY <1>1, <1>2, <1>3, AppendIsConcat DEF z
<1>6. one \o Topped(p, g) = Topped(one \o p, g)
  BY <1>4, <1>5, Zenon DEF Topped
<1>. QED
  BY <1>6 DEF one, HashBelow

(***************************************************************************)
(* The trail of a tracked head is its walk, topped where the tree starts   *)
(* at genesis.                                                             *)
(***************************************************************************)
LEMMA TrailIsTopped ==
  ASSUME TreeInv, NEW h \in Tracked
  PROVE  /\ Trail(h) = Topped(Walk(h), nodes[root].parent = Zero)
         /\ Positions(h) = {Walk(h)[x] : x \in 1 .. Len(Walk(h))}
                             \cup (IF nodes[root].parent = Zero THEN {Zero} ELSE {})
<1>1. TypeOK /\ Rooted /\ IsFiniteSet(Tracked)
  BY DEF TreeInv, Bounded
<1>2. Zero \notin Tracked /\ h # Zero
  BY <1>1, TrackerAssumption DEF TypeOK
<1>3. \A i \in 1 .. Len(Walk(h)) : Walk(h)[i] \in Tracked
  BY <1>1, WalkIsChain, LenProperties, ElementOfSeq DEF Chain, Tracked
<1>4. Positions(h) = {Walk(h)[i] : i \in 1 .. Len(Walk(h))}
                             \cup (IF ReachesGenesis(h) THEN {Zero} ELSE {})
  BY <1>1, <1>2, PositionsOfTracked
<1>5. nodes[root].parent = Zero <=> Zero \in Positions(h)
  BY TopIsSeen
<1>6. ReachesGenesis(h) <=> nodes[root].parent = Zero
  BY <1>2, <1>3, <1>4, <1>5
<1>. QED
  BY <1>4, <1>6, Zenon DEF Trail, Topped

(* The trail of c is v, topped, and meets that of the current head.        *)
TrailsTouch(c, v, g) ==
  /\ <<c.hash>> \o Trail(c.parent) = Topped(v, g)
  /\ \E x \in 1 .. Len(Topped(v, g)) : Topped(v, g)[x] \in Positions(currentHash)

(***************************************************************************)
(* The trails that a connected candidate's fork is read from, and where    *)
(* they meet.                                                              *)
(***************************************************************************)
LEMMA TrailsMeet ==
  ASSUME TreeInv, Walks, NEW c \in Claims, currentHash # None,
         c.hash \in Tracked => nodes[c.hash] = c, Meets(c),
         NEW p, p = Walk(c.parent), NEW g, g = (nodes[root].parent = Zero),
         NEW v, v = <<c.hash>> \o p
  PROVE  TrailsTouch(c, v, g)
<1> DEFINE S == Tracked \cup {c.hash}
           one == <<c.hash>>
           new == Topped(v, g)
<1>1. TypeOK /\ Rooted /\ IsFiniteSet(Tracked)
  BY DEF TreeInv, Bounded
<1>2. /\ Zero \notin Tracked /\ currentHash \in Tracked /\ root \in Tracked /\ c.hash # Zero
  BY <1>1, TrackerAssumption DEF TypeOK
<1>3. \/ c.parent \in Tracked
      \/ c.parent = Zero /\ nodes[root].parent = Zero
      \/ c.hash = root
  BY MeetsIffConnected
<1>4. /\ p \in Seq(Tracked) /\ Trail(c.parent) = Topped(p, g)
      /\ Positions(c.parent) = {p[x] : x \in 1 .. Len(p)} \cup (IF g THEN {Zero} ELSE {})
  <2>1. CASE c.parent \in Tracked
    <3>1. Chain(nodes, c.parent, p)
      BY <2>1 DEF Walks
    <3>2. p \in Seq(Tracked)
      BY <3>1 DEF Chain, Tracked
    <3>3. /\ Trail(c.parent) = Topped(Walk(c.parent), nodes[root].parent = Zero)
          /\ Positions(c.parent) = {Walk(c.parent)[x] : x \in 1 .. Len(Walk(c.parent))}
                             \cup (IF nodes[root].parent = Zero THEN {Zero} ELSE {})
      BY <2>1, TrailIsTopped
    <3>. QED
      BY <3>2, <3>3, Zenon
  <2>2. CASE c.parent \notin Tracked
    <3>1. p = <<>>
      BY <2>2, WalkOfUntracked
    <3>2. g <=> c.parent = Zero
      BY <1>2, <1>3, <2>2
    <3>3. ReachesGenesis(c.parent) <=> g
      BY <3>1, <3>2 DEF ReachesGenesis
    <3>4. Trail(c.parent) = Topped(p, g)
      BY <3>3, Zenon DEF Trail, Topped
    <3>5. 1 .. Len(p) = {} /\ DOMAIN p = {} /\ p \in Seq(Tracked)
      BY <3>1
    <3>6. Positions(c.parent) = {p[x] : x \in 1 .. Len(p)} \cup (IF g THEN {Zero} ELSE {})
      <4>1. Positions(c.parent) = {p[x] : x \in DOMAIN p}
                                     \cup (IF ReachesGenesis(c.parent) THEN {Zero} ELSE {})
        BY DEF Positions
      <4>2. {p[x] : x \in DOMAIN p} = {} /\ {p[x] : x \in 1 .. Len(p)} = {}
        BY <3>5
      <4>. QED
        BY <3>3, <4>1, <4>2
    <3>. QED
      BY <3>4, <3>5, <3>6
  <2>. QED
    BY <2>1, <2>2
<1>5. one \o Trail(c.parent) = new
  <2> DEFINE x == c.hash
  <2>1. x \in S /\ p \in Seq(S)
    BY <1>4, SeqMonotonic
  <2> HIDE DEF x, S
  <2>2. HashBelow(x, p, g)
    BY <2>1, ToppedBelow
  <2>3. one = <<x>> /\ v = <<x>> \o p /\ new = Topped(v, g) /\ Trail(c.parent) = Topped(p, g)
    BY <1>4 DEF x
  <2>4. <<x>> \o Topped(p, g) = Topped(<<x>> \o p, g)
    BY <2>2 DEF HashBelow
  <2> HIDE DEF one, new
  <2>. QED
    BY <2>3, <2>4, Zenon
<1>6. /\ v \in Seq(S) /\ Len(p) \in Nat /\ Len(v) = 1 + Len(p) /\ v[1] = c.hash
      /\ \A x \in 1 .. Len(p) : v[1 + x] = p[x]
  <2>1. one \in Seq(S) /\ Len(one) = 1 /\ one[1] = c.hash
    OBVIOUS
  <2>2. p \in Seq(S) /\ Len(p) \in Nat
    BY <1>4, SeqMonotonic, LenProperties
  <2>3. v = one \o p
    OBVIOUS
  <2> HIDE DEF one, S
  <2>4. /\ one \o p \in Seq(S) /\ Len(one \o p) = Len(one) + Len(p)
        /\ \A x \in 1 .. Len(one) + Len(p) :
              (one \o p)[x] = IF x <= Len(one) THEN one[x] ELSE p[x - Len(one)]
    BY <2>1, <2>2, ConcatProperties
  <2>5. /\ 1 \in 1 .. 1 + Len(p) /\ 1 <= 1
        /\ \A x \in 1 .. Len(p) : 1 + x \in 1 .. 1 + Len(p) /\ ~(1 + x <= 1) /\ (1 + x) - 1 = x
    BY <2>2
  <2>. QED
    BY <2>1, <2>2, <2>3, <2>4, <2>5
<1>7. IsTopped(S, v, g, new)
  BY <1>6, ToppedIs
<1> HIDE DEF new, one, S
<1>8. /\ Len(new) \in Nat /\ Len(v) \in Nat /\ Len(new) = IF g THEN Len(v) + 1 ELSE Len(v)
      /\ \A x \in 1 .. Len(v) : new[x] = v[x]
      /\ g => new[Len(v) + 1] = Zero
  BY <1>7 DEF IsTopped
<1>9. \E x \in 1 .. Len(new) : new[x] \in Positions(currentHash)
  <2>1. PICK y \in {c.hash} \cup Positions(c.parent) : y \in Positions(currentHash)
    BY DEF Meets
  <2>2. CASE y = c.hash
    <3>1. 1 \in 1 .. Len(new) /\ 1 \in 1 .. Len(v)
      BY <1>6, <1>8
    <3>. QED
      BY <1>6, <1>8, <2>1, <2>2, <3>1
  <2>3. ASSUME NEW x \in 1 .. Len(p), y = p[x] PROVE \E z \in 1 .. Len(new) : new[z] = y
    <3>1. 1 + x \in 1 .. Len(new) /\ 1 + x \in 1 .. Len(v)
      BY <1>6, <1>8
    <3>. QED
      BY <1>6, <1>8, <2>3, <3>1
  <2>4. ASSUME g, y = Zero PROVE \E z \in 1 .. Len(new) : new[z] = y
    <3>1. Len(v) + 1 \in 1 .. Len(new)
      BY <1>8, <2>4
    <3>. QED
      BY <1>8, <2>4, <3>1
  <2>5. y = c.hash \/ (\E x \in 1 .. Len(p) : y = p[x]) \/ (g /\ y = Zero)
    BY <1>4, <2>1
  <2>. QED
    BY <2>1, <2>2, <2>3, <2>4, <2>5
<1>. QED
  BY <1>5, <1>9 DEF new, one, TrailsTouch

(* A fork that gives up w below its i-th hash and takes v below its j-th.  *)
ForksAt(f, w, v, i, j) ==
  /\ f.ancestor = IF i = Len(w) + 1 THEN Zero ELSE w[i]
  /\ f.removed = SubSeq(w, 1, i - 1)
  /\ f.added = Reverse(SubSeq(v, 1, j - 1))

(* What the fork of a candidate reports, by where the two trails join.     *)
LEMMA ForkIs ==
  ASSUME NEW c, NEW S, NEW w \in Seq(S), NEW v \in Seq(S), NEW g,
         Trail(currentHash) = Topped(w, g), <<c.hash>> \o Trail(c.parent) = Topped(v, g),
         NEW i \in 1 .. Len(w) + 1, NEW j \in 1 .. Len(v) + 1,
         Joined(w, v, g, Positions(currentHash), i, j)
  PROVE  ForksAt(Fork(c), w, v, i, j)
<1> DEFINE old == Trail(currentHash)
           new == <<c.hash>> \o Trail(c.parent)
           seen == Positions(currentHash)
           anc == new[ForkAt(c)]
           k == SelectInSeq(old, LAMBDA h : h = anc)
<1>1. ForkAt(c) = IF {x \in 1 .. Len(new) : new[x] \in seen} # {}
                  THEN Min({x \in 1 .. Len(new) : new[x] \in seen}) ELSE 0
  BY DEF ForkAt, SelectInSeq
<1>2. k = IF {x \in 1 .. Len(old) : old[x] = anc} # {}
          THEN Min({x \in 1 .. Len(old) : old[x] = anc}) ELSE 0
  BY DEF SelectInSeq
<1>3. /\ Fork(c).ancestor = anc
      /\ Fork(c).removed = SubSeq(old, 1, k - 1)
      /\ Fork(c).added = Reverse(SubSeq(new, 1, ForkAt(c) - 1))
  BY DEF Fork
<1>4. old = Topped(w, g) /\ new = Topped(v, g)
  OBVIOUS
<1> HIDE DEF k, old, new
<1>5. ForkAt(c) = j
  BY <1>1, <1>4, Zenon DEF Joined
<1>6. anc = IF i = Len(w) + 1 THEN Zero ELSE w[i]
  BY <1>4, <1>5, Zenon DEF Joined
<1>7. k = i
  BY <1>2, <1>4, <1>5, Zenon DEF Joined
<1>8. SubSeq(old, 1, i - 1) = SubSeq(w, 1, i - 1)
  <2>1. IsTopped(S, w, g, old)
    BY <1>4, ToppedIs
  <2>. QED
    BY <2>1 DEF IsTopped
<1>9. SubSeq(new, 1, j - 1) = SubSeq(v, 1, j - 1)
  <2>1. IsTopped(S, v, g, new)
    BY <1>4, ToppedIs
  <2>. QED
    BY <2>1 DEF IsTopped
<1>. QED
  BY <1>3, <1>5, <1>6, <1>7, <1>8, <1>9, Zenon DEF ForksAt

(* A head of another branch replaces what lies above the fork.             *)
LEMMA ReorgSwitches ==
  ASSUME TreeInv, Walks, Walks', RootIsOnTop', NEW o \in Observations, Reorg(o)
  PROVE  Canonical!Next
<1> DEFINE c == o.head
           w == Walk(currentHash)
           p == Walk(c.parent)
           v == Walk(c.hash)'
           g == nodes[root].parent = Zero
           S == DOMAIN nodes'
           seen == Positions(currentHash)
<1>1. /\ TypeOK /\ Admissible(o) /\ Store(o.head) /\ currentHash # None /\ root' = root
      /\ currentHash' = c.hash /\ c.hash # currentHash /\ c \in Claims
      /\ c.hash \in Tracked => nodes[c.hash] = c
      /\ Meets(c)
  BY DEF Reorg, Placeable, TreeInv, Admissible, Observations
<1>2. /\ currentHash \in Tracked /\ w \in Seq(Tracked) /\ Len(w) \in Nat /\ Len(w) >= 1
      /\ w[1] = currentHash /\ CanonicalPath = Reverse(w)
      /\ \A i \in 1 .. Len(w) : w[i] \in Tracked
  BY <1>1, CurrentWalk
<1>3. DOMAIN nodes' = Tracked \cup {c.hash} /\ nodes'[c.hash] = c
  BY <1>1, StoreExtends
<1>4. Zero \notin Tracked /\ root \in Tracked /\ c.hash # Zero /\ root # None
  BY <1>1, TrackerAssumption DEF TypeOK
<1>5. c.parent \in Tracked \/ c.parent \notin DOMAIN nodes'
  <2>1. c.parent \in Tracked \/ c.parent = Zero \/ c.hash = root
    BY <1>1, MeetsIffConnected
  <2>2. c.hash = root => c.parent \notin DOMAIN nodes'
    BY <1>1, <1>3, <1>4 DEF RootIsOnTop, Tracked
  <2>. QED
    BY <1>3, <1>4, <2>1, <2>2
<1>6. /\ Chain(nodes', c.hash, v) /\ Ended(nodes', v) /\ Once(v)
      /\ v = <<c.hash>> \o p
  BY <1>1, <1>5, StoredWalk
<1>7. CanonicalPath' = Reverse(v)
  BY <1>1 DEF CanonicalPath
<1>8. /\ v \in Seq(S) /\ Len(v) \in Nat /\ Len(v) >= 1 /\ v[1] = c.hash
  BY <1>6, LenProperties DEF Chain
<1>9. w \in Seq(S) /\ Zero \notin S
  BY <1>2, <1>3, <1>4, SeqMonotonic
<1>10. Chain(nodes', currentHash, w) /\ Ended(nodes', w)
  BY <1>1, <1>2, StoredKeepsWalks
<1>11. Once(w)
  BY <1>2 DEF Walks
<1>12. /\ Trail(currentHash) = Topped(w, g)
       /\ seen = {w[x] : x \in 1 .. Len(w)} \cup (IF g THEN {Zero} ELSE {})
  BY <1>2, TrailIsTopped
<1>13. /\ <<c.hash>> \o Trail(c.parent) = Topped(v, g)
       /\ \E x \in 1 .. Len(Topped(v, g)) : Topped(v, g)[x] \in seen
  <2>1. p = Walk(c.parent) /\ g = (nodes[root].parent = Zero)
    OBVIOUS
  <2>2. v = <<c.hash>> \o p
    BY <1>6
  <2>3. c \in Claims /\ currentHash # None /\ Meets(c)
    BY <1>1
  <2>4. c.hash \in Tracked => nodes[c.hash] = c
    BY <1>1
  <2> HIDE DEF p, g, v, c, seen
  <2>5. TrailsTouch(c, v, g)
    BY <2>1, <2>2, <2>3, <2>4, TrailsMeet
  <2>. QED
    BY <2>5 DEF TrailsTouch, seen
<1> HIDE DEF w, v, g, S, p, c, seen
<1>14. PICK i \in 1 .. Len(w) + 1, j \in 1 .. Len(v) + 1 : Joined(w, v, g, seen, i, j)
  BY <1>8, <1>9, <1>11, <1>12, <1>13, TheyJoin
<1>15. Agree(w, i, v, j)
  <2>1. CASE i \in 1 .. Len(w) /\ j \in 1 .. Len(v) /\ w[i] = v[j]
    BY <1>6, <1>10, <2>1, ChainsMerge
  <2>2. CASE i = Len(w) + 1 /\ j = Len(v) + 1
    <3>1. Len(w) - i = Len(v) - j /\ 0 .. Len(w) - i = {}
      BY <1>2, <1>8, <2>2
    <3>. QED
      BY <3>1 DEF Agree
  <2>. QED
    BY <1>14, <2>1, <2>2 DEF Joined
<1>16. ForksAt(Fork(c), w, v, i, j)
  BY <1>8, <1>9, <1>12, <1>13, <1>14, ForkIs DEF seen
<1>17. /\ outcome'.kind \in {"extend", "reorg"}
       /\ outcome'.removed = Fork(c).removed /\ outcome'.added = Fork(c).added
       /\ outcome'.old = currentHash /\ outcome'.new = c.hash
       /\ outcome'.ancestor = Fork(c).ancestor
  BY DEF Reorg, ReorgTransition, Transition, c
<1>18. /\ outcome'.removed = SubSeq(w, 1, i - 1)
       /\ outcome'.added = Reverse(SubSeq(v, 1, j - 1))
       /\ outcome'.old = w[1] /\ outcome'.new = v[1]
       /\ outcome'.ancestor = IF i = Len(w) + 1 THEN Zero ELSE w[i]
  BY <1>2, <1>8, <1>16, <1>17, Zenon DEF ForksAt
<1>19. v[1] # w[1]
  BY <1>1, <1>2, <1>8
<1>. QED
  BY <1>2, <1>6, <1>7, <1>8, <1>9, <1>15, <1>17, <1>18, <1>19, SwitchTo

-----------------------------------------------------------------------------
(* The tracker implements the canonical chain.                             *)

(***************************************************************************)
(* Where no tracked parent has the wrong height, the root's is not         *)
(* tracked: on the way up from the root every head would be lower than the *)
(* one before, and the way would have to come back to itself.              *)
(***************************************************************************)
LEMMA ConsistentTreeIsOnTop == TreeInv /\ KnownParentsConsistent => RootIsOnTop
<1>1. SUFFICES ASSUME TreeInv, KnownParentsConsistent, root # None,
                      nodes[root].parent \in Tracked
               PROVE  FALSE
  BY DEF RootIsOnTop
<1>2. TypeOK /\ Rooted /\ IsFiniteSet(Tracked)
  BY <1>1 DEF TreeInv, Bounded
<1>3. root \in Tracked /\ Zero \notin Tracked
  BY <1>1, <1>2, TrackerAssumption DEF TypeOK
<1> DEFINE w == Walk(root)
<1>4. /\ Chain(nodes, root, w)
      /\ nodes[Last(w)].parent \in Tracked => \E i \in 1 .. Len(w) : w[i] = nodes[Last(w)].parent
  BY <1>2, <1>3, WalkIsChain
<1>5. Len(w) \in 1 .. Len(w) /\ \A i \in 1 .. Len(w) : w[i] \in Tracked
  BY <1>4, LenProperties, ElementOfSeq DEF Chain, Tracked
<1> HIDE DEF w
<1>6. \A h \in Tracked : /\ nodes[h].parent \in Tracked
                         /\ nodes[h].number = nodes[nodes[h].parent].number + 1
  BY <1>1, <1>2, <1>3 DEF Rooted, KnownParentsConsistent
<1>7. \A i \in 1 .. Len(w) : /\ nodes[w[i]].parent \in Tracked
                             /\ nodes[w[i]].number = nodes[nodes[w[i]].parent].number + 1
  BY <1>5, <1>6
<1>8. nodes[Last(w)].parent \in Tracked
  BY <1>5, <1>6 DEF Last
<1>. QED
  BY <1>2, <1>4, <1>7, <1>8, NumbersFall

(* Every step of the tracker is a step of the canonical chain, or none.    *)
LEMMA StepFollowsChain ==
  ASSUME TreeInv, Walks, Walks', RootIsOnTop', [Next]_vars
  PROVE  [Canonical!Next]_<<CanonicalPath, outcome>>
<1>1. TypeOK
  BY DEF TreeInv
<1>2. ASSUME NEW o \in Observations, Duplicate(o) \/ Orphan(o) \/ Reject(o)
      PROVE  Canonical!Next
  BY <1>1, <1>2, HoldsStill
<1>3. ASSUME NEW o \in Observations, Bootstrap(o) PROVE Canonical!Next
  BY <1>1, <1>3, BootstrapSwitches
<1>4. ASSUME NEW o \in Observations, Extend(o) PROVE Canonical!Next
  BY <1>4, ExtendSwitches
<1>5. ASSUME NEW o \in Observations, Reorg(o) PROVE Canonical!Next
  BY <1>5, ReorgSwitches
<1>6. ASSUME UNCHANGED vars PROVE UNCHANGED <<CanonicalPath, outcome>>
  <2>1. nodes' = nodes /\ currentHash' = currentHash /\ outcome' = outcome
    BY <1>6 DEF vars
  <2>2. CanonicalPath' = CanonicalPath
    BY <1>1, <2>1, SamePath DEF Tracked
  <2>. QED
    BY <2>1, <2>2
<1>. QED
  BY <1>2, <1>3, <1>4, <1>5, <1>6 DEF Next

(* The chain starts empty.                                                 *)
LEMMA StartsEmpty == Init => Canonical!Init
<1>1. SUFFICES ASSUME Init PROVE Canonical!Init
  OBVIOUS
<1>2. currentHash \notin Tracked /\ outcome = [kind |-> "none"]
  BY <1>1 DEF Init, Tracked
<1>3. Walk(currentHash) = <<>>
  BY <1>2, WalkOfUntracked
<1>4. CanonicalPath = <<>>
  BY <1>3 DEF CanonicalPath, Reverse
<1>. QED
  BY <1>2, <1>4 DEF Canonical!Init

(***************************************************************************)
(* The transitions tell a consumer how the canonical chain moves: who      *)
(* keeps a chain and applies to it the removed and added hashes of each    *)
(* transition always holds the path from the root to the current head, and *)
(* every duplicate, orphan and refusal leaves it where it is.  The         *)
(* hypothesis is that no tracked parent has the wrong height.  A source    *)
(* that reports the root's parent as the root's descendant breaks it, and  *)
(* the tracker accepts that; then the path from the root is not what the   *)
(* transitions say.                                                        *)
(***************************************************************************)
THEOREM TransitionsFollowTheChain == Spec /\ []KnownParentsConsistent => ImplementsCanonicalChain
<1>1. TreeInv /\ KnownParentsConsistent => RootIsOnTop
  BY ConsistentTreeIsOnTop
<1>2. TreeInv /\ RootIsOnTop => Walks
  BY WalksAre
<1>3. TreeInv /\ Walks /\ Walks' /\ RootIsOnTop' /\ [Next]_vars
        => [Canonical!Next]_<<CanonicalPath, outcome>>
  BY StepFollowsChain
<1>. QED
  BY <1>1, <1>2, <1>3, StartsEmpty, TreeInvHolds, PTL
     DEF Spec, ImplementsCanonicalChain, Canonical!Spec

(***************************************************************************)
(* A source that reports every block one above the block it names as       *)
(* parent.                                                                 *)
(***************************************************************************)
ConsistentSource == \A c, d \in Claims : c.parent = d.hash => c.number = d.number + 1

(***************************************************************************)
(* Such a source never breaks the hypothesis, whatever it reports in       *)
(* whatever order: the tracker implements the canonical chain for every    *)
(* set of its claims.                                                      *)
(***************************************************************************)
THEOREM ConsistentSourceIsFollowed == ConsistentSource /\ Spec => ImplementsCanonicalChain
<1>. SUFFICES ASSUME ConsistentSource PROVE Spec => ImplementsCanonicalChain
  OBVIOUS
<1>1. TypeOK => KnownParentsConsistent
  BY DEF ConsistentSource, TypeOK, KnownParentsConsistent
<1>2. TreeInv => TypeOK
  BY DEF TreeInv
<1>. QED
  BY <1>1, <1>2, TreeInvHolds, TransitionsFollowTheChain, PTL
=============================================================================
