----------------------- MODULE ObservationLedgerProofs ----------------------
(***************************************************************************)
(* Proofs about ObservationLedger, for all sources, events, observations,  *)
(* identifiers, builders and bounds.                                       *)
(*                                                                         *)
(* The first half is about one chain that passes replay: whatever a record *)
(* of it says of its source is shown by induction over the segments and,   *)
(* in each, over its records (Speaks).  The second half is about builders: *)
(* LedgerInv says that the checkpoints a builder keeps up to date are what *)
(* its records end with, and that what is sealed is attached to its        *)
(* predecessor.  Files may be rewritten, so nothing but their type is      *)
(* known of them; sealed remembers what the builders made.                 *)
(***************************************************************************)
EXTENDS ObservationLedger, FiniteSetTheorems, SequenceTheorems, WellFoundedInduction, TLAPS

\* What is offered has a sequence and a time.
LEMMA ObservationTyped ==
  ASSUME NEW o \in Observations
  PROVE  o.sequence \in Nat /\ o.time \in Nat /\ o.source \in Sources
<1>1. o \in [source : Sources, sequence : Nat, time : Times, event : Events]
    BY LedgerAssumption
<1> QED BY <1>1, LedgerAssumption

\* Induction over an initial segment: the library's well-founded order on Nat gives the
\* least counterexample a predecessor that is none.
LEMMA InductionUpto ==
  ASSUME NEW m \in Nat, NEW n \in Nat, NEW S, m \in S,
         \A k \in m..n : k + 1 <= n /\ k \in S => k + 1 \in S
  PROVE  m..n \subseteq S
<1> SUFFICES ASSUME NEW c \in m..n, c \notin S PROVE FALSE
    OBVIOUS
<1> DEFINE T == {k \in m..n : k \notin S}
<1>1. T \subseteq Nat /\ T # {} /\ T \subseteq m..n /\ c \in T /\ m \notin T
    OBVIOUS
<1>2. \A k \in m..n : k \in S <=> k \notin T
    OBVIOUS
<1> HIDE DEF T
<1>3. PICK least \in T : \A k \in T : ~(<<k, least>> \in OpToRel(<, Nat))
    BY <1>1, NatLessThanWellFounded, WFMin
<1>4. least \in Nat /\ least # m /\ least \in m..n
    BY <1>1, <1>3
<1>5. least - 1 \in m..n /\ (least - 1) + 1 = least /\ least - 1 \in Nat
    BY <1>4
<1>6. least - 1 \notin T
  <2>1. <<least - 1, least>> \in OpToRel(<, Nat)
      BY <1>4, <1>5 DEF OpToRel
  <2> QED BY <1>3, <2>1
<1>7. least \in S
    BY <1>2, <1>4, <1>5, <1>6
<1> QED BY <1>2, <1>3, <1>4, <1>7

-----------------------------------------------------------------------------
(* Points of a source within a segment *)

Recorded(records) == records \in Seq(Observations)

\* Before the first record a source is where the segment starts.
LEMMA PointAtStart ==
  ASSUME NEW starting, NEW records, NEW s
  PROVE  PointBefore(starting, records, 0, s) = PointOf(starting, s)
<1>1. LastOf(records, 0, s) = {}
    BY DEF LastOf
<1> QED BY <1>1 DEF PointBefore

\* A record moves the point of its own source and no other.
LEMMA PointMoves ==
  ASSUME NEW starting, NEW records, Recorded(records), NEW j \in 1..Len(records), NEW s
  PROVE  PointBefore(starting, records, j, s) =
           IF records[j].source = s THEN Point(records[j])
           ELSE PointBefore(starting, records, j - 1, s)
<1>1. j \in Nat \ {0} /\ j - 1 \in Nat
    BY DEF Recorded
<1>2. CASE records[j].source = s
  <2>1. LastOf(records, j, s) = {j}
      BY <1>1, <1>2 DEF LastOf
  <2> QED BY <1>2, <2>1 DEF PointBefore
<1>3. CASE records[j].source # s
  <2>1. LastOf(records, j, s) = LastOf(records, j - 1, s)
      BY <1>1, <1>3 DEF LastOf
  <2> QED BY <1>3, <2>1 DEF PointBefore
<1> QED BY <1>2, <1>3

\* The checkpoints a segment ends with are the points after its last record.
LEMMA PointHandedOn ==
  ASSUME NEW starting, NEW records, Recorded(records), NEW s
  PROVE  /\ PointOf(EndingOf(starting, records), s)
              = PointBefore(starting, records, Len(records), s)
         /\ s \in DOMAIN EndingOf(starting, records)
              => EndingOf(starting, records)[s] = PointBefore(starting, records, Len(records), s)
<1> DEFINE D == DOMAIN starting \cup {records[i].source : i \in DOMAIN records}
<1>1. CASE s \in D
    BY <1>1 DEF EndingOf, PointOf
<1>2. CASE s \notin D
  <2>1. DOMAIN records = 1..Len(records)
      BY DEF Recorded
  <2>2. LastOf(records, Len(records), s) = {}
      BY <1>2, <2>1 DEF LastOf
  <2>3. s \notin DOMAIN EndingOf(starting, records)
      BY <1>2 DEF EndingOf
  <2> QED BY <1>2, <2>2, <2>3 DEF PointBefore, PointOf
<1> QED BY <1>1, <1>2

-----------------------------------------------------------------------------
(* Positions of a chain *)

\* A chain of segments whose records are observations.
ChainTyped(chain) ==
  /\ Len(chain) \in Nat /\ DOMAIN chain = 1..Len(chain)
  /\ \A i \in DOMAIN chain : Recorded(chain[i].records) /\ chain[i].created \in Nat

\* A position is a segment and a record in it.
LEMMA PositionFacts ==
  ASSUME NEW chain, ChainTyped(chain)
  PROVE  /\ \A q \in Positions(chain) :
              /\ q[1] \in 1..Len(chain) /\ q[2] \in 1..Len(chain[q[1]].records)
              /\ q = <<q[1], q[2]>> /\ q[1] \in Nat /\ q[2] \in Nat
              /\ RecordAt(chain, q) \in Observations
         /\ \A i \in 1..Len(chain) : \A j \in 1..Len(chain[i].records) :
              <<i, j>> \in Positions(chain) /\ RecordAt(chain, <<i, j>>) = chain[i].records[j]
<1>1. \A i \in 1..Len(chain) :
        /\ DOMAIN chain[i].records = 1..Len(chain[i].records) /\ Len(chain[i].records) \in Nat
        /\ \A j \in 1..Len(chain[i].records) : chain[i].records[j] \in Observations
    BY DEF ChainTyped, Recorded
<1>2. ASSUME NEW q \in Positions(chain)
      PROVE  /\ q[1] \in 1..Len(chain) /\ q[2] \in 1..Len(chain[q[1]].records)
             /\ q = <<q[1], q[2]>>
  <2>1. PICK i \in 1..Len(chain) : q \in {i} \X DOMAIN chain[i].records
      BY DEF Positions, ChainTyped
  <2> QED BY <1>1, <2>1
<1>3. ASSUME NEW i \in 1..Len(chain), NEW j \in 1..Len(chain[i].records)
      PROVE  <<i, j>> \in Positions(chain)
  <2>1. <<i, j>> \in {i} \X DOMAIN chain[i].records
      BY <1>1
  <2> QED BY <2>1 DEF Positions, ChainTyped
<1>4. Len(chain) \in Nat
    BY DEF ChainTyped
<1> QED BY <1>1, <1>2, <1>3, <1>4 DEF RecordAt

\* What the chain holds of source s up to record j of segment i.
Upto(chain, i, j, s) ==
  {q \in Positions(chain) :
     (q[1] < i \/ (q[1] = i /\ q[2] <= j)) /\ RecordAt(chain, q).source = s}

\* A source has a point after record j of segment i.
Known(chain, i, j, s) ==
  s \in DOMAIN chain[i].starting \/ \E h \in 1..j : chain[i].records[h].source = s

\* The point of a source counts what was held of it and is its last record; without
\* records there is none.
Speaks(chain, i, j, s) ==
  LET point == PointBefore(chain[i].starting, chain[i].records, j, s)
      held == Upto(chain, i, j, s)
  IN /\ IsFiniteSet(held) /\ Cardinality(held) = point.sequence + 1
     /\ \A q \in held : RecordAt(chain, q).time <= point.time
     /\ point.sequence \in Int /\ point.time \in Nat
     /\ \A q \in held : (\A r \in held : ~Before(q, r)) => point = Point(RecordAt(chain, q))
     /\ Known(chain, i, j, s) <=> held # {}

\* A first segment starts with nothing held.
LEMMA SpeaksAtFirst ==
  ASSUME NEW chain, ChainTyped(chain), Len(chain) >= 1, chain[1].starting = NoCheckpoints, NEW s
  PROVE  Speaks(chain, 1, 0, s)
<1> DEFINE held == Upto(chain, 1, 0, s)
           point == PointBefore(chain[1].starting, chain[1].records, 0, s)
<1>1. held = {}
    BY PositionFacts DEF Upto
<1>2. point = [sequence |-> -1, time |-> 0]
    BY PointAtStart DEF PointOf, NoCheckpoints
<1>3. IsFiniteSet({}) /\ Cardinality({}) = 0
    BY FS_EmptySet
<1>a. ~Known(chain, 1, 0, s)
    BY DEF Known, NoCheckpoints
<1> HIDE DEF held, point
<1>4. /\ IsFiniteSet(held) /\ Cardinality(held) = point.sequence + 1
      /\ point.sequence \in Int /\ point.time \in Nat
  <2>1. point.sequence = -1 /\ point.time = 0
      BY <1>2
  <2> QED BY <1>1, <1>3, <2>1
<1> QED BY <1>1, <1>4, <1>a DEF Speaks, held, point

\* A record that follows its source's point is counted, and is the new point.
LEMMA SpeaksAfterRecord ==
  ASSUME NEW chain, ChainTyped(chain), NEW i \in 1..Len(chain),
         NEW j \in 1..Len(chain[i].records), NEW s,
         LET o == chain[i].records[j] IN
           Follows(o, PointBefore(chain[i].starting, chain[i].records, j - 1, o.source)),
         Speaks(chain, i, j - 1, s)
  PROVE  Speaks(chain, i, j, s)
<1> DEFINE records == chain[i].records
           o == records[j]
           p == <<i, j>>
           old == PointBefore(chain[i].starting, records, j - 1, s)
           point == PointBefore(chain[i].starting, records, j, s)
           was == Upto(chain, i, j - 1, s)
           held == Upto(chain, i, j, s)
<1>1. /\ p \in Positions(chain) /\ RecordAt(chain, p) = o /\ i \in Nat /\ j \in Nat
      /\ o \in Observations /\ Recorded(records)
  <2>1. i \in Nat /\ Recorded(records)
      BY DEF ChainTyped
  <2>2. j \in Nat
      BY <2>1 DEF Recorded
  <2>3. p \in Positions(chain) /\ RecordAt(chain, p) = o
      BY PositionFacts
  <2>4. o \in Observations
      BY <2>3, PositionFacts
  <2> QED BY <2>1, <2>2, <2>3, <2>4
<1>2. o.sequence \in Nat /\ o.time \in Nat
    BY <1>1, ObservationTyped
<1>3. point = IF o.source = s THEN Point(o) ELSE old
    BY <1>1, PointMoves
<1>4. /\ IsFiniteSet(was) /\ Cardinality(was) = old.sequence + 1
      /\ \A q \in was : RecordAt(chain, q).time <= old.time
      /\ old.sequence \in Int /\ old.time \in Nat
      /\ \A q \in was : (\A r \in was : ~Before(q, r)) => old = Point(RecordAt(chain, q))
      /\ Known(chain, i, j - 1, s) <=> was # {}
    BY DEF Speaks
<1>a. Known(chain, i, j, s) <=> Known(chain, i, j - 1, s) \/ o.source = s
  <2>1. \A h : h \in 1..j <=> h \in 1..(j - 1) \/ h = j
      BY <1>1
  <2> QED BY <2>1 DEF Known
<1>5. /\ \A q \in Positions(chain) : q[1] \in Nat /\ q[2] \in Nat /\ q = <<q[1], q[2]>>
                                     /\ RecordAt(chain, q) \in Observations
      /\ \A q \in Positions(chain) :
           (q[1] < i \/ (q[1] = i /\ q[2] <= j))
             <=> (q = p \/ q[1] < i \/ (q[1] = i /\ q[2] <= j - 1))
  <2>1. \A q \in Positions(chain) : q[1] \in Nat /\ q[2] \in Nat /\ q = <<q[1], q[2]>>
                                     /\ RecordAt(chain, q) \in Observations
      BY PositionFacts
  <2> QED BY <1>1, <2>1
<1>6. CASE o.source # s
  <2>1. held = was
      BY <1>1, <1>5, <1>6 DEF Upto
  <2>2. point = old
      BY <1>3, <1>6
  <2> HIDE DEF point, old, held, was, o
  <2>3. /\ IsFiniteSet(held) /\ Cardinality(held) = point.sequence + 1
        /\ \A q \in held : RecordAt(chain, q).time <= point.time
        /\ point.sequence \in Int /\ point.time \in Nat
        /\ \A q \in held : (\A r \in held : ~Before(q, r)) => point = Point(RecordAt(chain, q))
        /\ Known(chain, i, j, s) <=> held # {}
      BY <1>4, <1>6, <1>a, <2>1, <2>2 DEF o
  <2> QED BY <2>3 DEF Speaks, point, held
<1>7. CASE o.source = s
  <2>1. held = was \cup {p}
      BY <1>1, <1>5, <1>7 DEF Upto
  <2>2. p \notin was
      BY <1>1 DEF Upto
  <2>3. point = Point(o) /\ point.sequence = o.sequence /\ point.time = o.time
      BY <1>3, <1>7 DEF Point
  <2>4. o.sequence = old.sequence + 1 /\ o.time >= old.time
      BY <1>7 DEF Follows
  <2>5. \A q \in was : Before(q, p)
      BY <1>1, <1>5 DEF Upto, Before
  <2> HIDE DEF point, old, held, was, o, p
  <2>6. IsFiniteSet(held) /\ Cardinality(held) = Cardinality(was) + 1
      BY <1>4, <2>1, <2>2, FS_AddElement
  <2>7. \A q \in held : RecordAt(chain, q).time <= point.time
    <3>1. ASSUME NEW q \in was PROVE RecordAt(chain, q).time <= point.time
      <4>1. RecordAt(chain, q).time \in Nat /\ RecordAt(chain, q).time <= old.time
          BY <1>4, <1>5, <3>1, ObservationTyped DEF was, Upto
      <4> QED BY <1>2, <1>4, <2>3, <2>4, <4>1
    <3> QED BY <1>1, <1>2, <2>1, <2>3, <3>1
  <2>8. \A q \in held : (\A r \in held : ~Before(q, r)) => point = Point(RecordAt(chain, q))
      BY <1>1, <2>1, <2>3, <2>5
  <2>9. Cardinality(held) = point.sequence + 1 /\ point.sequence \in Int /\ point.time \in Nat
      BY <1>2, <1>4, <2>3, <2>4, <2>6
  <2>10. Known(chain, i, j, s) /\ held # {}
      BY <1>7, <1>a, <2>1
  <2> QED BY <2>6, <2>7, <2>8, <2>9, <2>10 DEF Speaks, point, held
<1> QED BY <1>6, <1>7

\* The points that one segment ends with are those that the next one starts with.
LEMMA SpeaksAcross ==
  ASSUME NEW chain, ChainTyped(chain), NEW i \in 1..Len(chain), i + 1 \in 1..Len(chain), NEW s,
         chain[i].ending = EndingOf(chain[i].starting, chain[i].records),
         chain[i + 1].starting = chain[i].ending,
         Speaks(chain, i, Len(chain[i].records), s)
  PROVE  Speaks(chain, i + 1, 0, s)
<1> DEFINE n == Len(chain[i].records)
           old == PointBefore(chain[i].starting, chain[i].records, n, s)
           point == PointBefore(chain[i + 1].starting, chain[i + 1].records, 0, s)
<1>1. Recorded(chain[i].records) /\ i \in Nat
    BY DEF ChainTyped
<1>2. point = old
    BY <1>1, PointAtStart, PointHandedOn
<1>3. Upto(chain, i + 1, 0, s) = Upto(chain, i, n, s)
  <2>1. \A q \in Positions(chain) :
          /\ q[1] \in Nat /\ q[2] \in Nat /\ q[2] # 0
          /\ q[1] = i => q[2] <= n
      BY PositionFacts
  <2>2. \A q \in Positions(chain) :
          (q[1] < i + 1 \/ (q[1] = i + 1 /\ q[2] <= 0)) <=> (q[1] < i \/ (q[1] = i /\ q[2] <= n))
      BY <1>1, <2>1
  <2> QED BY <2>2 DEF Upto
<1>4. Known(chain, i + 1, 0, s) <=> Known(chain, i, n, s)
  <2>1. DOMAIN chain[i].records = 1..n
      BY <1>1 DEF Recorded
  <2>2. DOMAIN chain[i + 1].starting
          = DOMAIN chain[i].starting \cup {chain[i].records[h].source : h \in 1..n}
      BY <2>1 DEF EndingOf
  <2> QED BY <2>2 DEF Known
<1> QED BY <1>2, <1>3, <1>4 DEF Speaks

\* In a chain that passes replay the points speak for all records before them.
LEMMA SpeaksThroughout ==
  ASSUME NEW chain, ChainTyped(chain), ValidChain(chain),
         NEW i \in 1..Len(chain), NEW j \in 0..Len(chain[i].records), NEW s
  PROVE  Speaks(chain, i, j, s)
<1> DEFINE N == Len(chain)
           Size(k) == Len(chain[k].records)
           W(k) == {h \in 0..Size(k) : Speaks(chain, k, h, s)}
           S == {k \in 1..N : Speaks(chain, k, 0, s)}
<1>0. N \in Nat /\ N >= 1
    BY DEF ChainTyped
<1>1. /\ N \in Nat /\ N >= 1
      /\ \A k \in 1..N : Size(k) \in Nat /\ Recorded(chain[k].records)
    BY <1>0 DEF ChainTyped, Recorded
<1>2. /\ chain[1].starting = NoCheckpoints
      /\ \A k \in 1..N : ValidSegment(chain[k])
      /\ \A k \in 2..N : chain[k].starting = chain[k - 1].ending
    BY DEF ValidChain, ChainTyped
<1>3. ASSUME NEW k \in S PROVE \A h \in 0..Size(k) : Speaks(chain, k, h, s)
  <2>1. k \in 1..N /\ 0 \in W(k)
      BY <1>1, <1>3
  <2>2. ASSUME NEW h \in 0..Size(k), h + 1 <= Size(k), h \in W(k) PROVE h + 1 \in W(k)
    <3> DEFINE o == chain[k].records[h + 1]
    <3>1. h + 1 \in 1..Size(k) /\ (h + 1) - 1 = h
        BY <1>1, <2>1, <2>2
    <3>2. h + 1 \in DOMAIN chain[k].records
        BY <1>1, <2>1, <3>1 DEF Recorded
    <3>3. Follows(o, PointBefore(chain[k].starting, chain[k].records, (h + 1) - 1, o.source))
        BY <1>2, <2>1, <3>2 DEF ValidSegment
    <3> HIDE DEF o
    <3>4. Speaks(chain, k, (h + 1) - 1, s)
        BY <2>2, <3>1
    <3>5. Speaks(chain, k, h + 1, s)
        BY <2>1, <3>1, <3>3, <3>4, SpeaksAfterRecord DEF o
    <3> QED BY <1>1, <2>1, <3>1, <3>5
  <2>3. 0..Size(k) \subseteq W(k)
    <3> HIDE DEF W
    <3>1. Size(k) \in Nat /\ 0 \in Nat
        BY <1>1, <2>1
    <3> HIDE DEF Size
    <3> QED BY <2>1, <2>2, <3>1, InductionUpto
  <2> QED BY <2>3
<1>4. 1 \in S
    BY <1>1, <1>2, SpeaksAtFirst
<1>5. ASSUME NEW k \in 1..N, k + 1 <= N, k \in S PROVE k + 1 \in S
  <2>1. Speaks(chain, k, Size(k), s)
      BY <1>1, <1>3, <1>5
  <2>2. k + 1 \in 1..N /\ k + 1 \in 2..N /\ (k + 1) - 1 = k
      BY <1>1, <1>5
  <2>3. chain[k + 1].starting = chain[k].ending
      BY <1>2, <2>2
  <2>4. chain[k].ending = EndingOf(chain[k].starting, chain[k].records)
      BY <1>2 DEF ValidSegment
  <2>5. Speaks(chain, k + 1, 0, s)
      BY <2>1, <2>2, <2>3, <2>4, SpeaksAcross
  <2> QED BY <2>2, <2>5
<1>6. 1..N \subseteq S
  <2> HIDE DEF S
  <2>1. 1 \in Nat
      OBVIOUS
  <2> QED BY <1>1, <1>4, <1>5, <2>1, InductionUpto
<1> QED BY <1>3, <1>6

\* A chain that passes replay has no gap, whatever it is made of.
LEMMA ReplayedChainIsGapless ==
  ASSUME NEW chain, ChainTyped(chain), ValidChain(chain), NEW p \in Positions(chain)
  PROVE  /\ RecordAt(chain, p).sequence = Cardinality(Earlier(chain, p))
         /\ \A q \in Earlier(chain, p) : RecordAt(chain, q).time <= RecordAt(chain, p).time
<1> DEFINE i == p[1]
           j == p[2]
           o == RecordAt(chain, p)
           s == o.source
           point == PointBefore(chain[i].starting, chain[i].records, j - 1, s)
           held == Upto(chain, i, j - 1, s)
<1>1. /\ i \in 1..Len(chain) /\ j \in 1..Len(chain[i].records) /\ i \in Nat /\ j \in Nat
      /\ o \in Observations
      /\ \A q \in Positions(chain) : q[1] \in Nat /\ q[2] \in Nat
                                     /\ RecordAt(chain, q) \in Observations
    BY PositionFacts
<1>2. o = chain[i].records[j]
    BY DEF RecordAt
<1>3. ValidSegment(chain[i]) /\ Recorded(chain[i].records)
    BY <1>1 DEF ValidChain, ChainTyped
<1>4. Follows(o, point)
  <2>1. j \in DOMAIN chain[i].records
      BY <1>1, <1>3 DEF Recorded
  <2> QED BY <1>2, <1>3, <2>1 DEF ValidSegment
<1>5. Speaks(chain, i, j - 1, s)
  <2>1. j - 1 \in 0..Len(chain[i].records)
      BY <1>1, <1>3 DEF Recorded
  <2> QED BY <1>1, <2>1, SpeaksThroughout
<1>6. Earlier(chain, p) = held
    BY <1>1 DEF Earlier, Before, Upto
<1>7. /\ Cardinality(held) = point.sequence + 1 /\ point.time \in Nat
      /\ \A q \in held : RecordAt(chain, q).time <= point.time /\ q \in Positions(chain)
    BY <1>5 DEF Speaks, Upto
<1>8. o.sequence = point.sequence + 1 /\ o.time >= point.time
    BY <1>4 DEF Follows
<1> HIDE DEF point, held, i, j, o
<1>9. \A q \in held : RecordAt(chain, q).time \in Nat
    BY <1>1, <1>7, ObservationTyped
<1>10. o.time \in Nat
    BY <1>1, ObservationTyped
<1> QED BY <1>6, <1>7, <1>8, <1>9, <1>10 DEF o

\* The last checkpoints of a chain that passes replay are those of its last records.
LEMMA ReplayedCheckpointsSpeak ==
  ASSUME NEW chain, ChainTyped(chain), ValidChain(chain)
  PROVE  LET g == chain[Len(chain)] IN
         /\ DOMAIN g.ending = {RecordAt(chain, p).source : p \in Positions(chain)}
         /\ \A p \in Positions(chain) :
              /\ g.created >= RecordAt(chain, p).time
              /\ (\A q \in Positions(chain) : p \notin Earlier(chain, q))
                   => g.ending[RecordAt(chain, p).source] = Point(RecordAt(chain, p))
<1> DEFINE N == Len(chain)
           g == chain[N]
           n == Len(g.records)
           All(s) == {q \in Positions(chain) : RecordAt(chain, q).source = s}
<1>1. /\ N \in Nat /\ N \in 1..N /\ n \in Nat /\ Recorded(g.records)
      /\ DOMAIN g.records = 1..n
  <2>1. N \in 1..N /\ N \in Nat
      BY DEF ChainTyped, ValidChain, Linked
  <2>2. Recorded(g.records)
      BY <2>1 DEF ChainTyped
  <2> QED BY <2>1, <2>2 DEF Recorded
<1>2. /\ g.ending = EndingOf(g.starting, g.records)
      /\ \A s \in DOMAIN g.ending : g.created >= g.ending[s].time
  <2>1. ValidSegment(g)
      BY <1>1 DEF ValidChain, ChainTyped
  <2> QED BY <2>1 DEF ValidSegment, CreatedAfter
<1>3. \A s : Upto(chain, N, n, s) = All(s)
  <2>1. \A q \in Positions(chain) : q[1] < N \/ (q[1] = N /\ q[2] <= n)
    <3>1. \A q \in Positions(chain) : q[1] \in 1..N /\ q[2] \in 1..Len(chain[q[1]].records)
        BY PositionFacts
    <3> QED BY <1>1, <3>1
  <2> QED BY <2>1 DEF Upto
<1>4. \A s : Speaks(chain, N, n, s)
  <2>1. n \in 0..n
      BY <1>1
  <2> QED BY <1>1, <2>1, SpeaksThroughout
<1>5. \A s : s \in DOMAIN g.ending <=> All(s) # {}
  <2>1. \A s : s \in DOMAIN g.ending <=> Known(chain, N, n, s)
      BY <1>1, <1>2 DEF Known, EndingOf
  <2>2. \A s : Known(chain, N, n, s) <=> Upto(chain, N, n, s) # {}
      BY <1>4 DEF Speaks
  <2> QED BY <1>3, <2>1, <2>2
<1>6. ASSUME NEW p \in Positions(chain)
      PROVE  /\ g.created >= RecordAt(chain, p).time
             /\ (\A q \in Positions(chain) : p \notin Earlier(chain, q))
                  => g.ending[RecordAt(chain, p).source] = Point(RecordAt(chain, p))
  <2> DEFINE s == RecordAt(chain, p).source
             point == PointBefore(g.starting, g.records, n, s)
  <2>1. p \in All(s) /\ s \in DOMAIN g.ending /\ RecordAt(chain, p) \in Observations
      BY <1>5, PositionFacts
  <2>2. g.ending[s] = point
      BY <1>1, <1>2, <2>1, PointHandedOn
  <2>3. /\ \A q \in All(s) : RecordAt(chain, q).time <= point.time
        /\ point.time \in Nat
        /\ \A q \in All(s) : (\A r \in All(s) : ~Before(q, r)) => point = Point(RecordAt(chain, q))
    <3>1. Upto(chain, N, n, s) = All(s) /\ Speaks(chain, N, n, s)
        BY <1>3, <1>4
    <3> QED BY <3>1 DEF Speaks
  <2>4. g.created >= point.time /\ RecordAt(chain, p).time \in Nat
      BY <1>2, <2>1, <2>2, ObservationTyped
  <2>5. (\A q \in Positions(chain) : p \notin Earlier(chain, q)) => \A r \in All(s) : ~Before(p, r)
      BY DEF Earlier
  <2>6. g.created >= RecordAt(chain, p).time
    <3>1. g.created \in Nat
        BY <1>1 DEF ChainTyped
    <3>2. RecordAt(chain, p).time <= point.time
        BY <2>1, <2>3
    <3> HIDE DEF g, point
    <3> QED BY <2>3, <2>4, <3>1, <3>2
  <2> QED BY <2>1, <2>2, <2>3, <2>5, <2>6
<1> QED BY <1>5, <1>6

-----------------------------------------------------------------------------
(* What builders and files hold *)

SegmentTyped(g) ==
  /\ g = [id |-> g.id, created |-> g.created, previous |-> g.previous,
          starting |-> g.starting, records |-> g.records, ending |-> g.ending]
  /\ g.created \in Nat /\ Recorded(g.records)

FilesOK == \A g \in files : SegmentTyped(g)

\* What a builder took over from the manifest it was started after, and a sealed segment
\* has from its builder.
Attached(g) ==
  /\ g.previous = Genesis <=> DOMAIN g.starting = {}
  /\ g.previous = Genesis => g.starting = NoCheckpoints
  /\ g.previous # Genesis => g.starting = g.previous.ending /\ g.created >= g.previous.created

\* The records of a segment follow each other from where it starts.
Grown(starting, records) ==
  \A i \in DOMAIN records :
    /\ Follows(records[i], PointBefore(starting, records, i - 1, records[i].source))
    /\ \A j \in 1..i - 1 : ~SameIdentity(records[j], records[i])

BuilderOK(b) ==
  /\ b = [id |-> b.id, created |-> b.created, previous |-> b.previous,
          starting |-> b.starting, records |-> b.records, last |-> b.last]
  /\ b.created \in Nat /\ Recorded(b.records) /\ Len(b.records) <= MaxSegmentRecords
  /\ Attached(b) /\ Grown(b.starting, b.records)
  /\ b.last = EndingOf(b.starting, b.records)

BuildersOK ==
  /\ builders = [b \in Builders |-> builders[b]]
  /\ \A b \in Builders : builders[b] = Idle \/ BuilderOK(builders[b])

SealedOK == \A g \in sealed : SegmentTyped(g) /\ ValidSegment(g) /\ Attached(g) /\ g # Genesis

LedgerInv == FilesOK /\ BuildersOK /\ SealedOK

\* Points before a record do not depend on the records from it on.
LEMMA PointOfPrefix ==
  ASSUME NEW starting, NEW records, Recorded(records), NEW o \in Observations,
         NEW n \in 0..Len(records), NEW s
  PROVE  PointBefore(starting, Append(records, o), n, s) = PointBefore(starting, records, n, s)
<1> DEFINE more == Append(records, o)
<1>1. Len(records) \in Nat /\ \A i \in 1..Len(records) : more[i] = records[i]
    BY AppendProperties, LenProperties DEF Recorded
<1> HIDE DEF more
<1>2. \A i \in 1..n : more[i] = records[i]
    BY <1>1
<1>3. LastOf(more, n, s) = LastOf(records, n, s)
    BY <1>1, <1>2 DEF LastOf
<1>4. LastOf(records, n, s) \subseteq 1..n
    BY DEF LastOf
<1> QED BY <1>2, <1>3, <1>4 DEF PointBefore, more

\* A segment without records ends as it starts.
LEMMA EndsAsItStarts ==
  ASSUME NEW starting, starting = [s \in DOMAIN starting |-> starting[s]]
  PROVE  EndingOf(starting, <<>>) = starting
<1>1. {<<>>[i].source : i \in DOMAIN <<>>} = {} /\ Len(<<>>) = 0
    OBVIOUS
<1>2. \A s \in DOMAIN starting : PointBefore(starting, <<>>, 0, s) = starting[s]
    BY PointAtStart DEF PointOf
<1> QED BY <1>1, <1>2 DEF EndingOf

\* The running checkpoints of a builder are the ending of what it holds (append).
LEMMA EndingGrows ==
  ASSUME NEW starting, NEW records, Recorded(records), NEW o \in Observations
  PROVE  LET last == EndingOf(starting, records) IN
         EndingOf(starting, Append(records, o))
           = [s \in DOMAIN last \cup {o.source} |-> IF s = o.source THEN Point(o) ELSE last[s]]
<1> DEFINE more == Append(records, o)
           n == Len(records)
           last == EndingOf(starting, records)
           D == DOMAIN starting \cup {records[i].source : i \in DOMAIN records}
<1>1. /\ n \in Nat /\ DOMAIN records = 1..n /\ Recorded(more) /\ Len(more) = n + 1
      /\ DOMAIN more = 1..(n + 1) /\ more[n + 1] = o
      /\ \A i \in 1..n : more[i] = records[i]
  <2>1. more \in Seq(Observations) /\ records \in Seq(Observations)
      BY AppendProperties DEF Recorded
  <2> QED BY <2>1, AppendProperties, LenProperties DEF Recorded
<1> HIDE DEF more
<1>2. DOMAIN starting \cup {more[i].source : i \in DOMAIN more} = D \cup {o.source}
  <2>1. {more[i].source : i \in 1..(n + 1)} = {records[i].source : i \in 1..n} \cup {o.source}
    <3>1. \A i : i \in 1..(n + 1) <=> i \in 1..n \/ i = n + 1
        BY <1>1
    <3> QED BY <1>1, <3>1
  <2> QED BY <1>1, <2>1
<1>3. DOMAIN last = D
    BY DEF EndingOf
<1>4. ASSUME NEW s \in D \cup {o.source}
      PROVE  PointBefore(starting, more, n + 1, s)
               = IF s = o.source THEN Point(o) ELSE last[s]
  <2>1. n + 1 \in 1..Len(more) /\ (n + 1) - 1 = n
      BY <1>1
  <2>2. PointBefore(starting, more, n + 1, s)
          = IF o.source = s THEN Point(o) ELSE PointBefore(starting, more, n, s)
      BY <1>1, <2>1, PointMoves
  <2>3. PointBefore(starting, more, n, s) = PointBefore(starting, records, n, s)
    <3>1. n \in 0..Len(records)
        BY <1>1
    <3> QED BY <3>1, PointOfPrefix DEF more
  <2>4. s \in D => last[s] = PointBefore(starting, records, n, s)
      BY <1>3, PointHandedOn
  <2> QED BY <1>4, <2>2, <2>3, <2>4
<1>5. EndingOf(starting, more)
        = [s \in D \cup {o.source} |-> PointBefore(starting, more, n + 1, s)]
    BY <1>1, <1>2 DEF EndingOf
<1> HIDE DEF last, D
<1> QED BY <1>3, <1>4, <1>5 DEF more, last

\* A record that follows and is new keeps the rest as it is (append).
LEMMA RecordsGrow ==
  ASSUME NEW starting, NEW records, Recorded(records), Grown(starting, records),
         NEW o \in Observations,
         Follows(o, PointOf(EndingOf(starting, records), o.source)),
         \A i \in DOMAIN records : ~SameIdentity(records[i], o)
  PROVE  Recorded(Append(records, o)) /\ Grown(starting, Append(records, o))
<1> DEFINE more == Append(records, o)
           n == Len(records)
<1>1. /\ n \in Nat /\ DOMAIN records = 1..n /\ Recorded(more)
      /\ DOMAIN more = 1..(n + 1) /\ more[n + 1] = o
      /\ \A i \in 1..n : more[i] = records[i]
  <2>1. more \in Seq(Observations) /\ records \in Seq(Observations)
      BY AppendProperties DEF Recorded
  <2> QED BY <2>1, AppendProperties, LenProperties DEF Recorded
<1>2. \A k \in 0..n : \A s : PointBefore(starting, more, k, s) = PointBefore(starting, records, k, s)
    BY PointOfPrefix
<1> HIDE DEF more
<1>3. ASSUME NEW i \in 1..n
      PROVE  /\ Follows(more[i], PointBefore(starting, more, i - 1, more[i].source))
             /\ \A j \in 1..i - 1 : ~SameIdentity(more[j], more[i])
  <2>1. i - 1 \in 0..n /\ \A j \in 1..i - 1 : j \in 1..n
      BY <1>1
  <2>2. /\ Follows(records[i], PointBefore(starting, records, i - 1, records[i].source))
        /\ \A j \in 1..i - 1 : ~SameIdentity(records[j], records[i])
      BY <1>1 DEF Grown
  <2> QED BY <1>1, <1>2, <2>1, <2>2
<1>4. /\ Follows(o, PointBefore(starting, more, n, o.source))
      /\ \A j \in 1..n : ~SameIdentity(more[j], o)
  <2>1. n \in 0..n
      BY <1>1
  <2>2. PointBefore(starting, more, n, o.source) = PointOf(EndingOf(starting, records), o.source)
      BY <1>2, <2>1, PointHandedOn
  <2> QED BY <1>1, <2>2
<1>5. Grown(starting, more)
  <2>1. \A i \in 1..(n + 1) : i \in 1..n \/ (i = n + 1 /\ i - 1 = n)
      BY <1>1
  <2> QED BY <1>1, <1>3, <1>4, <2>1 DEF Grown
<1> QED BY <1>1, <1>5 DEF more

\* seal's own checks are enough: what it then builds passes every validation, and carries on
\* what the builder was started after.
LEMMA SealPasses ==
  ASSUME NEW b, BuilderOK(b), Sealable(b)
  PROVE  LET g == SegmentOf(b) IN
         SegmentTyped(g) /\ ValidSegment(g) /\ Attached(g) /\ g # Genesis
<1> DEFINE g == SegmentOf(b)
<1>1. /\ g.id = b.id /\ g.created = b.created /\ g.previous = b.previous
      /\ g.starting = b.starting /\ g.records = b.records /\ g.ending = b.last
      /\ g = [id |-> g.id, created |-> g.created, previous |-> g.previous,
              starting |-> g.starting, records |-> g.records, ending |-> g.ending]
    BY DEF SegmentOf
<1>2. g # Genesis
  <2>1. "records" \in DOMAIN g /\ "records" \notin DOMAIN Genesis
      BY DEF SegmentOf, Genesis
  <2> QED BY <2>1
<1> HIDE DEF g
<1>3. SegmentTyped(g)
    BY <1>1 DEF SegmentTyped, BuilderOK
<1>4. Attached(g)
    BY <1>1 DEF Attached, BuilderOK
<1>5. Len(g.records) \in 1..MaxSegmentRecords
  <2>1. Len(b.records) \in Nat /\ Len(b.records) # 0 /\ Len(b.records) <= MaxSegmentRecords
      BY EmptySeq, LenProperties DEF BuilderOK, Recorded, Sealable
  <2> QED BY <1>1, <2>1, LedgerAssumption
<1>6. g.ending = EndingOf(g.starting, g.records) /\ CreatedAfter(g.created, g.ending)
    BY <1>1 DEF BuilderOK, Sealable
<1>7. Grown(g.starting, g.records)
    BY <1>1 DEF BuilderOK
<1>8. ValidSegment(g)
    BY <1>4, <1>5, <1>6, <1>7 DEF ValidSegment, Attached, Grown
<1> QED BY <1>2, <1>3, <1>4, <1>8 DEF g

\* A builder that takes part in no step stays as it is.
LEMMA OtherBuilders ==
  ASSUME BuildersOK, NEW b \in Builders, NEW new,
         builders' = [builders EXCEPT ![b] = new], new = Idle \/ BuilderOK(new)
  PROVE  BuildersOK'
<1>1. builders' = [c \in Builders |-> builders'[c]]
    BY DEF BuildersOK
<1>2. ASSUME NEW c \in Builders PROVE builders'[c] = Idle \/ BuilderOK(builders'[c])
  <2>1. builders'[c] = IF c = b THEN new ELSE builders[c]
      BY DEF BuildersOK
  <2>2. builders[c] = Idle \/ BuilderOK(builders[c])
      BY DEF BuildersOK
  <2> QED BY <2>1, <2>2
<1> QED BY <1>1, <1>2 DEF BuildersOK

\* Nothing is built, stored or sealed at first.
LEMMA LedgerInvInitially == Init => LedgerInv
  BY DEF Init, LedgerInv, FilesOK, BuildersOK, SealedOK

\* A builder is attached to what it was started after (__init__).
LEMMA StartKeeps == ASSUME LedgerInv, NEW b \in Builders, Start(b) PROVE LedgerInv'
<1>1. PICK id \in SegmentIds, created \in Times,
           previous \in {Genesis} \cup {g \in files : ValidSegment(g)} :
        /\ previous # Genesis => created >= previous.created
        /\ builders' = [builders EXCEPT ![b] =
             LET starting == IF previous = Genesis THEN NoCheckpoints ELSE previous.ending
             IN  [id |-> id, created |-> created, previous |-> previous,
                  starting |-> starting, records |-> <<>>, last |-> starting]]
    BY DEF Start
<1> DEFINE starting == IF previous = Genesis THEN NoCheckpoints ELSE previous.ending
           new == [id |-> id, created |-> created, previous |-> previous,
                   starting |-> starting, records |-> <<>>, last |-> starting]
<1>2. starting = [s \in DOMAIN starting |-> starting[s]] /\ (previous = Genesis <=> DOMAIN starting = {})
  <2>1. CASE previous = Genesis
      BY <2>1 DEF NoCheckpoints
  <2>2. CASE previous # Genesis
    <3>1. ValidSegment(previous) /\ Recorded(previous.records) /\ starting = previous.ending
        BY <2>2 DEF LedgerInv, FilesOK, SegmentTyped
    <3>2. previous.ending = EndingOf(previous.starting, previous.records)
          /\ Len(previous.records) >= 1
        BY <3>1, LedgerAssumption DEF ValidSegment
    <3>3. 1 \in DOMAIN previous.records
        BY <3>1, <3>2, LenProperties DEF Recorded
    <3>4. previous.records[1].source \in DOMAIN EndingOf(previous.starting, previous.records)
        BY <3>3 DEF EndingOf
    <3>5. EndingOf(previous.starting, previous.records)
            = [s \in DOMAIN EndingOf(previous.starting, previous.records) |->
                 EndingOf(previous.starting, previous.records)[s]]
        BY DEF EndingOf
    <3> QED BY <2>2, <3>1, <3>2, <3>4, <3>5
  <2> QED BY <2>1, <2>2
<1>3. /\ new.id = id /\ new.created = created /\ new.previous = previous
      /\ new.starting = starting /\ new.records = <<>> /\ new.last = starting
      /\ new = [id |-> new.id, created |-> new.created, previous |-> new.previous,
                starting |-> new.starting, records |-> new.records, last |-> new.last]
    OBVIOUS
<1>4. previous = Genesis => starting = NoCheckpoints
    OBVIOUS
<1>5. previous # Genesis => starting = previous.ending
    OBVIOUS
<1>6. builders' = [builders EXCEPT ![b] = new]
    BY <1>1
<1> HIDE DEF new, starting
<1>7. created \in Nat /\ Recorded(<<>>) /\ Len(<<>>) <= MaxSegmentRecords /\ DOMAIN <<>> = {}
    BY LedgerAssumption, EmptySeq DEF Recorded
<1>8. BuilderOK(new)
  <2>1. EndingOf(starting, <<>>) = starting
      BY <1>2, EndsAsItStarts
  <2>2. Attached(new)
      BY <1>1, <1>2, <1>3, <1>4, <1>5 DEF Attached
  <2>3. Grown(new.starting, new.records)
      BY <1>3, <1>7 DEF Grown
  <2> QED BY <1>3, <1>7, <2>1, <2>2, <2>3 DEF BuilderOK
<1>9. BuildersOK'
    BY <1>6, <1>8, OtherBuilders DEF LedgerInv
<1> QED BY <1>9 DEF LedgerInv, Start, FilesOK, SealedOK

BuilderFields(r) ==
  r = [id |-> r.id, created |-> r.created, previous |-> r.previous,
       starting |-> r.starting, records |-> r.records, last |-> r.last]

SegmentFields(r) ==
  r = [id |-> r.id, created |-> r.created, previous |-> r.previous,
       starting |-> r.starting, records |-> r.records, ending |-> r.ending]

\* What a builder's record becomes when its records and its checkpoints move on.
LEMMA BuilderUpdates ==
  ASSUME NEW r, NEW x, NEW y, BuilderFields(r)
  PROVE  [r EXCEPT !.records = x, !.last = y]
           = [id |-> r.id, created |-> r.created, previous |-> r.previous,
              starting |-> r.starting, records |-> x, last |-> y]
<1>1. ASSUME NEW a, NEW b, NEW c, NEW d, NEW e, NEW f,
             r = [id |-> a, created |-> b, previous |-> c, starting |-> d, records |-> e, last |-> f]
      PROVE  [[r EXCEPT !.records = x] EXCEPT !.last = y]
               = [id |-> a, created |-> b, previous |-> c, starting |-> d, records |-> x, last |-> y]
  <2> DEFINE q0 == [id |-> a, created |-> b, previous |-> c, starting |-> d, records |-> e, last |-> f]
             q1 == [id |-> a, created |-> b, previous |-> c, starting |-> d, records |-> x, last |-> f]
             q2 == [id |-> a, created |-> b, previous |-> c, starting |-> d, records |-> x, last |-> y]
  <2>1. r = q0
      BY <1>1 DEF BuilderFields
  <2>2. [q0 EXCEPT !.records = x] = q1
      OBVIOUS
  <2>3. [q1 EXCEPT !.last = y] = q2
      OBVIOUS
  <2> HIDE DEF q0, q1, q2
  <2>4. [[r EXCEPT !.records = x] EXCEPT !.last = y] = q2
      BY <2>1, <2>2, <2>3, Zenon
  <2> QED BY <2>4 DEF q2
<1> DEFINE next == [id |-> r.id, created |-> r.created, previous |-> r.previous,
                    starting |-> r.starting, records |-> x, last |-> y]
<1>2. [[r EXCEPT !.records = x] EXCEPT !.last = y] = next
    BY <1>1 DEF BuilderFields
<1> HIDE DEF next
<1>3. [r EXCEPT !.records = x, !.last = y] = [[r EXCEPT !.records = x] EXCEPT !.last = y]
    OBVIOUS
<1>4. [r EXCEPT !.records = x, !.last = y] = next
    BY <1>2, <1>3, Zenon
<1> QED BY <1>4 DEF next

\* The same of a segment.
LEMMA SegmentUpdates ==
  ASSUME NEW r, NEW x, NEW y, NEW z, SegmentFields(r)
  PROVE  [r EXCEPT !.starting = x, !.records = y, !.ending = z]
           = [id |-> r.id, created |-> r.created, previous |-> r.previous,
              starting |-> x, records |-> y, ending |-> z]
<1>1. ASSUME NEW a, NEW b, NEW c, NEW d, NEW e, NEW f,
             r = [id |-> a, created |-> b, previous |-> c, starting |-> d, records |-> e, ending |-> f]
      PROVE  [[[r EXCEPT !.starting = x] EXCEPT !.records = y] EXCEPT !.ending = z]
               = [id |-> a, created |-> b, previous |-> c, starting |-> x, records |-> y, ending |-> z]
  <2> DEFINE q0 == [id |-> a, created |-> b, previous |-> c, starting |-> d, records |-> e, ending |-> f]
             q1 == [id |-> a, created |-> b, previous |-> c, starting |-> x, records |-> e, ending |-> f]
             q2 == [id |-> a, created |-> b, previous |-> c, starting |-> x, records |-> y, ending |-> f]
             q3 == [id |-> a, created |-> b, previous |-> c, starting |-> x, records |-> y, ending |-> z]
  <2>1. r = q0
      BY <1>1 DEF SegmentFields
  <2>2. [q0 EXCEPT !.starting = x] = q1
      OBVIOUS
  <2>3. [q1 EXCEPT !.records = y] = q2
      OBVIOUS
  <2>4. [q2 EXCEPT !.ending = z] = q3
      OBVIOUS
  <2> HIDE DEF q0, q1, q2, q3
  <2>5. [[[r EXCEPT !.starting = x] EXCEPT !.records = y] EXCEPT !.ending = z] = q3
      BY <2>1, <2>2, <2>3, <2>4, Zenon
  <2> QED BY <2>5 DEF q3
<1> DEFINE next == [id |-> r.id, created |-> r.created, previous |-> r.previous,
                    starting |-> x, records |-> y, ending |-> z]
<1>2. [[[r EXCEPT !.starting = x] EXCEPT !.records = y] EXCEPT !.ending = z] = next
    BY <1>1 DEF SegmentFields
<1> HIDE DEF next
<1>3. [r EXCEPT !.starting = x, !.records = y, !.ending = z]
        = [[[r EXCEPT !.starting = x] EXCEPT !.records = y] EXCEPT !.ending = z]
    OBVIOUS
<1>4. [r EXCEPT !.starting = x, !.records = y, !.ending = z] = next
    BY <1>2, <1>3, Zenon
<1> QED BY <1>4 DEF next

\* A builder's running checkpoints are the ending of its records (append).
LEMMA AppendKeeps ==
  ASSUME LedgerInv, NEW b \in Builders, NEW o \in Observations, AppendRecord(b, o)
  PROVE  LedgerInv'
<1> DEFINE old == builders[b]
           records == Append(old.records, o)
           last == [s \in DOMAIN old.last \cup {o.source} |->
                      IF s = o.source THEN Point(o) ELSE old.last[s]]
           new == [id |-> old.id, created |-> old.created, previous |-> old.previous,
                   starting |-> old.starting, records |-> records, last |-> last]
<1>1. BuilderOK(old)
    BY DEF LedgerInv, BuildersOK, AppendRecord
<1>2. builders' = [builders EXCEPT ![b] = new]
  <2>1. builders' = [builders EXCEPT ![b].records = records, ![b].last = last]
      BY DEF AppendRecord
  <2>2. BuilderFields(old)
      BY <1>1 DEF BuilderOK, BuilderFields
  <2>3. builders = [c \in Builders |-> builders[c]]
      BY DEF LedgerInv, BuildersOK
  <2>4. [old EXCEPT !.records = records, !.last = last] = new
    <3> HIDE DEF records, last
    <3> QED BY <2>2, BuilderUpdates, Zenon
  <2> HIDE DEF records, last
  <2> QED BY <2>1, <2>3, <2>4
<1>3. /\ new.id = old.id /\ new.created = old.created /\ new.previous = old.previous
      /\ new.starting = old.starting /\ new.records = records /\ new.last = last
      /\ new = [id |-> new.id, created |-> new.created, previous |-> new.previous,
                starting |-> new.starting, records |-> new.records, last |-> new.last]
    OBVIOUS
<1>4. /\ Recorded(old.records) /\ Grown(old.starting, old.records)
      /\ old.last = EndingOf(old.starting, old.records)
      /\ Attached(old) /\ old.created \in Nat
    BY <1>1 DEF BuilderOK
<1>5. /\ Follows(o, PointOf(EndingOf(old.starting, old.records), o.source))
      /\ \A i \in DOMAIN old.records : ~SameIdentity(old.records[i], o)
      /\ Len(old.records) < MaxSegmentRecords
    BY <1>4 DEF AppendRecord
<1>6. Recorded(records) /\ Grown(old.starting, records)
    BY <1>4, <1>5, RecordsGrow
<1>7. Len(records) <= MaxSegmentRecords
  <2>1. Len(records) = Len(old.records) + 1 /\ Len(old.records) \in Nat
      BY <1>4, AppendProperties, LenProperties DEF Recorded
  <2> QED BY <1>5, <2>1, LedgerAssumption
<1>8. last = EndingOf(old.starting, records)
    BY <1>4, EndingGrows
<1> HIDE DEF new, records, last
<1>9. BuilderOK(new)
  <2>1. Attached(new)
      BY <1>3, <1>4 DEF Attached
  <2> QED BY <1>3, <1>4, <1>6, <1>7, <1>8, <2>1 DEF BuilderOK
<1>10. BuildersOK'
    BY <1>2, <1>9, OtherBuilders DEF LedgerInv
<1> QED BY <1>10 DEF LedgerInv, AppendRecord, FilesOK, SealedOK

\* What is sealed is valid and attached to its predecessor (seal).
LEMMA SealKeeps == ASSUME LedgerInv, NEW b \in Builders, Seal(b) PROVE LedgerInv'
<1> DEFINE g == SegmentOf(builders[b])
<1>1. SegmentTyped(g) /\ ValidSegment(g) /\ Attached(g) /\ g # Genesis
  <2>1. Sealable(builders[b]) /\ BuilderOK(builders[b])
      BY DEF Seal, Sealable, LedgerInv, BuildersOK
  <2> QED BY <2>1, SealPasses
<1>2. /\ files' = files \cup {g} /\ sealed' = sealed \cup {g}
      /\ builders' = [builders EXCEPT ![b] = Idle]
    BY DEF Seal
<1> HIDE DEF g
<1>3. BuildersOK'
    BY <1>2, OtherBuilders DEF LedgerInv
<1>4. FilesOK'
    BY <1>1, <1>2 DEF LedgerInv, FilesOK
<1>5. SealedOK'
    BY <1>1, <1>2 DEF LedgerInv, SealedOK
<1> QED BY <1>3, <1>4, <1>5 DEF LedgerInv

\* A process that exits leaves nothing behind.
LEMMA ExitKeeps == ASSUME LedgerInv, NEW b \in Builders, Exit(b) PROVE LedgerInv'
<1>1. BuildersOK'
    BY OtherBuilders DEF LedgerInv, Exit
<1> QED BY <1>1 DEF LedgerInv, Exit, FilesOK, SealedOK

\* Whatever is made of a segment outside the ledger still parses as records.
LEMMA RewritesTyped ==
  ASSUME FilesOK, NEW g \in files, NEW r \in Rewrites(g)
  PROVE  SegmentTyped(r)
<1> DEFINE Made(p, starting, records) ==
             [id |-> g.id, created |-> g.created, previous |-> p, starting |-> starting,
              records |-> records, ending |-> EndingOf(starting, records)]
           Swapped(i) == [g.records EXCEPT ![i] = g.records[i + 1], ![i + 1] = g.records[i]]
<1>1. /\ g = [id |-> g.id, created |-> g.created, previous |-> g.previous,
              starting |-> g.starting, records |-> g.records, ending |-> g.ending]
      /\ g.created \in Nat /\ g.records \in Seq(Observations)
    BY DEF FilesOK, SegmentTyped, Recorded
<1>2. Len(g.records) \in Nat /\ \A i \in 1..Len(g.records) : g.records[i] \in Observations
    BY <1>1, LenProperties, ElementOfSeq
<1>3. ASSUME NEW p, NEW starting, NEW records \in Seq(Observations)
      PROVE  SegmentTyped(Made(p, starting, records))
    BY <1>1 DEF SegmentTyped, Recorded
<1>4. ASSUME NEW starting, NEW records
      PROVE  [g EXCEPT !.starting = starting, !.records = records,
                       !.ending = EndingOf(starting, records)] = Made(g.previous, starting, records)
  <2> DEFINE ending == EndingOf(starting, records)
  <2> HIDE DEF ending
  <2>1. [g EXCEPT !.starting = starting, !.records = records, !.ending = ending]
          = [id |-> g.id, created |-> g.created, previous |-> g.previous, starting |-> starting,
             records |-> records, ending |-> ending]
    <3>1. SegmentFields(g)
        BY <1>1 DEF SegmentFields
    <3> QED BY <3>1, SegmentUpdates, Zenon
  <2> QED BY <2>1 DEF ending
<1>5. ASSUME NEW i \in 1..Len(g.records) PROVE RemoveAt(g.records, i) \in Seq(Observations)
  <2>1. \A k \in 1..i - 1 : k \in 1..Len(g.records)
      BY <1>2
  <2>2. \A k \in i + 1..Len(g.records) : k \in 1..Len(g.records)
      BY <1>2
  <2>3. /\ SubSeq(g.records, 1, i - 1) \in Seq(Observations)
        /\ SubSeq(g.records, i + 1, Len(g.records)) \in Seq(Observations)
      BY <1>2, <2>1, <2>2, SubSeqProperties
  <2> QED BY <2>3, ConcatProperties DEF RemoveAt
<1>6. ASSUME NEW i \in 1..Len(g.records) - 1 PROVE Swapped(i) \in Seq(Observations)
  <2>1. i \in 1..Len(g.records) /\ i + 1 \in 1..Len(g.records)
      BY <1>2
  <2> DEFINE once == [g.records EXCEPT ![i] = g.records[i + 1]]
  <2>2. once \in Seq(Observations) /\ Len(once) = Len(g.records)
      BY <1>1, <1>2, <2>1, ExceptSeq
  <2> HIDE DEF once
  <2>3. [once EXCEPT ![i + 1] = g.records[i]] \in Seq(Observations)
      BY <1>2, <2>1, <2>2, ExceptSeq
  <2> QED BY <2>3 DEF once
<1>7. CASE \E i \in DOMAIN g.records : r = Made(g.previous, g.starting, RemoveAt(g.records, i))
  <2>1. PICK i \in 1..Len(g.records) : r = Made(g.previous, g.starting, RemoveAt(g.records, i))
      BY <1>1, <1>7, LenProperties
  <2> HIDE DEF Made
  <2> QED BY <1>3, <1>5, <2>1
<1>8. CASE \E i \in 1..Len(g.records) - 1 : r = Made(g.previous, g.starting, Swapped(i))
  <2> HIDE DEF Made, Swapped
  <2> QED BY <1>3, <1>6, <1>8
<1>9. CASE \E p \in files : r = [g EXCEPT !.previous = p]
  <2>1. PICK p \in files : r = [g EXCEPT !.previous = p]
      BY <1>9
  <2>2. r = [id |-> g.id, created |-> g.created, previous |-> p,
             starting |-> g.starting, records |-> g.records, ending |-> g.ending]
      BY <1>1, <2>1
  <2> QED BY <1>1, <2>2 DEF SegmentTyped, Recorded
<1>10. CASE \E p \in files : r = [Made(g.previous, p.ending, g.records) EXCEPT !.previous = p]
  <2>1. PICK p \in files : r = [Made(g.previous, p.ending, g.records) EXCEPT !.previous = p]
      BY <1>10
  <2>2. r = Made(p, p.ending, g.records)
      BY <2>1
  <2> HIDE DEF Made
  <2> QED BY <1>1, <1>3, <2>2
<1>11. \/ \E i \in DOMAIN g.records : r = Made(g.previous, g.starting, RemoveAt(g.records, i))
       \/ \E i \in 1..Len(g.records) - 1 : r = Made(g.previous, g.starting, Swapped(i))
       \/ \E p \in files : r = [g EXCEPT !.previous = p]
       \/ \E p \in files : r = [Made(g.previous, p.ending, g.records) EXCEPT !.previous = p]
  <2> DEFINE Rehashed(starting, records) ==
        [g EXCEPT !.starting = starting, !.records = records, !.ending = EndingOf(starting, records)]
  <2>1. \/ r \in {Rehashed(g.starting, RemoveAt(g.records, i)) : i \in DOMAIN g.records}
        \/ r \in {Rehashed(g.starting, Swapped(i)) : i \in 1..Len(g.records) - 1}
        \/ r \in {[g EXCEPT !.previous = p] : p \in files}
        \/ r \in {[Rehashed(p.ending, g.records) EXCEPT !.previous = p] : p \in files}
      BY Zenon DEF Rewrites
  <2>2. \A starting, records : Rehashed(starting, records) = Made(g.previous, starting, records)
      BY <1>4, Zenon
  <2> HIDE DEF Made, Rehashed, Swapped
  <2> QED BY <2>1, <2>2
<1> QED BY <1>7, <1>8, <1>9, <1>10, <1>11

\* A rewritten file is still one of records; what was sealed is remembered.
LEMMA RewriteKeeps == ASSUME LedgerInv, Rewrite PROVE LedgerInv'
<1>1. PICK g \in files : \E r \in Rewrites(g) : files' = (files \ {g}) \cup {r}
    BY DEF Rewrite
<1>a. PICK r \in Rewrites(g) : files' = (files \ {g}) \cup {r}
    BY <1>1
<1>2. SegmentTyped(r)
    BY RewritesTyped DEF LedgerInv
<1>3. FilesOK'
    BY <1>a, <1>2 DEF LedgerInv, FilesOK
<1> QED BY <1>3 DEF LedgerInv, Rewrite, BuildersOK, SealedOK

\* Every step of the ledger, and of whoever rewrites a file, keeps the invariant.
LEMMA LedgerInvPreserved == LedgerInv /\ [Next]_vars => LedgerInv'
<1> SUFFICES ASSUME LedgerInv, [Next]_vars PROVE LedgerInv'
    OBVIOUS
<1>1. CASE \E b \in Builders : Start(b) \/ Seal(b) \/ Exit(b)
    BY <1>1, StartKeeps, SealKeeps, ExitKeeps
<1>2. CASE \E b \in Builders, o \in Observations : AppendRecord(b, o)
    BY <1>2, AppendKeeps
<1>3. CASE Rewrite
    BY <1>3, RewriteKeeps
<1>4. CASE UNCHANGED vars
    BY <1>4 DEF vars, LedgerInv, FilesOK, BuildersOK, SealedOK
<1> QED BY <1>1, <1>2, <1>3, <1>4 DEF Next

\* The invariant holds of every behaviour.
LEMMA LedgerInvAlways == Spec => []LedgerInv
  BY LedgerInvInitially, LedgerInvPreserved, PTL DEF Spec

\* The chains that are read are sequences of files, as long as they say.
LEMMA ChainsTyped ==
  ASSUME FilesOK, NEW S, S \subseteq files, NEW chain \in SeqOf(S, MaxFiles)
  PROVE  ChainTyped(chain) /\ \A i \in 1..Len(chain) : chain[i] \in S
<1>1. PICK n \in 0..MaxFiles : chain \in [1..n -> S]
    BY DEF SeqOf
<1>2. n \in Nat
    BY LedgerAssumption
<1>3. Len(chain) = n /\ DOMAIN chain = 1..n
    BY <1>1, <1>2
<1>4. \A i \in 1..n : chain[i] \in S
    BY <1>1
<1> QED BY <1>2, <1>3, <1>4 DEF ChainTyped, FilesOK, SegmentTyped

-----------------------------------------------------------------------------
(* Theorems *)

\* Whatever is lost, reordered, forked or rewritten among the files: a chain that passes
\* validate_segment_chain has the records of each source gapless and in the order of time.
THEOREM ReplaysAreGapless == Spec => []ReplayIsGapless
<1>1. LedgerInv => ReplayIsGapless
  <2> SUFFICES ASSUME FilesOK, NEW chain \in Chains, NEW p \in Positions(chain)
               PROVE  /\ RecordAt(chain, p).sequence = Cardinality(Earlier(chain, p))
                      /\ \A q \in Earlier(chain, p) :
                           RecordAt(chain, q).time <= RecordAt(chain, p).time
      BY DEF LedgerInv, ReplayIsGapless
  <2>1. ValidChain(chain) /\ ChainTyped(chain)
      BY ChainsTyped DEF Chains
  <2> QED BY <2>1, ReplayedChainIsGapless
<1> QED BY <1>1, LedgerInvAlways, PTL

\* The checkpoints of the last manifest of such a chain are those of the last records of
\* every source in it, and it was created after them all.
THEOREM CheckpointsAlwaysSpeak == Spec => []CheckpointsSpeakForChain
<1>1. LedgerInv => CheckpointsSpeakForChain
  <2>1. ASSUME FilesOK, NEW chain \in Chains PROVE ValidChain(chain) /\ ChainTyped(chain)
      BY <2>1, ChainsTyped DEF Chains
  <2> QED BY <2>1, ReplayedCheckpointsSpeak DEF LedgerInv, CheckpointsSpeakForChain
<1> QED BY <1>1, LedgerInvAlways, PTL

\* What builders sealed one after the other passes replay, under distinct ids.
THEOREM BuiltChainsAlwaysReplay == Spec => []BuiltChainsReplay
<1>1. LedgerInv => BuiltChainsReplay
  <2> SUFFICES ASSUME FilesOK, SealedOK, NEW chain \in SeqOf(files \cap sealed, MaxFiles),
                      Linked(chain)
               PROVE  ValidChain(chain)
      BY DEF LedgerInv, BuiltChainsReplay
  <2>1. /\ Len(chain) \in Nat /\ DOMAIN chain = 1..Len(chain)
        /\ \A i \in 1..Len(chain) : chain[i] \in sealed
      BY ChainsTyped DEF ChainTyped
  <2>2. 1 \in 1..Len(chain) /\ chain[1].previous = Genesis
      BY <2>1 DEF Linked
  <2>3. \A i \in 1..Len(chain) : ValidSegment(chain[i]) /\ Attached(chain[i]) /\ chain[i] # Genesis
      BY <2>1 DEF SealedOK
  <2>4. chain[1].starting = NoCheckpoints
      BY <2>2, <2>3 DEF Attached
  <2>5. ASSUME NEW i \in 2..Len(chain)
        PROVE  chain[i].starting = chain[i - 1].ending /\ chain[i].created >= chain[i - 1].created
    <3>1. i \in 1..Len(chain) /\ i - 1 \in 1..Len(chain) /\ chain[i].previous = chain[i - 1]
        BY <2>1 DEF Linked
    <3> QED BY <2>3, <3>1 DEF Attached
  <2> QED BY <2>1, <2>3, <2>4, <2>5 DEF ValidChain
<1> QED BY <1>1, LedgerInvAlways, PTL

\* The validations of the manifest and the segment that seal builds never refuse what passed
\* its own checks: the running checkpoints of a builder are those of its records.
THEOREM SealsAreValid ==
  Spec => [](\A b \in Builders : Sealable(builders[b]) => ValidSegment(SegmentOf(builders[b])))
<1>1. LedgerInv => \A b \in Builders : Sealable(builders[b]) => ValidSegment(SegmentOf(builders[b]))
    BY SealPasses DEF LedgerInv, BuildersOK, Sealable
<1> QED BY <1>1, LedgerInvAlways, PTL
=============================================================================
