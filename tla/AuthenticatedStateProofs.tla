---------------------- MODULE AuthenticatedStateProofs ----------------------
(***************************************************************************)
(* Soundness of proof verification, for every trie, every node list that   *)
(* a source may present, all claims and all bounds; what it is worth to    *)
(* the reports that are built on it; and that these reports leave no route *)
(* out.                                                                    *)
(*                                                                         *)
(* The argument is that of the walk: at each turn the root holds a value   *)
(* under the whole key exactly if the node at hand holds it under what is  *)
(* left of the key.  One lemma per kind of node shows that a turn keeps    *)
(* this; at the end the node at hand is a value or a dead end.  A verdict  *)
(* therefore also says that the trie holds nothing else under the key,     *)
(* which is why a pool has one code and one word per slot.  Which lists    *)
(* are accepted follows from where the walk is: it has used the first      *)
(* names on the way along the key, and the rest of the way is below the    *)
(* node at hand.                                                           *)
(***************************************************************************)
EXTENDS OpportunitySearch, SequenceTheorems, FiniteSetTheorems, WellFoundedInduction, TLAPS

-----------------------------------------------------------------------------
(* The least natural number of a set.                                      *)
LEMMA LeastNatural ==
    ASSUME NEW S, S \subseteq Nat, S # {}
    PROVE  \E m \in S : \A n \in S : m <= n
<1>1. PICK m \in S : \A n \in S : ~(<<n, m>> \in OpToRel(<, Nat))
  BY NatLessThanWellFounded, WFMin
<1>2. \A n \in S : ~(n < m)
  BY <1>1 DEF OpToRel
<1>. QED
  BY <1>2

(* Keys: cutting a path off a key undoes lengthening it. *)
LEMMA ConcatCut ==
    ASSUME NEW p \in Seq(Nibbles), NEW s \in Seq(Nibbles), NEW r \in Seq(Nibbles)
    PROVE  p \o s = r <=> Follows(p, r) /\ After(p, r) = s
<1>1. /\ Len(p) \in Nat /\ Len(s) \in Nat /\ Len(r) \in Nat
      /\ \A i \in 1 .. Len(p) : p[i] \in Nibbles
      /\ \A i \in 1 .. Len(r) : r[i] \in Nibbles
  BY LenProperties, ElementOfSeq
<1>2. /\ p \o s \in Seq(Nibbles) /\ Len(p \o s) = Len(p) + Len(s)
      /\ \A i \in 1 .. Len(p) + Len(s) :
            (p \o s)[i] = IF i <= Len(p) THEN p[i] ELSE s[i - Len(p)]
  BY ConcatProperties
<1>a. ASSUME NEW k \in 1 .. Len(s)  PROVE (p \o s)[Len(p) + k] = s[k]
  <2>1. Len(p) + k \in 1 .. Len(p) + Len(s) /\ ~(Len(p) + k <= Len(p)) /\ Len(p) + k - Len(p) = k
    BY <1>1
  <2>2. ~(Len(p) + k <= Len(p)) => (p \o s)[Len(p) + k] = s[Len(p) + k - Len(p)]
    BY <1>2, <2>1
  <2>. QED
    BY <2>1, <2>2, Zenon
<1>3. ASSUME p \o s = r  PROVE Follows(p, r) /\ After(p, r) = s
  <2>1. Len(r) = Len(p) + Len(s)
    BY <1>2, <1>3
  <2>2. SubSeq(r, 1, Len(p)) = p
    <3>1. /\ SubSeq(r, 1, Len(p)) \in Seq(Nibbles)
          /\ Len(SubSeq(r, 1, Len(p))) = Len(p)
          /\ \A i \in 1 .. Len(p) : SubSeq(r, 1, Len(p))[i] = r[i]
      <4>1. \A i \in 1 .. Len(p) : r[i] \in Nibbles
        BY <1>1, <2>1
      <4>. QED
        BY <4>1, <1>1, SubSeqProperties
    <3>2. \A i \in 1 .. Len(p) : r[i] = p[i]
      BY <1>1, <1>2, <1>3
    <3>. QED
      BY <3>1, <3>2, SeqEqual
  <2>3. SubSeq(r, Len(p) + 1, Len(r)) = s
    <3>1. \A i \in (Len(p) + 1) .. Len(r) : r[i] \in Nibbles
      BY <1>1
    <3>2. /\ SubSeq(r, Len(p) + 1, Len(r)) \in Seq(Nibbles)
          /\ Len(SubSeq(r, Len(p) + 1, Len(r)))
               = IF Len(p) + 1 <= Len(r) THEN Len(r) - (Len(p) + 1) + 1 ELSE 0
          /\ \A i \in 1 .. Len(r) - (Len(p) + 1) + 1 :
                SubSeq(r, Len(p) + 1, Len(r))[i] = r[Len(p) + 1 + i - 1]
      <4>1. Len(p) + 1 \in Int /\ Len(r) \in Int
        BY <1>1
      <4>. QED
        BY <3>1, <4>1, SubSeqProperties
    <3>3. Len(SubSeq(r, Len(p) + 1, Len(r))) = Len(s)
      BY <3>2, <1>1, <2>1
    <3>4. \A i \in 1 .. Len(s) : SubSeq(r, Len(p) + 1, Len(r))[i] = s[i]
      <4>. SUFFICES ASSUME NEW i \in 1 .. Len(s)
                    PROVE SubSeq(r, Len(p) + 1, Len(r))[i] = s[i]
        OBVIOUS
      <4>1. Len(p) + 1 + i - 1 = Len(p) + i /\ i \in 1 .. Len(r) - (Len(p) + 1) + 1
        BY <1>1, <2>1
      <4>2. SubSeq(r, Len(p) + 1, Len(r))[i] = r[Len(p) + 1 + i - 1]
        BY <3>2, <4>1, Zenon
      <4>. QED
        BY <4>1, <4>2, <1>a, <1>3, Zenon
    <3>. QED
      BY <3>2, <3>3, <3>4, SeqEqual
  <2>. QED
    BY <2>1, <2>2, <2>3, <1>1 DEF Follows, After
<1>4. ASSUME Follows(p, r), After(p, r) = s  PROVE p \o s = r
  <2>1. Len(p) <= Len(r) /\ SubSeq(r, 1, Len(p)) = p /\ SubSeq(r, Len(p) + 1, Len(r)) = s
    BY <1>4 DEF Follows, After
  <2>2. 1 \in 1 .. Len(r) + 1 /\ Len(p) \in (1 - 1) .. Len(r) /\ Len(r) \in Len(p) .. Len(r)
    BY <1>1, <2>1
  <2>3. SubSeq(r, 1, Len(p)) \o SubSeq(r, Len(p) + 1, Len(r)) = SubSeq(r, 1, Len(r))
    BY <2>2, ConcatAdjacentSubSeq
  <2>. QED
    BY <2>1, <2>3, SubSeqFull
<1>. QED
  BY <1>3, <1>4

LEMMA AfterIsKey ==
    ASSUME NEW p \in Seq(Nibbles), NEW r \in Seq(Nibbles), Follows(p, r)
    PROVE  After(p, r) \in Seq(Nibbles)
<1>1. Len(p) + 1 \in Int /\ Len(r) \in Int /\ Len(p) \in Nat
  BY LenProperties
<1>2. \A i \in (Len(p) + 1) .. Len(r) : r[i] \in Nibbles
  <2>1. \A i \in 1 .. Len(r) : r[i] \in Nibbles
    BY ElementOfSeq
  <2>. QED
    BY <1>1, <2>1
<1>. QED
  BY <1>1, <1>2, SubSeqProperties DEF After

LEMMA HeadCut ==
    ASSUME NEW d \in Nibbles, NEW r \in Seq(Nibbles)
    PROVE  /\ Follows(<<d>>, r) <=> r # <<>> /\ Head(r) = d
           /\ r # <<>> => After(<<d>>, r) = Tail(r) /\ Head(r) \in Nibbles /\ Tail(r) \in Seq(Nibbles)
<1> SUFFICES ASSUME NEW p, p = <<d>>
             PROVE  /\ Follows(p, r) <=> r # <<>> /\ Head(r) = d
                    /\ r # <<>> => /\ After(p, r) = Tail(r)
                                   /\ Head(r) \in Nibbles /\ Tail(r) \in Seq(Nibbles)
  OBVIOUS
<1>1. p \in Seq(Nibbles) /\ Len(p) = 1 /\ p[1] = d
  OBVIOUS
<1>3. CASE r = <<>>
  BY <1>1, <1>3, EmptySeq DEF Follows
<1>4. CASE r # <<>>
  <2>1. Len(r) \in Nat \ {0}
    BY <1>4, EmptySeq
  <2>2. Tail(r) = SubSeq(r, 2, Len(r)) /\ Tail(r) \in Seq(Nibbles)
    BY <1>4, TailIsSubSeq, HeadTailProperties
  <2>3. /\ SubSeq(r, 1, 1) \in Seq(Nibbles) /\ Len(SubSeq(r, 1, 1)) = 1
        /\ SubSeq(r, 1, 1)[1] = r[1]
    <3>1. \A i \in 1 .. 1 : r[i] \in Nibbles
      BY <2>1, ElementOfSeq
    <3>. QED
      BY <3>1, SubSeqProperties
  <2>4. Head(r) = r[1] /\ Head(r) \in Nibbles
    BY <1>4, <2>1, ElementOfSeq
  <2>5. ASSUME Head(r) = d PROVE SubSeq(r, 1, 1) = p
    <3>1. \A i \in 1 .. 1 : SubSeq(r, 1, 1)[i] = p[i]
      BY <2>3, <2>4, <2>5, <1>1
    <3>. QED
      BY <3>1, <2>3, <1>1, SeqEqual
  <2>6. ASSUME SubSeq(r, 1, 1) = p PROVE Head(r) = d
    BY <2>3, <2>4, <2>6, <1>1
  <2>7. Follows(p, r) <=> SubSeq(r, 1, 1) = p
    BY <1>1, <2>1 DEF Follows
  <2>8. After(p, r) = SubSeq(r, 2, Len(r))
    BY <1>1 DEF After
  <2>. QED
    BY <1>4, <2>2, <2>4, <2>5, <2>6, <2>7, <2>8
<1>. QED
  BY <1>3, <1>4

-----------------------------------------------------------------------------
(* What a node commits to, seen from the key that is left. *)
LEMMA EntriesArePairs ==
    ASSUME NEW h \in Hashes, NEW e \in Entries[h]
    PROVE  e = <<e[1], e[2]>> /\ e[1] \in Seq(Nibbles)
<1> DEFINE n == Node[h]
<1>1. e \in Commits(n) /\ e[1] \in Seq(Nibbles)
  BY TrieAssumption
<1>2. ASSUME NEW path, NEW ref, e \in Below(path, ref) PROVE e = <<e[1], e[2]>>
  BY <1>2 DEF Below
<1>3. CASE n.kind = "leaf"
  BY <1>1, <1>3 DEF Commits
<1>4. CASE n.kind # "leaf" /\ n.kind = "extension"
  BY <1>1, <1>2, <1>4 DEF Commits
<1>5. CASE n.kind # "leaf" /\ n.kind # "extension"
  <2> DEFINE below == UNION {Below(<<d>>, n.children[d]) : d \in Nibbles}
             here == IF n.value = Empty THEN {} ELSE {<<<<>>, n.value>>}
  <2>1. e \in below \cup here
    BY <1>1, <1>5 DEF Commits
  <2>2. CASE e \in below
    <3>1. PICK d \in Nibbles : e \in Below(<<d>>, n.children[d])
      BY <2>2, Zenon
    <3>. QED
      BY <1>1, <3>1, <1>2, Zenon
  <2>3. CASE e \in here
    <3>1. e = <<<<>>, n.value>>
      BY <2>3
    <3>. QED
      BY <1>1, <3>1
  <2> HIDE DEF below, here
  <2>. QED
    BY <2>1, <2>2, <2>3, Zenon
<1>. QED
  BY <1>1, <1>3, <1>4, <1>5

LEMMA BelowCut ==
    ASSUME NEW ref \in Reference, NEW p \in Seq(Nibbles), NEW r \in Seq(Nibbles), NEW v
    PROVE  <<r, v>> \in Below(p, ref) <=>
             Follows(p, r) /\ <<After(p, r), v>> \in Entries[ref.to]
<1>1. ref # Empty /\ ref.to \in Hashes
  BY TrieAssumption DEF Reference
<1>2. Below(p, ref) = {<<p \o e[1], e[2]>> : e \in Entries[ref.to]}
  BY <1>1 DEF Below
<1>3. ASSUME <<r, v>> \in Below(p, ref)
      PROVE  Follows(p, r) /\ <<After(p, r), v>> \in Entries[ref.to]
  <2>1. PICK e \in Entries[ref.to] : r = p \o e[1] /\ v = e[2]
    BY <1>2, <1>3
  <2>2. e = <<e[1], e[2]>> /\ e[1] \in Seq(Nibbles)
    BY <1>1, EntriesArePairs
  <2>3. Follows(p, r) /\ After(p, r) = e[1]
    BY <2>1, <2>2, ConcatCut
  <2>. QED
    BY <2>1, <2>2, <2>3
<1>4. ASSUME Follows(p, r), <<After(p, r), v>> \in Entries[ref.to]
      PROVE  <<r, v>> \in Below(p, ref)
  <2>1. After(p, r) \in Seq(Nibbles)
    BY <1>1, <1>4, EntriesArePairs
  <2>2. p \o After(p, r) = r
    BY <1>4, <2>1, ConcatCut
  <2> DEFINE e == <<After(p, r), v>>
  <2>3. e \in Entries[ref.to] /\ e[1] = After(p, r) /\ e[2] = v
    BY <1>4
  <2>4. <<p \o e[1], e[2]>> \in Below(p, ref)
    <3> HIDE DEF e
    <3>. QED
      BY <1>2, <2>3, Zenon
  <2>. QED
    BY <2>2, <2>3, <2>4, Zenon
<1>. QED
  BY <1>3, <1>4

LEMMA NodeKinds ==
    ASSUME NEW h \in Hashes
    PROVE  /\ Node[h].kind = "branch" => Node[h] \in Branch
           /\ Node[h].kind = "extension" => Node[h] \in Extension
           /\ Node[h].kind = "leaf" => Node[h] \in Leaf
           /\ Node[h].kind \in {"branch", "extension", "leaf"}
           /\ Entries[h] = Commits(Node[h])
BY TrieAssumption DEF Branch, Extension, Leaf

LEMMA LeafCut ==
    ASSUME NEW h \in Hashes, Node[h].kind = "leaf", NEW r \in Seq(Nibbles), NEW v
    PROVE  <<r, v>> \in Entries[h] <=>
             Follows(Node[h].path, r) /\ After(Node[h].path, r) = <<>> /\ v = Node[h].value
<1> DEFINE n == Node[h]
<1>1. n.path \in Seq(Nibbles)
  BY NodeKinds DEF Leaf
<1>2. Entries[h] = {<<n.path, n.value>>}
  BY NodeKinds DEF Commits
<1>3. n.path \o <<>> = n.path /\ <<>> \in Seq(Nibbles)
  BY <1>1, ConcatEmptySeq, EmptySeq
<1>4. n.path = r <=> Follows(n.path, r) /\ After(n.path, r) = <<>>
  <2> DEFINE p == n.path
             s == <<>>
  <2>1. p \in Seq(Nibbles) /\ s \in Seq(Nibbles) /\ p \o s = p
    BY <1>1, <1>3
  <2> HIDE DEF p, s
  <2>2. p \o s = r <=> Follows(p, r) /\ After(p, r) = s
    BY <2>1, ConcatCut
  <2>. QED
    BY <2>1, <2>2 DEF p, s
<1>5. <<r, v>> \in Entries[h] <=> r = n.path /\ v = n.value
  BY <1>2
<1>. QED
  BY <1>4, <1>5, Zenon

LEMMA ExtensionCut ==
    ASSUME NEW h \in Hashes, Node[h].kind = "extension", NEW r \in Seq(Nibbles), NEW v
    PROVE  <<r, v>> \in Entries[h] <=>
             /\ Follows(Node[h].path, r) /\ Node[h].child # Empty
             /\ <<After(Node[h].path, r), v>> \in Entries[Node[h].child.to]
<1>1. Node[h].path \in Seq(Nibbles) /\ Node[h].child \in Reference \cup {Empty}
  BY NodeKinds DEF Extension
<1>2. Entries[h] = Below(Node[h].path, Node[h].child)
  BY NodeKinds DEF Commits
<1>3. CASE Node[h].child = Empty
  BY <1>2, <1>3 DEF Below
<1>4. CASE Node[h].child # Empty
  BY <1>1, <1>2, <1>4, BelowCut
<1>. QED
  BY <1>3, <1>4

LEMMA BranchCut ==
    ASSUME NEW h \in Hashes, Node[h].kind = "branch", NEW r \in Seq(Nibbles), NEW v
    PROVE  <<r, v>> \in Entries[h] <=>
             \/ r = <<>> /\ Node[h].value # Empty /\ v = Node[h].value
             \/ /\ r # <<>> /\ Node[h].children[Head(r)] # Empty
                /\ <<Tail(r), v>> \in Entries[Node[h].children[Head(r)].to]
<1> DEFINE n == Node[h]
           down == UNION {Below(<<d>>, n.children[d]) : d \in Nibbles}
           here == IF n.value = Empty THEN {} ELSE {<<<<>>, n.value>>}
<1>1. \A d \in Nibbles : n.children[d] \in Reference \cup {Empty}
  BY NodeKinds DEF Branch
<1>2. Entries[h] = down \cup here
  BY NodeKinds DEF Commits
<1>3. <<r, v>> \in here <=> r = <<>> /\ n.value # Empty /\ v = n.value
  OBVIOUS
<1>4. ASSUME NEW d \in Nibbles
      PROVE  <<r, v>> \in Below(<<d>>, n.children[d]) <=>
               /\ r # <<>> /\ Head(r) = d /\ n.children[d] # Empty
               /\ <<Tail(r), v>> \in Entries[n.children[d].to]
  <2> DEFINE ref == n.children[d]
             p == <<d>>
  <2>1. CASE ref = Empty
    BY <2>1 DEF Below
  <2>2. CASE ref # Empty
    <3>1. ref \in Reference /\ p \in Seq(Nibbles)
      BY <1>1, <2>2
    <3>2. /\ Follows(p, r) <=> r # <<>> /\ Head(r) = d
          /\ r # <<>> => After(p, r) = Tail(r)
      BY HeadCut
    <3> HIDE DEF ref, p
    <3>3. <<r, v>> \in Below(p, ref) <=>
            Follows(p, r) /\ <<After(p, r), v>> \in Entries[ref.to]
      BY <3>1, BelowCut
    <3>4. <<r, v>> \in Below(p, ref) <=>
            r # <<>> /\ Head(r) = d /\ <<Tail(r), v>> \in Entries[ref.to]
      BY <3>2, <3>3, Zenon
    <3>. QED
      BY <3>4, <2>2 DEF ref, p
  <2>. QED
    BY <2>1, <2>2
<1>5. <<r, v>> \in down <=> \E d \in Nibbles : <<r, v>> \in Below(<<d>>, n.children[d])
  BY Zenon
<1>6. r # <<>> => Head(r) \in Nibbles
  <2>1. ASSUME r # <<>> PROVE Head(r) \in Nibbles
    BY <2>1, HeadTailProperties
  <2>. QED
    BY <2>1
<1> HIDE DEF down, here, n
<1>7. <<r, v>> \in down <=> /\ r # <<>> /\ n.children[Head(r)] # Empty
                            /\ <<Tail(r), v>> \in Entries[n.children[Head(r)].to]
  BY <1>4, <1>5, <1>6, Zenon
<1>. QED
  BY <1>2, <1>3, <1>7 DEF n

-----------------------------------------------------------------------------
(* The walk. *)

Walks(w) ==
    w = [phase |-> w.phase, root |-> w.root, key |-> w.key, nodes |-> w.nodes, at |-> w.at,
         remaining |-> w.remaining, used |-> w.used, value |-> w.value, terminal |-> w.terminal]

(* The node at hand answers for the root. *)
OnTheWay(w) ==
    /\ w.remaining \in Seq(Nibbles)
    /\ Range(w.nodes) \subseteq Hashes
    /\ w.at \in Reference \cup {Empty, [to |-> w.root, embedded |-> FALSE]}
    /\ \A v : <<w.key, v>> \in EntriesOf(w.root) <=>
              w.at # Empty /\ <<w.remaining, v>> \in EntriesOf(w.at.to)

Verdict(w) ==
    /\ Found(w) => \A v : <<w.key, v>> \in EntriesOf(w.root) <=> v = w.value
    /\ ~Found(w) => \A v : <<w.key, v>> \notin EntriesOf(w.root)

WalkInv ==
    walk = NoWalk \/ /\ Walks(walk)
                     /\ walk.phase = "walking" => OnTheWay(walk)
                     /\ walk.phase = "verified" => Verdict(walk)

(* The node that a step of the walk visits. *)
LEMMA VisitedIsNode ==
    ASSUME WalkInv, NEW kind, Visit(kind)
    PROVE  /\ walk # NoWalk /\ Walks(walk) /\ OnTheWay(walk)
           /\ walk.at # Empty /\ walk.at.to \in Hashes
           /\ EntriesOf(walk.at.to) = Entries[walk.at.to]
<1>1. walk # NoWalk /\ Walks(walk) /\ OnTheWay(walk) /\ walk.at # Empty
  BY DEF WalkInv, Visit, NoWalk, Resolves
<1>2. CASE walk.at \in Reference
  BY <1>1, <1>2 DEF Reference, EntriesOf
<1>3. CASE walk.at \notin Reference
  <2>1. ~walk.at.embedded
    BY <1>1, <1>3 DEF OnTheWay
  <2>2. walk.at.to \in Range(walk.nodes)
    BY <2>1 DEF Visit, Resolves
  <2>. QED
    BY <1>1, <2>2 DEF OnTheWay, EntriesOf
<1>. QED
  BY <1>1, <1>2, <1>3

(* The end of a walk: the node at hand decides. *)
LEMMA StopDecides ==
    ASSUME Walks(walk), OnTheWay(walk), walk.at # Empty, NEW terminal, NEW value,
           Stop(terminal, value),
           terminal \in {"found-leaf", "found-branch-value"} =>
               \A v : <<walk.remaining, v>> \in EntriesOf(walk.at.to) <=> v = value,
           terminal \notin {"found-leaf", "found-branch-value"} =>
               \A v : <<walk.remaining, v>> \notin EntriesOf(walk.at.to)
    PROVE  WalkInv'
<1>1. /\ walk'.phase \in {"verified", "refused"} /\ Walks(walk')
      /\ walk'.root = walk.root /\ walk'.key = walk.key
      /\ walk'.value = value /\ walk'.terminal = terminal
  BY DEF Stop, Walks
<1>2. Verdict(walk')
  BY <1>1, Zenon DEF OnTheWay, Verdict, Found
<1>. QED
  BY <1>1, <1>2 DEF WalkInv

(* A turn of the walk: the child answers for its parent. *)
LEMMA DescendAnswers ==
    ASSUME Walks(walk), OnTheWay(walk), walk.at # Empty,
           NEW ref \in Reference \cup {Empty}, NEW rest \in Seq(Nibbles),
           walk.phase = "walking", Descend(ref, rest),
           \A v : <<walk.remaining, v>> \in EntriesOf(walk.at.to) <=>
                      ref # Empty /\ <<rest, v>> \in Entries[ref.to]
    PROVE  WalkInv'
<1>1. /\ walk'.phase = "walking" /\ Walks(walk')
      /\ walk'.root = walk.root /\ walk'.key = walk.key /\ walk'.nodes = walk.nodes
      /\ walk'.at = ref /\ walk'.remaining = rest
  BY DEF Descend, Walks
<1>2. ref # Empty => EntriesOf(ref.to) = Entries[ref.to]
  BY DEF Reference, EntriesOf
<1>3. \A v : <<walk.key, v>> \in EntriesOf(walk.root) <=>
                ref # Empty /\ <<rest, v>> \in EntriesOf(ref.to)
  BY <1>2, Zenon DEF OnTheWay
<1>4. OnTheWay(walk')
  <2>1. Range(walk.nodes) \subseteq Hashes
    BY DEF OnTheWay
  <2>. QED
    BY <1>1, <1>3, <2>1 DEF OnTheWay
<1>. QED
  BY <1>1, <1>4 DEF WalkInv

LEMMA PresentStarts ==
    ASSUME NEW root, NEW key \in Seq(Nibbles), NEW list, Present(root, key, list)
    PROVE  /\ WalkInv' /\ walk'.root = root /\ walk'.key = key
<1>1. /\ Walks(walk') /\ walk'.root = root /\ walk'.key = key /\ walk'.nodes = list
      /\ walk'.at = [to |-> root, embedded |-> FALSE] /\ walk'.remaining = key
      /\ walk'.phase = "walking" => Presentable(root, list) /\ root # EmptyRoot
      /\ walk'.phase = "verified" => root = EmptyRoot
      /\ root = EmptyRoot => walk'.terminal = "absent-empty-trie"
  BY DEF Present, Walks
<1>2. ASSUME walk'.phase = "walking" PROVE OnTheWay(walk')
  <2>1. Range(list) \subseteq Hashes
    BY <1>1, <1>2 DEF Presentable, WellShaped, Range
  <2>2. root \in Hashes => [to |-> root, embedded |-> FALSE] # Empty
    <3>1. root \in Hashes => [to |-> root, embedded |-> FALSE] \in Reference
      BY DEF Reference
    <3>2. Empty \notin Reference
      BY TrieAssumption
    <3>. QED
      BY <3>1, <3>2
  <2>3. \A v : <<key, v>> \in EntriesOf(root) <=>
                  walk'.at # Empty /\ <<key, v>> \in EntriesOf(root)
    BY <1>1, <2>2 DEF EntriesOf
  <2>4. walk'.at.to = root
    BY <1>1
  <2>. QED
    BY <1>1, <2>1, <2>3, <2>4 DEF OnTheWay
<1>3. ASSUME walk'.phase = "verified" PROVE Verdict(walk')
  BY <1>1, <1>3, TrieAssumption DEF Verdict, Found, EntriesOf
<1>. QED
  BY <1>1, <1>2, <1>3 DEF WalkInv

LEMMA AtLeafKeeps ==
    ASSUME WalkInv, AtLeaf
    PROVE  WalkInv' /\ walk'.root = walk.root /\ walk'.key = walk.key
<1> DEFINE n == Node[walk.at.to]
           r == walk.remaining
<1>1. /\ Walks(walk) /\ OnTheWay(walk) /\ walk.at # Empty /\ walk.at.to \in Hashes
      /\ EntriesOf(walk.at.to) = Entries[walk.at.to] /\ n.kind = "leaf"
  BY VisitedIsNode DEF AtLeaf, Visit
<1>2. r \in Seq(Nibbles)
  BY <1>1 DEF OnTheWay
<1>3. \A v : <<r, v>> \in EntriesOf(walk.at.to) <=>
                Follows(n.path, r) /\ After(n.path, r) = <<>> /\ v = n.value
  BY <1>1, <1>2, LeafCut
<1>same. walk'.root = walk.root /\ walk'.key = walk.key
  BY <1>1 DEF AtLeaf, Stop, Walks
<1>4. CASE ~Follows(n.path, r) /\ Stop("absent-path-divergence", Empty)
  BY <1>1, <1>3, <1>4, <1>same, StopDecides
<1>5. CASE Follows(n.path, r) /\ After(n.path, r) # <<>> /\ Stop("absent-leaf-remainder", Empty)
  BY <1>1, <1>3, <1>5, <1>same, StopDecides
<1>6. CASE Follows(n.path, r) /\ After(n.path, r) = <<>> /\ Stop("found-leaf", n.value)
  BY <1>1, <1>3, <1>6, <1>same, StopDecides
<1>. QED
  BY <1>4, <1>5, <1>6 DEF AtLeaf

LEMMA AtExtensionKeeps ==
    ASSUME WalkInv, AtExtension
    PROVE  WalkInv' /\ walk'.root = walk.root /\ walk'.key = walk.key
<1> DEFINE n == Node[walk.at.to]
           r == walk.remaining
<1>1. /\ Walks(walk) /\ OnTheWay(walk) /\ walk.at # Empty /\ walk.at.to \in Hashes
      /\ EntriesOf(walk.at.to) = Entries[walk.at.to] /\ n.kind = "extension"
      /\ walk.phase = "walking"
  BY VisitedIsNode DEF AtExtension, Visit
<1>2. r \in Seq(Nibbles) /\ n.path \in Seq(Nibbles) /\ n.child \in Reference \cup {Empty}
  BY <1>1, NodeKinds DEF OnTheWay, Extension
<1>3. \A v : <<r, v>> \in EntriesOf(walk.at.to) <=>
                /\ Follows(n.path, r) /\ n.child # Empty
                /\ <<After(n.path, r), v>> \in Entries[n.child.to]
  BY <1>1, <1>2, ExtensionCut
<1>same. walk'.root = walk.root /\ walk'.key = walk.key
  BY <1>1 DEF AtExtension, Stop, Descend, Walks
<1>4. CASE ~Follows(n.path, r) /\ Stop("absent-path-divergence", Empty)
  BY <1>1, <1>3, <1>4, <1>same, StopDecides
<1>5. CASE Follows(n.path, r) /\ Descend(n.child, After(n.path, r))
  <2>1. After(n.path, r) \in Seq(Nibbles)
    BY <1>2, <1>5, AfterIsKey
  <2>. QED
    BY <1>1, <1>2, <1>3, <1>5, <2>1, <1>same, DescendAnswers
<1>. QED
  BY <1>4, <1>5 DEF AtExtension

LEMMA AtBranchKeeps ==
    ASSUME WalkInv, AtBranch
    PROVE  WalkInv' /\ walk'.root = walk.root /\ walk'.key = walk.key
<1> DEFINE n == Node[walk.at.to]
           r == walk.remaining
           child == n.children[Head(r)]
<1>1. /\ Walks(walk) /\ OnTheWay(walk) /\ walk.at # Empty /\ walk.at.to \in Hashes
      /\ EntriesOf(walk.at.to) = Entries[walk.at.to] /\ n.kind = "branch"
      /\ walk.phase = "walking"
  BY VisitedIsNode DEF AtBranch, Visit
<1>2. r \in Seq(Nibbles) /\ \A d \in Nibbles : n.children[d] \in Reference \cup {Empty}
  BY <1>1, NodeKinds DEF OnTheWay, Branch
<1>3. \A v : <<r, v>> \in EntriesOf(walk.at.to) <=>
                \/ r = <<>> /\ n.value # Empty /\ v = n.value
                \/ r # <<>> /\ child # Empty /\ <<Tail(r), v>> \in Entries[child.to]
  BY <1>1, <1>2, BranchCut
<1>4. r # <<>> => child \in Reference \cup {Empty} /\ Tail(r) \in Seq(Nibbles)
  BY <1>2, HeadTailProperties
<1>same. walk'.root = walk.root /\ walk'.key = walk.key
  BY <1>1 DEF AtBranch, Stop, Descend, Walks
<1> HIDE DEF n, r, child
<1>5. CASE r = <<>> /\ n.value # Empty /\ Stop("found-branch-value", n.value)
  BY <1>1, <1>3, <1>5, <1>same, StopDecides DEF r
<1>6. CASE r = <<>> /\ n.value = Empty /\ Stop("absent-branch-value", Empty)
  BY <1>1, <1>3, <1>6, <1>same, StopDecides DEF r
<1>7. CASE r # <<>> /\ child = Empty /\ Stop("absent-branch-child", Empty)
  BY <1>1, <1>3, <1>7, <1>same, StopDecides DEF r
<1>8. CASE r # <<>> /\ child # Empty /\ Descend(child, Tail(r))
  BY <1>1, <1>3, <1>4, <1>8, <1>same, DescendAnswers DEF r
<1>. QED
  BY <1>5, <1>6, <1>7, <1>8 DEF AtBranch, n, r, child

LEMMA UnresolvedKeeps ==
    ASSUME WalkInv, Unresolved
    PROVE  WalkInv' /\ walk'.root = walk.root /\ walk'.key = walk.key
<1>1. Walks(walk) /\ walk' = [walk EXCEPT !.phase = "refused"]
  BY DEF WalkInv, Unresolved, NoWalk
<1>. QED
  BY <1>1 DEF WalkInv, Walks

(* Whatever step a walk takes, it stays true to its root and key.          *)
LEMMA WalkStepKeeps ==
    ASSUME WalkInv, WalkStep
    PROVE  WalkInv' /\ walk'.root = walk.root /\ walk'.key = walk.key
BY AtBranchKeeps, AtExtensionKeeps, AtLeafKeeps, UnresolvedKeeps DEF WalkStep

-----------------------------------------------------------------------------
(* The verification of a proof observation. *)

Jobs(j) ==
    j = [stage |-> j.stage, anchor |-> j.anchor, proof |-> j.proof,
         exists |-> j.exists, included |-> j.included]

(* A trie holds at most one value under a key that was verified. *)
OnlyAccount(p) ==
    \A v : <<AccountKey[p.address], v>> \in EntriesOf(p.root) => v = Account(p.account)

OnlyWord(p, k) ==
    \A v : <<SlotKey[p.slots[k].slot], v>> \in EntriesOf(p.account.storage)
              => v = Word(p.slots[k].value)

(* The claims that were checked so far hold. *)
Checked(j) ==
    /\ j.proof \in Proofs /\ j.proof.root = j.anchor.state.root
    /\ j.stage \in Nat /\ j.stage <= Len(j.proof.slots) + 1
    /\ j.stage > 0 => AccountHolds(j.proof, j.exists) /\ OnlyAccount(j.proof)
    /\ j.included \in Seq(BOOLEAN)
    /\ Len(j.included) = IF j.stage = 0 THEN 0 ELSE j.stage - 1
    /\ \A k \in 1 .. Len(j.included) : /\ SlotHolds(j.proof, k, j.included[k])
                                       /\ OnlyWord(j.proof, k)

JobInv ==
    /\ job # NoJob => Jobs(job) /\ Checked(job)
    /\ walk # NoWalk => Pending /\ walk.root = JobRoot /\ walk.key = JobKey

EvidenceInv ==
    \A e \in evidence :
        /\ e.proof \in Proofs /\ OnlyAccount(e.proof)
        /\ DOMAIN e.included = DOMAIN e.proof.slots
        /\ \A k \in DOMAIN e.proof.slots : OnlyWord(e.proof, k)

IInv == WalkInv /\ JobInv /\ ProofsTellTheState /\ EvidenceInv

LEMMA ClaimsAreKeys ==
    ASSUME NEW p \in Proofs
    PROVE  /\ Len(p.slots) \in Nat /\ DOMAIN p.slots = 1 .. Len(p.slots)
           /\ AccountKey[p.address] \in Seq(Nibbles)
           /\ \A k \in 1 .. Len(p.slots) : SlotKey[p.slots[k].slot] \in Seq(Nibbles)
<1>1. p.slots \in Seq([slot : DOMAIN SlotKey, value : Nat])
  BY StateAssumption DEF IsStateProof
<1>2. Len(p.slots) \in Nat /\ DOMAIN p.slots = 1 .. Len(p.slots)
  BY <1>1, LenProperties
<1>. QED
  BY <1>2, StateAssumption

LEMMA JobKeyIsKey ==
    ASSUME JobInv, Pending
    PROVE  JobKey \in Seq(Nibbles)
<1>1. job.proof \in Proofs /\ job.stage \in Nat /\ job.stage <= Len(job.proof.slots)
  BY DEF JobInv, Pending, Checked, Claims
<1>2. CASE job.stage = 0
  BY <1>1, <1>2, ClaimsAreKeys DEF JobKey
<1>3. CASE job.stage # 0
  <2>1. job.stage \in 1 .. Len(job.proof.slots)
    BY <1>1, <1>3, ClaimsAreKeys
  <2>. QED
    BY <1>1, <1>3, <2>1, ClaimsAreKeys DEF JobKey, Claims
<1>. QED
  BY <1>2, <1>3

LEMMA NoEntry ==
    ASSUME NEW root, NEW key, \A v : <<key, v>> \notin EntriesOf(root)
    PROVE  ~HasEntry(root, key)
<1> SUFFICES ASSUME NEW e \in EntriesOf(root), e[1] = key PROVE FALSE
  BY DEF HasEntry
<1>1. root \in Hashes /\ e \in Entries[root]
  BY DEF EntriesOf
<1>2. e = <<e[1], e[2]>>
  BY <1>1, EntriesArePairs
<1>. QED
  BY <1>2

(* The proof observation that is begun stays the same until it is done.    *)
LEMMA BeginKeeps ==
    ASSUME IInv, NEW a, NEW p \in Proofs, BeginProof(a, p)
    PROVE  IInv'
<1>1. /\ job' = [stage |-> 0, anchor |-> a, proof |-> p, exists |-> FALSE, included |-> <<>>]
      /\ walk' = walk /\ evidence' = evidence /\ job = NoJob
  BY DEF BeginProof
<1>2. walk = NoWalk
  BY <1>1 DEF IInv, JobInv, Pending
<1>3. Jobs(job')
  BY <1>1 DEF Jobs
<1>4. Checked(job')
  <2>1. p.root = a.state.root
    BY DEF BeginProof, Binds
  <2>2. <<>> \in Seq(BOOLEAN) /\ Len(<<>>) = 0
    OBVIOUS
  <2>3. Len(p.slots) \in Nat
    BY ClaimsAreKeys
  <2>4. job'.included = <<>> /\ job'.stage = 0 /\ job'.proof = p /\ job'.anchor = a
    BY <1>1
  <2>. QED
    BY <2>1, <2>2, <2>3, <2>4 DEF Checked
<1>. QED
  BY <1>1, <1>2, <1>3, <1>4 DEF IInv, WalkInv, JobInv, ProofsTellTheState, EvidenceInv

LEMMA PresentNextKeeps ==
    ASSUME IInv, PresentNext
    PROVE  IInv'
<1>1. PICK list : Present(JobRoot, JobKey, list)
  BY DEF PresentNext
<1>2. JobKey \in Seq(Nibbles) /\ Pending /\ job' = job /\ evidence' = evidence
  BY JobKeyIsKey DEF IInv, PresentNext
<1>3. WalkInv' /\ walk'.root = JobRoot /\ walk'.key = JobKey
  BY <1>1, <1>2, PresentStarts
<1>. QED
  BY <1>2, <1>3 DEF IInv, JobInv, Pending, JobRoot, JobKey, Claims, ProofsTellTheState, EvidenceInv

LEMMA TakeWalkStepKeeps ==
    ASSUME IInv, TakeWalkStep
    PROVE  IInv'
<1>1. WalkStep /\ job' = job /\ evidence' = evidence
  BY DEF TakeWalkStep
<1>2. WalkInv' /\ walk'.root = walk.root /\ walk'.key = walk.key
  BY <1>1, WalkStepKeeps DEF IInv
<1>3. walk # NoWalk
  BY <1>1 DEF WalkStep, AtBranch, AtExtension, AtLeaf, Unresolved, Visit, NoWalk
<1>. QED
  BY <1>1, <1>2, <1>3 DEF IInv, JobInv, Pending, JobRoot, JobKey, Claims, ProofsTellTheState, EvidenceInv

LEMMA AcceptAccountKeeps ==
    ASSUME IInv, AcceptAccount
    PROVE  IInv'
<1>1. /\ walk.phase = "verified" /\ job.stage = 0 /\ AccountAgrees
      /\ job' = [job EXCEPT !.stage = 1, !.exists = Found(walk)]
      /\ walk' = NoWalk /\ evidence' = evidence
  BY DEF AcceptAccount, Agrees
<1>2. /\ walk # NoWalk /\ Verdict(walk) /\ Pending
      /\ walk.root = JobRoot /\ walk.key = JobKey
      /\ Jobs(job) /\ Checked(job)
  BY <1>1 DEF NoWalk, IInv, WalkInv, JobInv, Pending
<1>3. /\ Jobs(job') /\ job'.stage = 1 /\ job'.exists = Found(walk)
      /\ job'.anchor = job.anchor /\ job'.proof = job.proof /\ job'.included = job.included
  BY <1>1, <1>2 DEF Jobs
<1>4. job.proof \in Proofs /\ job.proof.root = job.anchor.state.root
  BY <1>2 DEF Checked
<1>5. walk.root = job.proof.root /\ walk.key = AccountKey[job.proof.address]
  BY <1>1, <1>2, <1>4 DEF JobRoot, JobKey
<1>6. AccountHolds(job.proof, Found(walk)) /\ OnlyAccount(job.proof)
  <2>1. CASE Found(walk)
    BY <1>1, <1>2, <1>5, <2>1 DEF Verdict, AccountAgrees, AccountHolds, OnlyAccount
  <2>2. CASE ~Found(walk)
    BY <1>1, <1>2, <1>5, <2>2, NoEntry DEF Verdict, AccountAgrees, AccountHolds, OnlyAccount
  <2>. QED
    BY <2>1, <2>2
<1>7. Checked(job')
  <2>1. Len(job.proof.slots) \in Nat
    BY <1>4, ClaimsAreKeys
  <2>2. /\ job.included \in Seq(BOOLEAN) /\ Len(job.included) = 0
        /\ \A k \in 1 .. Len(job.included) : /\ SlotHolds(job.proof, k, job.included[k])
                                             /\ OnlyWord(job.proof, k)
    BY <1>1, <1>2 DEF Checked
  <2>. QED
    BY <1>3, <1>4, <1>6, <2>1, <2>2 DEF Checked
<1>. QED
  BY <1>1, <1>3, <1>7 DEF IInv, WalkInv, JobInv, ProofsTellTheState, EvidenceInv

LEMMA AcceptSlotKeeps ==
    ASSUME IInv, AcceptSlot
    PROVE  IInv'
<1>1. /\ walk.phase = "verified" /\ job.stage > 0 /\ SlotAgrees
      /\ job' = [job EXCEPT !.stage = @ + 1, !.included = Append(@, Found(walk))]
      /\ walk' = NoWalk /\ evidence' = evidence
  BY DEF AcceptSlot, Agrees
<1>2. /\ walk # NoWalk /\ Verdict(walk) /\ Pending
      /\ walk.root = JobRoot /\ walk.key = JobKey
      /\ Jobs(job) /\ Checked(job)
  BY <1>1 DEF NoWalk, IInv, WalkInv, JobInv, Pending
<1> DEFINE p == job.proof
           s == job.stage
           found == Found(walk)
<1>3. /\ p \in Proofs /\ p.root = job.anchor.state.root
      /\ s \in Nat \ {0} /\ s <= Len(p.slots) /\ Len(p.slots) \in Nat
      /\ AccountHolds(p, job.exists) /\ OnlyAccount(p)
      /\ job.included \in Seq(BOOLEAN) /\ Len(job.included) = s - 1
      /\ \A k \in 1 .. (s - 1) : SlotHolds(p, k, job.included[k]) /\ OnlyWord(p, k)
  BY <1>1, <1>2, ClaimsAreKeys DEF Checked, Pending, Claims
<1>4. /\ Jobs(job') /\ job'.stage = s + 1 /\ job'.included = Append(job.included, found)
      /\ job'.anchor = job.anchor /\ job'.proof = p /\ job'.exists = job.exists
  BY <1>1, <1>2 DEF Jobs
<1>5. walk.root = p.account.storage /\ walk.key = SlotKey[p.slots[s].slot]
  BY <1>2, <1>3 DEF JobRoot, JobKey, Claims
<1>6. SlotHolds(p, s, found) /\ OnlyWord(p, s)
  <2>1. CASE found
    BY <1>1, <1>2, <1>5, <2>1 DEF Verdict, SlotAgrees, SlotHolds, OnlyWord, Claims
  <2>2. CASE ~found
    BY <1>1, <1>2, <1>5, <2>2, NoEntry DEF Verdict, SlotAgrees, SlotHolds, OnlyWord, Claims
  <2>. QED
    BY <2>1, <2>2
<1>7. found \in BOOLEAN
  BY DEF Found
<1> HIDE DEF p, s, found
<1>8. /\ Append(job.included, found) \in Seq(BOOLEAN)
      /\ Len(Append(job.included, found)) = s
      /\ \A k \in 1 .. s : Append(job.included, found)[k]
                              = IF k <= s - 1 THEN job.included[k] ELSE found
  BY <1>3, <1>7, AppendProperties
<1>9. ASSUME NEW k \in 1 .. s
      PROVE  SlotHolds(p, k, Append(job.included, found)[k]) /\ OnlyWord(p, k)
  <2>1. CASE k <= s - 1
    BY <1>3, <1>8, <2>1
  <2>2. CASE k = s
    <3>1. Append(job.included, found)[k] = found
      BY <1>3, <1>8, <2>2
    <3>. QED
      BY <1>6, <2>2, <3>1
  <2>. QED
    BY <1>3, <2>1, <2>2
<1>10. Checked(job')
  BY <1>3, <1>4, <1>8, <1>9 DEF Checked
<1>. QED
  BY <1>1, <1>4, <1>10 DEF IInv, WalkInv, JobInv, ProofsTellTheState, EvidenceInv

LEMMA RejectKeeps ==
    ASSUME IInv, Reject
    PROVE  IInv'
BY DEF Reject, IInv, WalkInv, JobInv, ProofsTellTheState, EvidenceInv

LEMMA ConcludeKeeps ==
    ASSUME IInv, Conclude
    PROVE  IInv'
<1> DEFINE e == [anchor |-> job.anchor, proof |-> job.proof,
                 exists |-> job.exists, included |-> job.included]
<1>1. /\ job # NoJob /\ ~Pending /\ job' = NoJob /\ walk' = walk
      /\ evidence' = evidence \cup {e}
  BY DEF Conclude
<1>2. walk = NoWalk /\ Checked(job)
  BY <1>1 DEF IInv, JobInv
<1>3. /\ job.proof \in Proofs /\ job.proof.root = job.anchor.state.root
      /\ Len(job.proof.slots) \in Nat /\ job.stage = Len(job.proof.slots) + 1
      /\ DOMAIN job.proof.slots = 1 .. Len(job.proof.slots)
  BY <1>1, <1>2, ClaimsAreKeys DEF Checked, Pending, Claims
<1>4. /\ AccountHolds(job.proof, job.exists) /\ OnlyAccount(job.proof)
      /\ \A k \in DOMAIN job.proof.slots : /\ SlotHolds(job.proof, k, job.included[k])
                                            /\ OnlyWord(job.proof, k)
  BY <1>2, <1>3 DEF Checked
<1>7. DOMAIN job.included = DOMAIN job.proof.slots
  BY <1>2, <1>3, LenProperties DEF Checked
<1>5. /\ e.proof = job.proof /\ e.anchor = job.anchor
      /\ e.exists = job.exists /\ e.included = job.included
  OBVIOUS
<1> HIDE DEF e
<1>6. ProofsTellTheState'
  BY <1>1, <1>3, <1>4, <1>5 DEF IInv, ProofsTellTheState
<1>8. EvidenceInv'
  BY <1>1, <1>3, <1>4, <1>5, <1>7 DEF IInv, EvidenceInv
<1>. QED
  BY <1>1, <1>2, <1>6, <1>8 DEF IInv, WalkInv, JobInv

-----------------------------------------------------------------------------
LEMMA InvHoldsInitially ==
    Init => IInv
<1> SUFFICES ASSUME Init PROVE IInv
  OBVIOUS
<1>1. walk = NoWalk /\ job = NoJob /\ evidence = {}
  BY DEF Init, StateInit
<1>. QED
  BY <1>1 DEF IInv, WalkInv, JobInv, ProofsTellTheState, EvidenceInv

(* Opening universes and searching them leaves verified evidence alone.    *)
LEMMA InvIsInductive ==
    IInv /\ [Next]_vars => IInv'
<1> SUFFICES ASSUME IInv, [Next]_vars PROVE IInv'
  OBVIOUS
<1>1. CASE StateNext
  <2>1. ASSUME NEW a, NEW p \in Proofs, BeginProof(a, p) PROVE IInv'
    BY <2>1, BeginKeeps
  <2>2. CASE Verify
    BY <2>2, PresentNextKeeps, TakeWalkStepKeeps, AcceptAccountKeeps, AcceptSlotKeeps,
       RejectKeeps, ConcludeKeeps DEF Verify
  <2>. QED
    BY <1>1, <2>1, <2>2 DEF StateNext
<1>2. CASE UNCHANGED stateVars
  BY <1>2 DEF stateVars, IInv, WalkInv, JobInv, ProofsTellTheState, EvidenceInv,
     Pending, JobRoot, JobKey, Claims
<1>3. CASE OpenUniverse
  BY <1>2, <1>3 DEF OpenUniverse, stateVars
<1>4. ASSUME NEW universe, NEW r, BeginSearch(universe, r) PROVE IInv'
  BY <1>2, <1>4 DEF BeginSearch, stateVars
<1>5. CASE Enumerate
  BY <1>2, <1>5 DEF Enumerate, OutOfWork, LookAtUsedPool, CloseCycle, LookAtVisitedToken,
     GoDeeper, GoBack, Look, stateVars
<1>6. CASE Report
  BY <1>2, <1>6 DEF Report, stateVars
<1>7. CASE UNCHANGED vars
  BY <1>2, <1>7 DEF vars, stateVars
<1>. QED
  BY <1>1, <1>3, <1>4, <1>5, <1>6, <1>7 DEF Next

LEMMA InvImpliesVerdicts ==
    IInv => VerdictsAreTrue
<1> SUFFICES ASSUME IInv, walk.phase = "verified"
             PROVE  /\ Found(walk) => <<walk.key, walk.value>> \in EntriesOf(walk.root)
                    /\ ~Found(walk) => \A e \in EntriesOf(walk.root) : e[1] # walk.key
  BY DEF VerdictsAreTrue
<1>1. Verdict(walk)
  BY DEF IInv, WalkInv, NoWalk
<1>. QED
  BY <1>1, NoEntry DEF Verdict, HasEntry

(* verify_mpt_proof never returns a false verdict: what a verified proof   *)
(* finds is in the trie, what it finds absent is not.                      *)
THEOREM VerdictsStayTrue == Spec => []VerdictsAreTrue
<1>1. Spec => []IInv
  BY InvHoldsInitially, InvIsInductive, PTL DEF Spec
<1>. QED
  BY <1>1, InvImpliesVerdicts, PTL

(* EvmStateProofEvidence repeats the state under the root of its anchor,   *)
(* account and slots, whatever a source presents in whatever order.        *)
THEOREM EvidenceTellsTheState == Spec => []ProofsTellTheState
<1>1. Spec => []IInv
  BY InvHoldsInitially, InvIsInductive, PTL DEF Spec
<1>2. IInv => ProofsTellTheState
  BY DEF IInv
<1>. QED
  BY <1>1, <1>2, PTL

-----------------------------------------------------------------------------
(* What is left of a key is a key of as many digits.                       *)
LEMMA LeftIsKey ==
    ASSUME NEW key \in Seq(Nibbles), NEW d \in 0 .. Len(key)
    PROVE  /\ Left(key, d) \in Seq(Nibbles) /\ Len(Left(key, d)) = d
           /\ \A i \in 1 .. d : Left(key, d)[i] = key[Len(key) - d + i]
<1>1. Len(key) \in Nat /\ \A i \in 1 .. Len(key) : key[i] \in Nibbles
  BY LenProperties, ElementOfSeq
<1> DEFINE a == Len(key) - d + 1
<1>2. a \in Int /\ a \in 1 .. Len(key) + 1 /\ Len(key) - a + 1 = d
  BY <1>1
<1>3. \A i \in a .. Len(key) : key[i] \in Nibbles
  BY <1>1, <1>2
<1> HIDE DEF a
<1>4. /\ SubSeq(key, a, Len(key)) \in Seq(Nibbles)
      /\ Len(SubSeq(key, a, Len(key))) = IF a <= Len(key) THEN Len(key) - a + 1 ELSE 0
      /\ \A i \in 1 .. Len(key) - a + 1 : SubSeq(key, a, Len(key))[i] = key[a + i - 1]
  BY <1>1, <1>2, <1>3, SubSeqProperties
<1>5. Len(SubSeq(key, a, Len(key))) = d
  BY <1>1, <1>2, <1>4
<1>6. \A i \in 1 .. d : a + i - 1 = Len(key) - d + i
  BY <1>1 DEF a
<1>7. Left(key, d) = SubSeq(key, a, Len(key))
  BY DEF Left, a
<1>. QED
  BY <1>2, <1>4, <1>5, <1>6, <1>7

(* Cutting a path off what is left of a key leaves what is left of it.     *)
LEMMA LeftAfter ==
    ASSUME NEW key \in Seq(Nibbles), NEW r, Len(r) \in 0 .. Len(key), r = Left(key, Len(r)),
           NEW n \in 0 .. Len(r)
    PROVE  /\ SubSeq(r, n + 1, Len(r)) = Left(key, Len(r) - n)
           /\ Len(SubSeq(r, n + 1, Len(r))) = Len(r) - n
<1> DEFINE d == Len(r)
           s == SubSeq(r, n + 1, Len(r))
           t == Left(key, d - n)
<1>1. Len(key) \in Nat /\ d \in Nat /\ n \in Nat /\ d <= Len(key) /\ n <= d
      /\ d - n \in 0 .. Len(key)
  BY LenProperties
<1>2. /\ r \in Seq(Nibbles) /\ Len(r) = d
      /\ \A i \in 1 .. d : r[i] = key[Len(key) - d + i]
  BY LeftIsKey
<1>len. Len(r) = d
  OBVIOUS
<1> HIDE DEF d
<1>3. /\ t \in Seq(Nibbles) /\ Len(t) = d - n
      /\ \A i \in 1 .. d - n : t[i] = key[Len(key) - (d - n) + i]
  BY <1>1, LeftIsKey
<1>4. \A i \in n + 1 .. d : r[i] \in Nibbles
  BY <1>1, <1>2, ElementOfSeq
<1>5. /\ s \in Seq(Nibbles)
      /\ Len(s) = IF n + 1 <= d THEN d - (n + 1) + 1 ELSE 0
      /\ \A i \in 1 .. d - (n + 1) + 1 : s[i] = r[n + 1 + i - 1]
  <2>1. n + 1 \in Int /\ d \in Int
    BY <1>1
  <2>. QED
    BY <1>2, <1>4, <1>len, <2>1, SubSeqProperties
<1> HIDE DEF s, t
<1>6. Len(s) = d - n
  BY <1>1, <1>5
<1>7. ASSUME NEW i \in 1 .. d - n PROVE s[i] = t[i]
  <2>1. i \in 1 .. d - (n + 1) + 1 /\ n + 1 + i - 1 = n + i /\ n + i \in 1 .. d
        /\ Len(key) - d + (n + i) = Len(key) - (d - n) + i
    BY <1>1
  <2>2. s[i] = r[n + i]
    BY <1>5, <2>1
  <2>3. r[n + i] = key[Len(key) - d + (n + i)]
    BY <1>2, <2>1
  <2>. QED
    BY <1>3, <2>1, <2>2, <2>3
<1>8. s = t
  BY <1>3, <1>5, <1>6, <1>7, SeqEqual
<1>. QED
  BY <1>6, <1>8 DEF s, t, d

-----------------------------------------------------------------------------
(* The way along a key (Spine). Its recursive definition is a table of     *)
(* what is below each node when so many digits of the key are left; each   *)
(* row reads rows for fewer digits only, so the table exists.              *)

(* Two tables agree on the rows for fewer than n digits.                   *)
AgreeBelow(f, g, n) == \A d \in 0 .. n - 1 : f[d] = g[d]

(* What is below a node depends on the entries for fewer digits only.      *)
LEMMA WayReads ==
    ASSUME NEW h \in Hashes, NEW r \in Seq(Nibbles), NEW f, NEW g, AgreeBelow(f, g, Len(r))
    PROVE  WayBelow(f, h, r) = WayBelow(g, h, r)
<1> DEFINE n == Node[h]
<1>1. Len(r) \in Nat
  BY LenProperties
<1>2. ASSUME NEW ref, NEW d \in 0 .. Len(r) - 1 PROVE Beyond(f, ref, d) = Beyond(g, ref, d)
  <2>1. f[d] = g[d]
    BY DEF AgreeBelow
  <2>. QED
    BY <2>1 DEF Beyond
<1>3. CASE n.kind = "leaf"
  BY <1>3 DEF WayBelow
<1>4. CASE n.kind = "extension"
  <2>1. n.path \in Seq(Nibbles)
    BY <1>4, NodeKinds DEF Extension
  <2>2. CASE n.path # <<>> /\ Follows(n.path, r)
    <3>1. Len(n.path) \in Nat \ {0} /\ Len(n.path) <= Len(r)
      BY <2>1, <2>2, EmptySeq, LenProperties DEF Follows
    <3>2. Len(r) - Len(n.path) \in 0 .. Len(r) - 1
      BY <1>1, <3>1
    <3>3. Beyond(f, n.child, Len(r) - Len(n.path)) = Beyond(g, n.child, Len(r) - Len(n.path))
      BY <1>2, <3>2
    <3>. QED
      BY <1>4, <2>2, <3>3 DEF WayBelow
  <2>3. CASE ~(n.path # <<>> /\ Follows(n.path, r))
    BY <1>4, <2>3 DEF WayBelow
  <2>. QED
    BY <2>2, <2>3
<1>5. CASE n.kind = "branch"
  <2>1. CASE r = <<>>
    BY <1>5, <2>1 DEF WayBelow
  <2>2. CASE r # <<>>
    <3>1. Len(r) - 1 \in 0 .. Len(r) - 1
      BY <1>1, <2>2, EmptySeq
    <3>2. Beyond(f, n.children[Head(r)], Len(r) - 1) = Beyond(g, n.children[Head(r)], Len(r) - 1)
      BY <1>2, <3>1
    <3>. QED
      BY <1>5, <2>2, <3>2 DEF WayBelow
  <2>. QED
    BY <2>1, <2>2
<1>. QED
  BY <1>3, <1>4, <1>5, NodeKinds

(* The entries for d digits, read from f.                                  *)
Row(key, f, d) == [h \in Hashes |-> WayBelow(f, h, Left(key, d))]

(* A table whose first n rows are as they should be.                       *)
Filled(key, f, n) == \A d \in 0 .. n - 1 : f[d] = Row(key, f, d)

(* So does a row of the table.                                             *)
LEMMA RowReads ==
    ASSUME NEW key \in Seq(Nibbles), NEW d \in 0 .. Len(key), NEW f, NEW g, AgreeBelow(f, g, d)
    PROVE  Row(key, f, d) = Row(key, g, d)
<1>1. Left(key, d) \in Seq(Nibbles) /\ Len(Left(key, d)) = d
  BY LeftIsKey
<1>2. ASSUME NEW h \in Hashes PROVE WayBelow(f, h, Left(key, d)) = WayBelow(g, h, Left(key, d))
  BY <1>1, WayReads
<1>. QED
  BY <1>2 DEF Row

(* One more row can be filled in.                                          *)
LEMMA TableGrows ==
    ASSUME NEW key \in Seq(Nibbles), NEW n \in 0 .. Len(key), NEW f, Filled(key, f, n)
    PROVE  \E g : Filled(key, g, n + 1)
<1> DEFINE g == [d \in 0 .. n |-> IF d < n THEN f[d] ELSE Row(key, f, n)]
<1>1. n \in Nat /\ Len(key) \in Nat /\ n <= Len(key)
  BY LenProperties
<1>2. \A d \in 0 .. n - 1 : g[d] = f[d]
  BY <1>1
<1>3. g[n] = Row(key, f, n)
  BY <1>1
<1> HIDE DEF g
<1>4. ASSUME NEW d \in 0 .. n PROVE Row(key, f, d) = Row(key, g, d)
  <2>1. AgreeBelow(f, g, d)
    BY <1>1, <1>2 DEF AgreeBelow
  <2>2. d \in 0 .. Len(key)
    BY <1>1
  <2>. QED
    BY <2>1, <2>2, RowReads
<1>5. ASSUME NEW d \in 0 .. (n + 1) - 1 PROVE g[d] = Row(key, g, d)
  <2>1. d \in 0 .. n
    BY <1>1
  <2>2. CASE d = n
    BY <1>3, <1>4, <2>1, <2>2
  <2>3. CASE d # n
    <3>1. d \in 0 .. n - 1
      BY <1>1, <2>1, <2>3
    <3>2. f[d] = Row(key, f, d)
      BY <3>1 DEF Filled
    <3>. QED
      BY <1>2, <1>4, <2>1, <3>1, <3>2
  <2>. QED
    BY <2>2, <2>3
<1>. QED
  BY <1>5 DEF Filled

(* The table of Spine.                                                     *)
Table(key) ==
    CHOOSE below : below = [digits \in 0 .. Len(key) |->
                               [h \in Hashes |-> WayBelow(below, h, Left(key, digits))]]

(* All rows can be, so that the table is what its recursive definition     *)
(* says.                                                                   *)
LEMMA TableExists ==
    ASSUME NEW key \in Seq(Nibbles)
    PROVE  \A d \in 0 .. Len(key) : Table(key)[d] = Row(key, Table(key), d)
<1> DEFINE Bad == {n \in 0 .. Len(key) + 1 : ~\E f : Filled(key, f, n)}
<1>1. Len(key) \in Nat
  BY LenProperties
<1>2. Bad = {}
  <2>1. SUFFICES ASSUME Bad # {} PROVE FALSE
    OBVIOUS
  <2>2. Bad \subseteq Nat
    BY <1>1
  <2>3. PICK m \in Bad : \A n \in Bad : m <= n
    <3> HIDE DEF Bad
    <3>. QED
      BY <2>1, <2>2, LeastNatural
  <2>4. m \in 0 .. Len(key) + 1 /\ ~\E f : Filled(key, f, m)
    OBVIOUS
  <2>5. m # 0
    <3>1. \A f : Filled(key, f, 0)
      BY DEF Filled
    <3>. QED
      BY <2>4, <3>1
  <2>6. m - 1 \in 0 .. Len(key) /\ (m - 1) + 1 = m /\ ~(m <= m - 1)
        /\ m - 1 \in 0 .. Len(key) + 1
    BY <1>1, <2>4, <2>5
  <2>7. m - 1 \notin Bad
    <3> HIDE DEF Bad
    <3>. QED
      BY <2>3, <2>6
  <2>8. PICK f : Filled(key, f, m - 1)
    BY <2>6, <2>7
  <2>9. \E g : Filled(key, g, (m - 1) + 1)
    <3> HIDE DEF Bad
    <3>. QED
      BY <2>6, <2>8, TableGrows
  <2>. QED
    BY <2>4, <2>6, <2>9
<1>3. PICK f : Filled(key, f, Len(key) + 1)
  <2>1. Len(key) + 1 \in 0 .. Len(key) + 1
    BY <1>1
  <2>. QED
    BY <1>2, <2>1
<1> HIDE DEF Bad
<1> DEFINE g == [d \in 0 .. Len(key) |-> f[d]]
<1>4. ASSUME NEW d \in 0 .. Len(key) PROVE g[d] = Row(key, g, d)
  <2>1. d \in 0 .. (Len(key) + 1) - 1
    BY <1>1
  <2>2. f[d] = Row(key, f, d)
    BY <1>3, <2>1 DEF Filled
  <2>3. AgreeBelow(f, g, d)
    BY <1>1 DEF AgreeBelow
  <2>4. Row(key, f, d) = Row(key, g, d)
    <3> HIDE DEF g
    <3>. QED
      BY <2>3, RowReads
  <2>. QED
    BY <2>2, <2>4
<1>5. g = [digits \in 0 .. Len(key) |-> Row(key, g, digits)]
  <2>1. g = [digits \in 0 .. Len(key) |-> g[digits]]
    OBVIOUS
  <2> HIDE DEF g
  <2>. QED
    BY <2>1, <1>4
<1>6. \E below : below = [digits \in 0 .. Len(key) |-> Row(key, below, digits)]
  BY <1>5
<1>7. Table(key) = [digits \in 0 .. Len(key) |-> Row(key, Table(key), digits)]
  BY <1>6, Zenon DEF Table, Row
<1>. QED
  BY <1>7

(* An entry of the table.                                                  *)
LEMMA TableRows ==
    ASSUME NEW key \in Seq(Nibbles), NEW d \in 0 .. Len(key), NEW h \in Hashes
    PROVE  Table(key)[d][h] = WayBelow(Table(key), h, Left(key, d))
<1>1. Table(key)[d] = Row(key, Table(key), d)
  BY TableExists
<1>. QED
  BY <1>1 DEF Row

(* Spine is the root and what the table has below it for the whole key.    *)
LEMMA SpineReadsTable ==
    ASSUME NEW root \in Hashes, NEW key
    PROVE  Spine(root, key) = <<root>> \o Table(key)[Len(key)][root]
BY Zenon DEF Spine, Table

-----------------------------------------------------------------------------
(* The names of s are of ever lower nodes, below a given height.           *)
Falls(s, top) ==
    /\ s \in Seq(Hashes)
    /\ \A i \in 1 .. Len(s) : Height[s[i]] < top
    /\ \A i, j \in 1 .. Len(s) : i < j => Height[s[j]] < Height[s[i]]

(* A name on top of what is below it.                                      *)
LEMMA FallsFrom ==
    ASSUME NEW h \in Hashes, NEW s, Falls(s, Height[h]), NEW top \in Nat, Height[h] < top
    PROVE  Falls(s, top) /\ Falls(<<h>> \o s, top)
<1>1. /\ Height[h] \in Nat /\ s \in Seq(Hashes) /\ Len(s) \in Nat
      /\ \A i \in 1 .. Len(s) : s[i] \in Hashes /\ Height[s[i]] \in Nat
  BY HeightAssumption, ElementOfSeq, LenProperties DEF Falls
<1>2. /\ \A i \in 1 .. Len(s) : Height[s[i]] < Height[h]
      /\ \A i, j \in 1 .. Len(s) : i < j => Height[s[j]] < Height[s[i]]
  BY DEF Falls
<1>3. Falls(s, top)
  BY <1>1, <1>2 DEF Falls
<1> DEFINE t == <<h>> \o s
<1>4. /\ t \in Seq(Hashes) /\ Len(t) = Len(s) + 1 /\ t[1] = h
      /\ \A i \in 2 .. Len(s) + 1 : t[i] = s[i - 1]
  <2> DEFINE p == <<h>>
  <2>1. p \in Seq(Hashes) /\ Len(p) = 1 /\ p[1] = h
    OBVIOUS
  <2> HIDE DEF p
  <2>2. /\ p \o s \in Seq(Hashes) /\ Len(p \o s) = Len(p) + Len(s)
        /\ \A i \in 1 .. Len(p) + Len(s) :
              (p \o s)[i] = IF i <= Len(p) THEN p[i] ELSE s[i - Len(p)]
    BY <1>1, <2>1, ConcatProperties
  <2>3. t = p \o s
    BY DEF p
  <2> HIDE DEF t
  <2>. QED
    BY <1>1, <2>1, <2>2, <2>3
<1> HIDE DEF t
<1>5. ASSUME NEW i \in 1 .. Len(t) PROVE Height[t[i]] < top
  <2>1. CASE i = 1
    BY <1>4, <2>1
  <2>2. CASE i # 1
    <3>1. i \in 2 .. Len(s) + 1 /\ i - 1 \in 1 .. Len(s)
      BY <1>1, <1>4, <2>2
    <3>. QED
      BY <1>1, <1>2, <1>4, <3>1
  <2>. QED
    BY <2>1, <2>2
<1>6. ASSUME NEW i \in 1 .. Len(t), NEW j \in 1 .. Len(t), i < j
      PROVE  Height[t[j]] < Height[t[i]]
  <2>1. j \in 2 .. Len(s) + 1 /\ j - 1 \in 1 .. Len(s) /\ t[j] = s[j - 1]
    BY <1>1, <1>4, <1>6
  <2>2. CASE i = 1
    BY <1>2, <1>4, <2>1, <2>2
  <2>3. CASE i # 1
    <3>1. i \in 2 .. Len(s) + 1 /\ i - 1 \in 1 .. Len(s) /\ t[i] = s[i - 1] /\ i - 1 < j - 1
      BY <1>1, <1>4, <1>6, <2>3
    <3>. QED
      BY <1>2, <2>1, <3>1
  <2>. QED
    BY <2>2, <2>3
<1>7. Falls(t, top)
  BY <1>4, <1>5, <1>6 DEF Falls
<1>. QED
  BY <1>3, <1>7 DEF t

(* The empty sequence falls.                                               *)
LEMMA NothingFalls ==
    ASSUME NEW top
    PROVE  Falls(<<>>, top)
BY EmptySeq DEF Falls

(* All entries for d digits fall.                                          *)
RowFalls(below, d) == \A h \in Hashes : Falls(below[d][h], Height[h])

(* What is beyond a child is lower than the node.                          *)
LEMMA BeyondFalls ==
    ASSUME NEW h \in Hashes, NEW ref \in ChildrenOf(Node[h]), ref \in Reference,
           NEW below, NEW d, RowFalls(below, d)
    PROVE  Falls(Beyond(below, ref, d), Height[h])
<1>1. ref # Empty /\ ref.to \in Hashes
  BY TrieAssumption DEF Reference
<1>2. Height[h] \in Nat /\ Height[ref.to] < Height[h]
  BY HeightAssumption
<1>3. Falls(below[d][ref.to], Height[ref.to])
  BY <1>1 DEF RowFalls
<1> DEFINE s == below[d][ref.to]
           name == ref.to
<1>4. Falls(s, Height[h]) /\ Falls(<<name>> \o s, Height[h])
  <2>1. name \in Hashes /\ Height[name] < Height[h] /\ Falls(s, Height[name])
    BY <1>1, <1>2, <1>3
  <2> HIDE DEF s, name
  <2>. QED
    BY <1>2, <2>1, FallsFrom
<1>5. s \in Seq(Hashes)
  BY <1>4 DEF Falls
<1>6. CASE ref.embedded
  <2>1. Beyond(below, ref, d) = <<>> \o s
    BY <1>1, <1>6 DEF Beyond
  <2> HIDE DEF s
  <2>2. <<>> \o s = s
    BY <1>5, ConcatEmptySeq
  <2>. QED
    BY <1>4, <2>1, <2>2
<1>7. CASE ~ref.embedded
  <2>1. Beyond(below, ref, d) = <<name>> \o s
    BY <1>1, <1>7 DEF Beyond
  <2>. QED
    BY <1>4, <2>1
<1>. QED
  BY <1>6, <1>7

(* What is below a node when r is left of the key is lower than the node.  *)
LEMMA WayFalls ==
    ASSUME NEW h \in Hashes, NEW r \in Seq(Nibbles), NEW below,
           \A d \in 0 .. Len(r) - 1 : RowFalls(below, d)
    PROVE  Falls(WayBelow(below, h, r), Height[h])
<1> DEFINE n == Node[h]
<1>1. Len(r) \in Nat
  BY LenProperties
<1>2. ASSUME NEW ref, ref \in Reference \cup {Empty}, ref # Empty => ref \in ChildrenOf(n),
             NEW d \in 0 .. Len(r) - 1
      PROVE  Falls(Beyond(below, ref, d), Height[h])
  <2>1. CASE ref = Empty
    BY <2>1, NothingFalls DEF Beyond
  <2>2. CASE ref # Empty
    <3>1. RowFalls(below, d)
      OBVIOUS
    <3>. QED
      BY <1>2, <2>2, <3>1, BeyondFalls
  <2>. QED
    BY <2>1, <2>2
<1>3. CASE n.kind = "leaf"
  BY <1>3, NothingFalls DEF WayBelow
<1>4. CASE n.kind = "extension"
  <2>1. n.path \in Seq(Nibbles) /\ n.child \in Reference \cup {Empty}
    BY <1>4, NodeKinds DEF Extension
  <2>2. CASE n.path # <<>> /\ Follows(n.path, r)
    <3>1. Len(n.path) \in Nat \ {0} /\ Len(n.path) <= Len(r)
      BY <2>1, <2>2, EmptySeq, LenProperties DEF Follows
    <3>2. Len(r) - Len(n.path) \in 0 .. Len(r) - 1
      BY <1>1, <3>1
    <3>3. n.child # Empty => n.child \in ChildrenOf(n)
      BY <1>4 DEF ChildrenOf
    <3>4. Falls(Beyond(below, n.child, Len(r) - Len(n.path)), Height[h])
      BY <1>2, <2>1, <3>2, <3>3
    <3>. QED
      BY <1>4, <2>2, <3>4 DEF WayBelow
  <2>3. CASE ~(n.path # <<>> /\ Follows(n.path, r))
    BY <1>4, <2>3, NothingFalls DEF WayBelow
  <2>. QED
    BY <2>2, <2>3
<1>5. CASE n.kind = "branch"
  <2>1. CASE r = <<>>
    BY <1>5, <2>1, NothingFalls DEF WayBelow
  <2>2. CASE r # <<>>
    <3>1. Len(r) - 1 \in 0 .. Len(r) - 1 /\ Head(r) \in Nibbles
      BY <1>1, <2>2, EmptySeq, HeadTailProperties
    <3>2. n.children[Head(r)] \in Reference \cup {Empty}
      BY <1>5, <3>1, NodeKinds DEF Branch
    <3>3. n.children[Head(r)] # Empty => n.children[Head(r)] \in ChildrenOf(n)
      BY <1>5, <3>1 DEF ChildrenOf
    <3>4. Falls(Beyond(below, n.children[Head(r)], Len(r) - 1), Height[h])
      BY <1>2, <3>1, <3>2, <3>3
    <3>. QED
      BY <1>5, <2>2, <3>4 DEF WayBelow
  <2>. QED
    BY <2>1, <2>2
<1>. QED
  BY <1>3, <1>4, <1>5, NodeKinds

(* So it is everywhere in the table.                                       *)
LEMMA TableFalls ==
    ASSUME NEW key \in Seq(Nibbles), NEW d \in 0 .. Len(key)
    PROVE  RowFalls(Table(key), d)
<1> DEFINE T == Table(key)
           Bad == {m \in 0 .. Len(key) : ~RowFalls(T, m)}
<1>1. SUFFICES ASSUME Bad # {} PROVE FALSE
  OBVIOUS
<1>2. Bad \subseteq Nat
  BY LenProperties
<1>3. PICK m \in Bad : \A n \in Bad : m <= n
  <2> HIDE DEF Bad
  <2>. QED
    BY <1>1, <1>2, LeastNatural
<1>4. m \in 0 .. Len(key) /\ ~RowFalls(T, m)
  OBVIOUS
<1>5. \A k \in 0 .. m - 1 : RowFalls(T, k)
  <2> SUFFICES ASSUME NEW k \in 0 .. m - 1 PROVE RowFalls(T, k)
    OBVIOUS
  <2>1. k \in 0 .. Len(key) /\ ~(m <= k)
    BY <1>4, LenProperties
  <2>2. k \notin Bad
    <3> HIDE DEF Bad
    <3>. QED
      BY <1>3, <2>1
  <2>. QED
    BY <2>1, <2>2
<1>6. Left(key, m) \in Seq(Nibbles) /\ Len(Left(key, m)) = m
  BY <1>4, LeftIsKey
<1> HIDE DEF Bad, T
<1>7. ASSUME NEW h \in Hashes PROVE Falls(T[m][h], Height[h])
  <2> DEFINE r == Left(key, m)
  <2>1. r \in Seq(Nibbles) /\ \A k \in 0 .. Len(r) - 1 : RowFalls(T, k)
    BY <1>5, <1>6
  <2> HIDE DEF r
  <2>2. Falls(WayBelow(T, h, r), Height[h])
    BY <2>1, WayFalls
  <2>3. T[m][h] = WayBelow(T, h, r)
    BY <1>4, TableRows DEF T, r
  <2>. QED
    BY <2>2, <2>3
<1>. QED
  BY <1>4, <1>7 DEF RowFalls

(* No node is on the way twice, since it only leads down.                  *)
LEMMA SpineIsInjective ==
    ASSUME NEW root \in Hashes, NEW key \in Seq(Nibbles)
    PROVE  /\ Spine(root, key) \in Seq(Hashes) /\ Spine(root, key) # <<>>
           /\ Spine(root, key)[1] = root
           /\ IsInjective(Spine(root, key))
<1> DEFINE s == Table(key)[Len(key)][root]
           t == <<root>> \o s
<1>1. Len(key) \in 0 .. Len(key) /\ Height[root] \in Nat
  BY LenProperties, HeightAssumption
<1>2. Falls(s, Height[root])
  BY <1>1, TableFalls DEF RowFalls
<1>3. Falls(t, Height[root] + 1)
  <2>1. Height[root] + 1 \in Nat /\ Height[root] < Height[root] + 1
    BY <1>1
  <2> HIDE DEF s
  <2>. QED
    BY <1>2, <2>1, FallsFrom
<1>4. Spine(root, key) = t
  BY SpineReadsTable
<1>5. t # <<>> /\ t[1] = root
  <2>1. s \in Seq(Hashes)
    BY <1>2 DEF Falls
  <2> HIDE DEF s
  <2>. QED
    BY <2>1
<1> HIDE DEF s, t
<1>6. t \in Seq(Hashes) /\ DOMAIN t = 1 .. Len(t) /\ Len(t) \in Nat
  BY <1>3, LenProperties DEF Falls
<1>7. ASSUME NEW i \in 1 .. Len(t), NEW j \in 1 .. Len(t), t[i] = t[j] PROVE i = j
  <2>1. \A a, b \in 1 .. Len(t) : a < b => Height[t[b]] < Height[t[a]]
    BY <1>3 DEF Falls
  <2>2. Height[t[i]] \in Nat /\ Height[t[j]] = Height[t[i]]
    BY <1>6, <1>7, HeightAssumption, ElementOfSeq
  <2>3. ~(i < j) /\ ~(j < i)
    BY <2>1, <2>2
  <2>. QED
    BY <1>6, <2>3
<1>8. IsInjective(t)
  BY <1>6, <1>7 DEF IsInjective
<1>. QED
  BY <1>4, <1>5, <1>6, <1>8

-----------------------------------------------------------------------------
(* A well-shaped node is sound, and so are those embedded in it.           *)
LEMMA WellShapedFacts ==
    ASSUME NEW h \in WellShaped
    PROVE  /\ h \in Hashes /\ SoundNode(Node[h])
           /\ \A ref \in ChildrenOf(Node[h]) \cap Reference :
                 ref.embedded => ref.to \in WellShaped
<1>1. h \in Hashes /\ IsWellShaped(h)
  BY DEF WellShaped
<1>2. PICK inside \in SUBSET Short :
          \A g \in inside \cup {h} :
              /\ SoundNode(Node[g])
              /\ \A ref \in ChildrenOf(Node[g]) : ref.embedded => ref.to \in inside
  BY <1>1 DEF IsWellShaped
<1>3. ASSUME NEW ref \in ChildrenOf(Node[h]) \cap Reference, ref.embedded
      PROVE  ref.to \in WellShaped
  <2>1. ref.to \in inside /\ ref.to \in Hashes
    BY <1>2, <1>3 DEF Reference
  <2>2. IsWellShaped(ref.to)
    BY <1>2, <2>1 DEF IsWellShaped
  <2>. QED
    BY <2>1, <2>2 DEF WellShaped
<1>. QED
  BY <1>1, <1>2, <1>3

(* The walk has used the first names on the way and is at the next node.   *)
Followed(w) ==
    /\ w.at \in Reference /\ (w.at.embedded => w.at.to \in WellShaped)
    /\ Len(w.remaining) \in 0 .. Len(w.key) /\ w.remaining = Left(w.key, Len(w.remaining))
    /\ w.used \in Seq(Hashes)
    /\ \A k \in 1 .. Len(w.used) : /\ w.used[k] \in Range(w.nodes)
                                   /\ k > 1 => w.used[k] \notin Short
    /\ Spine(w.root, w.key) = w.used \o Beyond(Table(w.key), w.at, Len(w.remaining))

(* Where a walk stands: its list passed the first checks. A root that is   *)
(* no node is never resolved.                                              *)
OnSpine(w) ==
    /\ w.key \in Seq(Nibbles) /\ Presentable(w.root, w.nodes) /\ w.root # EmptyRoot
    /\ w.root \notin Hashes => w.at = [to |-> w.root, embedded |-> FALSE]
    /\ w.root \in Hashes => Followed(w)

(* What verdicts say, and what a walk without verdict has to say for it.   *)
SpineInv == OneProofPerKey /\ (walk.phase = "walking" => OnSpine(walk))

(* What is known where a node is visited.                                  *)
LEMMA VisitedIsOnSpine ==
    ASSUME WalkInv, OnSpine(walk), NEW kind, Visit(kind)
    PROVE  /\ walk.root \in Hashes /\ Followed(walk) /\ walk.at.to \in WellShaped
           /\ walk.at.to \in Hashes /\ walk.key \in Seq(Nibbles)
           /\ walk.remaining \in Seq(Nibbles)
<1>1. walk.at # Empty /\ walk.at.to \in Hashes
  BY VisitedIsNode
<1>2. walk.root \in Hashes
  <2>1. CASE walk.root \notin Hashes
    <3>1. walk.at = [to |-> walk.root, embedded |-> FALSE]
      BY <2>1 DEF OnSpine
    <3>. QED
      BY <1>1, <2>1, <3>1
  <2>. QED
    BY <2>1
<1>3. Followed(walk) /\ walk.key \in Seq(Nibbles)
  BY <1>2 DEF OnSpine
<1>4. walk.at.to \in WellShaped
  <2>1. CASE walk.at.embedded
    BY <1>3, <2>1 DEF Followed
  <2>2. CASE ~walk.at.embedded
    <3>1. walk.at.to \in Range(walk.nodes)
      BY <2>2 DEF Visit, Resolves
    <3>2. Presentable(walk.root, walk.nodes) /\ walk.root # EmptyRoot
      BY DEF OnSpine
    <3>3. \A k \in DOMAIN walk.nodes : walk.nodes[k] \in WellShaped
      BY <3>2 DEF Presentable
    <3>. QED
      BY <3>1, <3>3 DEF Range
  <2>. QED
    BY <2>1, <2>2
<1>5. walk.remaining \in Seq(Nibbles)
  BY <1>3, LeftIsKey DEF Followed
<1>. QED
  BY <1>1, <1>2, <1>3, <1>4, <1>5

(* With the node at hand, the walk has used one more name of the way, and  *)
(* what is below that node is left.                                        *)
LEMMA TrailFollows ==
    ASSUME OnSpine(walk), Followed(walk), Resolves(walk)
    PROVE  /\ Trail(walk) \in Seq(Hashes)
           /\ \A k \in 1 .. Len(Trail(walk)) : /\ Trail(walk)[k] \in Range(walk.nodes)
                                               /\ k > 1 => Trail(walk)[k] \notin Short
           /\ Table(walk.key)[Len(walk.remaining)][walk.at.to] \in Seq(Hashes)
           /\ Spine(walk.root, walk.key)
                = Trail(walk) \o Table(walk.key)[Len(walk.remaining)][walk.at.to]
<1> DEFINE u == walk.used
           a == walk.at.to
           s == Table(walk.key)[Len(walk.remaining)][a]
<1>1. walk.at # Empty /\ a \in Hashes
  BY TrieAssumption DEF Followed, Reference
<1>2. /\ u \in Seq(Hashes) /\ Len(u) \in Nat
      /\ \A k \in 1 .. Len(u) : u[k] \in Range(walk.nodes) /\ (k > 1 => u[k] \notin Short)
      /\ Spine(walk.root, walk.key) = u \o Beyond(Table(walk.key), walk.at, Len(walk.remaining))
  BY LenProperties DEF Followed
<1>3. s \in Seq(Hashes)
  <2>1. walk.key \in Seq(Nibbles) /\ Len(walk.remaining) \in 0 .. Len(walk.key)
    BY DEF OnSpine, Followed
  <2>2. RowFalls(Table(walk.key), Len(walk.remaining))
    BY <2>1, TableFalls
  <2>. QED
    BY <1>1, <2>2 DEF RowFalls, Falls
<1>4. CASE walk.at.embedded
  <2>1. Trail(walk) = u /\ Beyond(Table(walk.key), walk.at, Len(walk.remaining)) = <<>> \o s
    BY <1>1, <1>4 DEF Trail, Beyond
  <2> HIDE DEF s, u
  <2>2. <<>> \o s = s
    BY <1>3, ConcatEmptySeq
  <2>. QED
    BY <1>2, <1>3, <2>1, <2>2 DEF s, a
<1>5. CASE ~walk.at.embedded
  <2>1. Trail(walk) = Append(u, a)
        /\ Beyond(Table(walk.key), walk.at, Len(walk.remaining)) = <<a>> \o s
    BY <1>1, <1>5 DEF Trail, Beyond
  <2>2. /\ a \in Range(walk.nodes)
        /\ u = <<>> \/ a \notin Short
    BY <1>5 DEF Resolves
  <2> HIDE DEF s, u, a
  <2>3. <<a>> \in Seq(Hashes)
    BY <1>1
  <2>4. Append(u, a) = u \o <<a>>
    BY <1>1, <1>2, AppendIsConcat
  <2>5. (u \o <<a>>) \o s = u \o (<<a>> \o s)
    BY <1>2, <1>3, <2>3, ConcatAssociative
  <2>6. /\ Append(u, a) \in Seq(Hashes) /\ Len(Append(u, a)) = Len(u) + 1
        /\ \A k \in 1 .. Len(u) : Append(u, a)[k] = u[k]
        /\ Append(u, a)[Len(u) + 1] = a
    BY <1>1, <1>2, AppendProperties
  <2>7. ASSUME NEW k \in 1 .. Len(Append(u, a))
        PROVE  /\ Append(u, a)[k] \in Range(walk.nodes)
               /\ k > 1 => Append(u, a)[k] \notin Short
    <3>1. CASE k \in 1 .. Len(u)
      BY <1>2, <2>6, <3>1
    <3>2. CASE k = Len(u) + 1
      <4>1. k > 1 => u # <<>>
        BY <1>2, <3>2, EmptySeq
      <4>. QED
        BY <2>2, <2>6, <3>2, <4>1
    <3>. QED
      BY <1>2, <2>6, <3>1, <3>2
  <2>. QED
    BY <1>2, <1>3, <2>1, <2>4, <2>5, <2>6, <2>7 DEF s, a
<1>. QED
  BY <1>4, <1>5

(* Where the way ends, the list is accepted exactly if it is the way, and  *)
(* the way is provable then.                                               *)
LEMMA StopOnSpine ==
    ASSUME Walks(walk), OnSpine(walk), walk.root \in Hashes, Followed(walk), Resolves(walk),
           Table(walk.key)[Len(walk.remaining)][walk.at.to] = <<>>,
           NEW terminal, NEW value, Stop(terminal, value)
    PROVE  SpineInv'
<1> DEFINE t == Trail(walk)
           s == Spine(walk.root, walk.key)
<1>1. /\ t \in Seq(Hashes)
      /\ \A k \in 1 .. Len(t) : t[k] \in Range(walk.nodes) /\ (k > 1 => t[k] \notin Short)
      /\ s = t \o <<>>
  BY TrailFollows
<1>2. s = t
  <2> HIDE DEF s, t
  <2>. QED
    BY <1>1, ConcatEmptySeq
<1>3. /\ walk'.root = walk.root /\ walk'.key = walk.key /\ walk'.nodes = walk.nodes
      /\ walk'.phase = IF t = walk.nodes THEN "verified" ELSE "refused"
  BY DEF Stop, Walks, UsesAll
<1>4. ASSUME t = walk.nodes PROVE Provable(walk.root, walk.key)
  <2>1. Presentable(walk.root, walk.nodes) /\ walk.root # EmptyRoot
    BY DEF OnSpine
  <2>2. /\ Len(walk.nodes) <= MaxProofNodes
        /\ \A k \in DOMAIN walk.nodes : walk.nodes[k] \in WellShaped
    BY <2>1 DEF Presentable
  <2>3. DOMAIN t = 1 .. Len(t)
    BY <1>1, LenProperties
  <2> HIDE DEF t
  <2>. QED
    BY <1>1, <1>2, <1>4, <2>2, <2>3 DEF Provable, s
<1>5. OneProofPerKey'
  <2> HIDE DEF t
  <2>. QED
    BY <1>2, <1>3, <1>4 DEF OneProofPerKey, s
<1>6. walk'.phase # "walking"
  BY <1>3
<1>. QED
  BY <1>5, <1>6 DEF SpineInv

(* A turn of the walk is a step on the way.                                *)
LEMMA DescendOnSpine ==
    ASSUME Walks(walk), OnSpine(walk), walk.root \in Hashes, Followed(walk), Resolves(walk),
           walk.phase = "walking",
           NEW ref \in Reference, ref.embedded => ref.to \in WellShaped,
           NEW rest, Len(rest) \in 0 .. Len(walk.key), rest = Left(walk.key, Len(rest)),
           Table(walk.key)[Len(walk.remaining)][walk.at.to]
             = Beyond(Table(walk.key), ref, Len(rest)),
           Descend(ref, rest)
    PROVE  SpineInv'
<1>1. /\ Trail(walk) \in Seq(Hashes)
      /\ \A k \in 1 .. Len(Trail(walk)) : /\ Trail(walk)[k] \in Range(walk.nodes)
                                          /\ k > 1 => Trail(walk)[k] \notin Short
      /\ Spine(walk.root, walk.key) = Trail(walk) \o Beyond(Table(walk.key), ref, Len(rest))
  BY TrailFollows
<1>2. /\ walk'.phase = "walking" /\ walk'.used = Trail(walk)
      /\ walk'.root = walk.root /\ walk'.key = walk.key /\ walk'.nodes = walk.nodes
      /\ walk'.at = ref /\ walk'.remaining = rest
  BY DEF Descend, Walks
<1>3. Followed(walk')
  BY <1>1, <1>2 DEF Followed
<1>4. OnSpine(walk')
  BY <1>2, <1>3 DEF OnSpine
<1>. QED
  BY <1>2, <1>4 DEF SpineInv, OneProofPerKey

(* The entry of the table for the node at hand.                            *)
LEMMA EntryAtHand ==
    ASSUME Followed(walk), walk.key \in Seq(Nibbles), walk.at.to \in Hashes
    PROVE  Table(walk.key)[Len(walk.remaining)][walk.at.to]
             = WayBelow(Table(walk.key), walk.at.to, walk.remaining)
<1>1. Len(walk.remaining) \in 0 .. Len(walk.key) /\ walk.remaining = Left(walk.key, Len(walk.remaining))
  BY DEF Followed
<1>. QED
  BY <1>1, TableRows

(* A leaf is the end of the way.                                           *)
LEMMA AtLeafOnSpine ==
    ASSUME WalkInv, OnSpine(walk), AtLeaf
    PROVE  SpineInv'
<1>1. Visit("leaf") /\ \E terminal, value : Stop(terminal, value)
  BY DEF AtLeaf
<1>2. /\ walk.root \in Hashes /\ Followed(walk) /\ walk.at.to \in Hashes
      /\ walk.key \in Seq(Nibbles)
  BY <1>1, VisitedIsOnSpine
<1>3. Walks(walk) /\ Resolves(walk) /\ Node[walk.at.to].kind = "leaf"
  BY <1>1, VisitedIsNode DEF Visit
<1>4. Table(walk.key)[Len(walk.remaining)][walk.at.to] = <<>>
  BY <1>2, <1>3, EntryAtHand DEF WayBelow
<1>. QED
  BY <1>1, <1>2, <1>3, <1>4, StopOnSpine

(* An extension that the key follows leads on to its child, any other ends *)
(* the way.                                                                *)
LEMMA AtExtensionOnSpine ==
    ASSUME WalkInv, OnSpine(walk), AtExtension
    PROVE  SpineInv'
<1> DEFINE n == Node[walk.at.to]
           r == walk.remaining
<1>1. Visit("extension")
  BY DEF AtExtension
<1>2. /\ walk.root \in Hashes /\ Followed(walk) /\ walk.at.to \in WellShaped
      /\ walk.at.to \in Hashes /\ walk.key \in Seq(Nibbles) /\ r \in Seq(Nibbles)
  BY <1>1, VisitedIsOnSpine
<1>3. Walks(walk) /\ Resolves(walk) /\ n.kind = "extension" /\ walk.phase = "walking"
  BY <1>1, VisitedIsNode DEF Visit
<1>4. n.path \in Seq(Nibbles) /\ n.child \in Reference \cup {Empty}
  BY <1>2, <1>3, NodeKinds DEF Extension
<1>5. n.path # <<>> /\ n.child # Empty /\ (n.child.embedded => n.child.to \in WellShaped)
  <2>1. SoundNode(n)
    BY <1>2, WellShapedFacts
  <2>2. n.path # <<>> /\ n.child # Empty
    BY <1>3, <2>1 DEF SoundNode
  <2>3. n.child \in ChildrenOf(n) \cap Reference
    BY <1>3, <1>4, <2>2 DEF ChildrenOf
  <2>. QED
    BY <1>2, <2>2, <2>3, WellShapedFacts
<1>6. Table(walk.key)[Len(r)][walk.at.to] = WayBelow(Table(walk.key), walk.at.to, r)
  BY <1>2, EntryAtHand
<1>7. CASE ~Follows(n.path, r) /\ Stop("absent-path-divergence", Empty)
  <2>1. Table(walk.key)[Len(r)][walk.at.to] = <<>>
    BY <1>3, <1>6, <1>7 DEF WayBelow
  <2>. QED
    BY <1>2, <1>3, <1>7, <2>1, StopOnSpine
<1>8. CASE Follows(n.path, r) /\ Descend(n.child, After(n.path, r))
  <2>1. Table(walk.key)[Len(r)][walk.at.to]
          = Beyond(Table(walk.key), n.child, Len(r) - Len(n.path))
    BY <1>3, <1>5, <1>6, <1>8 DEF WayBelow
  <2>2. Len(n.path) \in 0 .. Len(r)
    BY <1>2, <1>4, <1>8, LenProperties DEF Follows
  <2>3. Len(r) \in 0 .. Len(walk.key) /\ r = Left(walk.key, Len(r))
    BY <1>2 DEF Followed
  <2> HIDE DEF r, n
  <2>4. /\ SubSeq(r, Len(n.path) + 1, Len(r)) = Left(walk.key, Len(r) - Len(n.path))
        /\ Len(SubSeq(r, Len(n.path) + 1, Len(r))) = Len(r) - Len(n.path)
    BY <1>2, <2>2, <2>3, LeftAfter
  <2>5. After(n.path, r) = Left(walk.key, Len(r) - Len(n.path))
        /\ Len(After(n.path, r)) = Len(r) - Len(n.path)
    BY <2>4 DEF After
  <2>6. Len(r) - Len(n.path) \in 0 .. Len(walk.key)
    BY <1>2, <2>2, <2>3, LenProperties
  <2> DEFINE rest == After(n.path, r)
             ref == n.child
  <2>7. /\ Len(rest) \in 0 .. Len(walk.key) /\ rest = Left(walk.key, Len(rest))
        /\ Table(walk.key)[Len(walk.remaining)][walk.at.to]
             = Beyond(Table(walk.key), ref, Len(rest))
    BY <2>1, <2>5, <2>6 DEF r
  <2>8. ref \in Reference /\ (ref.embedded => ref.to \in WellShaped) /\ Descend(ref, rest)
    BY <1>4, <1>5, <1>8
  <2> HIDE DEF rest, ref
  <2>. QED
    BY <1>2, <1>3, <2>7, <2>8, DescendOnSpine
<1>. QED
  BY <1>7, <1>8 DEF AtExtension

(* A branch leads on to the child of the next digit, if there are both.    *)
LEMMA AtBranchOnSpine ==
    ASSUME WalkInv, OnSpine(walk), AtBranch
    PROVE  SpineInv'
<1> DEFINE n == Node[walk.at.to]
           r == walk.remaining
           child == n.children[Head(r)]
<1>1. Visit("branch")
  BY DEF AtBranch
<1>2. /\ walk.root \in Hashes /\ Followed(walk) /\ walk.at.to \in WellShaped
      /\ walk.at.to \in Hashes /\ walk.key \in Seq(Nibbles) /\ r \in Seq(Nibbles)
  BY <1>1, VisitedIsOnSpine
<1>3. Walks(walk) /\ Resolves(walk) /\ n.kind = "branch" /\ walk.phase = "walking"
  BY <1>1, VisitedIsNode DEF Visit
<1>4. r # <<>> => Head(r) \in Nibbles /\ child \in Reference \cup {Empty}
  BY <1>2, <1>3, NodeKinds, HeadTailProperties DEF Branch
<1>5. Table(walk.key)[Len(r)][walk.at.to] = WayBelow(Table(walk.key), walk.at.to, r)
  BY <1>2, EntryAtHand
<1>6. /\ r = <<>> => Table(walk.key)[Len(r)][walk.at.to] = <<>>
      /\ r # <<>> => Table(walk.key)[Len(r)][walk.at.to]
                       = Beyond(Table(walk.key), child, Len(r) - 1)
  BY <1>3, <1>5 DEF WayBelow
<1>7. CASE r = <<>> /\ \E terminal, value : Stop(terminal, value)
  BY <1>2, <1>3, <1>6, <1>7, StopOnSpine
<1>8. CASE r # <<>> /\ child = Empty /\ \E terminal, value : Stop(terminal, value)
  <2>1. Table(walk.key)[Len(r)][walk.at.to] = <<>>
    BY <1>6, <1>8 DEF Beyond
  <2>. QED
    BY <1>2, <1>3, <1>8, <2>1, StopOnSpine
<1>9. CASE r # <<>> /\ child # Empty /\ Descend(child, Tail(r))
  <2>1. child \in Reference /\ child \in ChildrenOf(n)
    BY <1>3, <1>4, <1>9 DEF ChildrenOf
  <2>2. child.embedded => child.to \in WellShaped
    BY <1>2, <2>1, WellShapedFacts
  <2>3. Len(r) \in 0 .. Len(walk.key) /\ r = Left(walk.key, Len(r))
    BY <1>2 DEF Followed
  <2>4. Len(r) \in Nat \ {0} /\ Tail(r) = SubSeq(r, 2, Len(r))
    BY <1>2, <1>9, EmptySeq, TailIsSubSeq
  <2> HIDE DEF r, n, child
  <2>5. /\ SubSeq(r, 1 + 1, Len(r)) = Left(walk.key, Len(r) - 1)
        /\ Len(SubSeq(r, 1 + 1, Len(r))) = Len(r) - 1
    <3>1. 1 \in 0 .. Len(r)
      BY <2>4
    <3>. QED
      BY <1>2, <2>3, <3>1, LeftAfter
  <2> DEFINE rest == Tail(r)
  <2>6. rest = Left(walk.key, Len(r) - 1) /\ Len(rest) = Len(r) - 1
    BY <2>4, <2>5
  <2>7. Len(r) - 1 \in 0 .. Len(walk.key)
    BY <2>3, <2>4, <1>2, LenProperties
  <2>8. /\ Len(rest) \in 0 .. Len(walk.key) /\ rest = Left(walk.key, Len(rest))
        /\ Table(walk.key)[Len(walk.remaining)][walk.at.to]
             = Beyond(Table(walk.key), child, Len(rest))
    BY <1>6, <1>9, <2>6, <2>7 DEF r
  <2>9. Descend(child, rest)
    BY <1>9
  <2> HIDE DEF rest
  <2>. QED
    BY <1>2, <1>3, <2>1, <2>2, <2>8, <2>9, DescendOnSpine
<1>10. \/ r = <<>> /\ \E terminal, value : Stop(terminal, value)
       \/ r # <<>> /\ child = Empty /\ \E terminal, value : Stop(terminal, value)
       \/ r # <<>> /\ child # Empty /\ Descend(child, Tail(r))
  BY DEF AtBranch
<1>. QED
  BY <1>7, <1>8, <1>9, <1>10

(* A list without the next node of the way is not the way; one with a      *)
(* short node that is referred to by hash cannot be proved.                *)
LEMMA UnresolvedOffSpine ==
    ASSUME WalkInv, OnSpine(walk), Unresolved
    PROVE  SpineInv'
<1>1. Walks(walk) /\ walk' = [walk EXCEPT !.phase = "refused"] /\ ~Resolves(walk)
  BY DEF WalkInv, Unresolved, NoWalk
<1>2. /\ walk'.phase = "refused" /\ walk'.root = walk.root /\ walk'.key = walk.key
      /\ walk'.nodes = walk.nodes
  BY <1>1 DEF Walks
<1> DEFINE s == Spine(walk.root, walk.key)
<1>3. ASSUME walk.nodes = s, Provable(walk.root, walk.key) PROVE FALSE
  <2>1. walk.root \in Hashes
    BY <1>3 DEF Provable, OnSpine
  <2>2. Followed(walk) /\ walk.key \in Seq(Nibbles)
    BY <2>1 DEF OnSpine
  <2> DEFINE u == walk.used
             a == walk.at.to
             b == Table(walk.key)[Len(walk.remaining)][a]
  <2>3. walk.at # Empty /\ a \in Hashes
    BY <2>2, TrieAssumption DEF Followed, Reference
  <2>4. ~walk.at.embedded
    BY <1>1, <2>3 DEF Resolves
  <2>5. s = u \o (<<a>> \o b)
    BY <2>2, <2>3, <2>4 DEF Followed, Beyond
  <2>6. b \in Seq(Hashes)
    <3>1. RowFalls(Table(walk.key), Len(walk.remaining))
      BY <2>2, TableFalls DEF Followed
    <3>. QED
      BY <2>3, <3>1 DEF RowFalls, Falls
  <2>7. u \in Seq(Hashes) /\ Len(u) \in Nat
    BY <2>2, LenProperties DEF Followed
  <2>8. /\ s \in Seq(Hashes) /\ IsInjective(s)
    BY <2>1, <2>2, SpineIsInjective
  <2>9. /\ \A k \in DOMAIN s : k > 1 => s[k] \notin Short
    BY <1>3 DEF Provable
  <2>10. a \in Range(walk.nodes) /\ (a \notin Range(u)) => u # <<>> /\ a \in Short
    BY <1>1, <2>3, <2>4 DEF Resolves
  <2> HIDE DEF u, a, b, s
  <2>11. /\ <<a>> \o b \in Seq(Hashes) /\ Len(<<a>> \o b) \in Nat \ {0} /\ (<<a>> \o b)[1] = a
    BY <2>3, <2>6
  <2> DEFINE c == <<a>> \o b
             i == Len(u) + 1
  <2> HIDE DEF c
  <2>12. /\ Len(u \o c) = Len(u) + Len(c)
         /\ \A k \in 1 .. Len(u) + Len(c) :
               (u \o c)[k] = IF k <= Len(u) THEN u[k] ELSE c[k - Len(u)]
    BY <2>7, <2>11, ConcatProperties DEF c
  <2>13. DOMAIN s = 1 .. Len(u) + Len(c) /\ Len(c) \in Nat \ {0}
    BY <2>5, <2>8, <2>11, <2>12, LenProperties DEF c
  <2>14. i \in DOMAIN s /\ s[i] = a
    <3>1. i \in 1 .. Len(u) + Len(c) /\ ~(i <= Len(u)) /\ i - Len(u) = 1
      BY <2>7, <2>13
    <3>2. s[i] = c[i - Len(u)]
      BY <2>5, <2>12, <3>1 DEF c
    <3>. QED
      BY <2>11, <2>13, <3>1, <3>2 DEF c
  <2>15. a \in Range(walk.nodes)
    BY <1>3, <2>14 DEF Range
  <2>16. a \notin Range(u)
    <3>1. SUFFICES ASSUME a \in Range(u) PROVE FALSE
      OBVIOUS
    <3>2. PICK k \in 1 .. Len(u) : u[k] = a
      BY <2>7, <3>1, LenProperties DEF Range
    <3>3. k \in DOMAIN s /\ s[k] = u[k] /\ k # i
      <4>1. k \in 1 .. Len(u) + Len(c) /\ k <= Len(u)
        BY <2>7, <2>13
      <4>. QED
        BY <2>5, <2>7, <2>12, <2>13, <4>1 DEF c
    <3>. QED
      BY <2>8, <2>14, <3>2, <3>3 DEF IsInjective
  <2>17. u # <<>> /\ a \in Short
    BY <2>10, <2>15, <2>16
  <2>18. i > 1
    BY <2>7, <2>17, EmptySeq
  <2>. QED
    BY <2>9, <2>14, <2>17, <2>18
<1>. QED
  BY <1>2, <1>3 DEF SpineInv, OneProofPerKey, s

(* A list is refused at once only if it is not the way or the way cannot   *)
(* be proved; what is not refused is on the way.                           *)
LEMMA PresentOnSpine ==
    ASSUME NEW root, NEW key \in Seq(Nibbles), NEW list, Present(root, key, list)
    PROVE  SpineInv'
<1> DEFINE s == Spine(root, key)
<1>1. /\ walk'.root = root /\ walk'.key = key /\ walk'.nodes = list /\ walk'.used = <<>>
      /\ walk'.at = [to |-> root, embedded |-> FALSE] /\ walk'.remaining = key
      /\ walk'.phase = IF ~Presentable(root, list) THEN "refused"
                       ELSE IF root = EmptyRoot THEN "verified" ELSE "walking"
  BY DEF Present
<1>2. root \notin Hashes => s = <<>>
  BY DEF Spine
<1>3. root \in Hashes => /\ s \in Seq(Hashes) /\ s # <<>> /\ IsInjective(s)
  BY SpineIsInjective
<1>4. root = EmptyRoot => root \notin Hashes
  BY TrieAssumption
<1>5. ASSUME list = s, Provable(root, key) PROVE Presentable(root, list)
  <2>1. CASE root = EmptyRoot
    BY <1>2, <1>4, <1>5, <2>1 DEF Presentable
  <2>2. CASE root # EmptyRoot
    <3>1. root \in Hashes /\ Len(s) <= MaxProofNodes /\ \A k \in DOMAIN s : s[k] \in WellShaped
      BY <1>5, <2>2 DEF Provable
    <3>. QED
      BY <1>3, <1>5, <2>2, <3>1 DEF Presentable
  <2>. QED
    BY <2>1, <2>2
<1>6. ASSUME Presentable(root, list), root = EmptyRoot PROVE list = s /\ Provable(root, key)
  <2>1. list = <<>> /\ s = <<>>
    BY <1>2, <1>4, <1>6 DEF Presentable
  <2>2. DOMAIN s = {} /\ Len(s) <= MaxProofNodes
    BY <2>1, TrieAssumption
  <2>. QED
    BY <1>6, <2>1, <2>2 DEF Provable
<1>7. ASSUME Presentable(root, list), root # EmptyRoot PROVE OnSpine(walk')
  <2>1. ASSUME root \in Hashes PROVE Followed(walk')
    <3> DEFINE ref == [to |-> root, embedded |-> FALSE]
               b == Table(key)[Len(key)][root]
    <3>1. ref \in Reference /\ ref # Empty /\ ~ref.embedded /\ ref.to = root
      <4>1. ref \in Reference
        BY <2>1 DEF Reference
      <4>2. Empty \notin Reference
        BY TrieAssumption
      <4>. QED
        BY <4>1, <4>2
    <3>2. s = <<root>> \o b
      BY <2>1, SpineReadsTable
    <3>3. Beyond(Table(key), ref, Len(key)) = <<root>> \o b
      <4> HIDE DEF ref
      <4>. QED
        BY <3>1 DEF Beyond
    <3>4. s \in Seq(Hashes) /\ <<>> \o s = s
      <4> HIDE DEF s
      <4>. QED
        BY <1>3, <2>1, ConcatEmptySeq
    <3>5. Len(key) \in 0 .. Len(key) /\ key = Left(key, Len(key))
      <4>1. Len(key) \in Nat /\ Len(key) - Len(key) + 1 = 1
        BY LenProperties
      <4>2. SubSeq(key, 1, Len(key)) = key
        BY SubSeqFull
      <4>. QED
        BY <4>1, <4>2 DEF Left
    <3>6. <<>> \in Seq(Hashes) /\ Len(<<>>) = 0 /\ 1 .. 0 = {}
      BY EmptySeq
    <3>7. walk'.used \in Seq(Hashes) /\ 1 .. Len(walk'.used) = {}
      BY <1>1, <3>6
    <3>8. Spine(walk'.root, walk'.key)
            = walk'.used \o Beyond(Table(walk'.key), walk'.at, Len(walk'.remaining))
      BY <1>1, <3>2, <3>3, <3>4
    <3>. QED
      BY <1>1, <3>1, <3>5, <3>7, <3>8 DEF Followed
  <2>. QED
    BY <1>1, <1>7, <2>1 DEF OnSpine
<1>. QED
  BY <1>1, <1>5, <1>6, <1>7 DEF SpineInv, OneProofPerKey, s

-----------------------------------------------------------------------------
(* There is no walk at first.                                              *)
LEMMA SpineInvHoldsInitially ==
    Init => SpineInv
BY DEF Init, StateInit, NoWalk, SpineInv, OneProofPerKey

(* Every step of a walk keeps it; other steps leave the walk alone or drop *)
(* it.                                                                     *)
LEMMA SpineInvIsInductive ==
    IInv /\ SpineInv /\ [Next]_vars => SpineInv'
<1> SUFFICES ASSUME IInv, SpineInv, [Next]_vars PROVE SpineInv'
  OBVIOUS
<1>1. CASE walk' = walk
  BY <1>1 DEF SpineInv, OneProofPerKey
<1>2. CASE walk' = NoWalk
  BY <1>2 DEF NoWalk, SpineInv, OneProofPerKey
<1>3. CASE PresentNext
  <2>1. PICK list : Present(JobRoot, JobKey, list)
    BY <1>3 DEF PresentNext
  <2>2. JobKey \in Seq(Nibbles)
    BY <1>3, JobKeyIsKey DEF IInv, PresentNext
  <2>. QED
    BY <2>1, <2>2, PresentOnSpine
<1>4. CASE TakeWalkStep
  <2>1. WalkInv /\ WalkStep
    BY <1>4 DEF IInv, TakeWalkStep
  <2>2. OnSpine(walk)
    BY <2>1 DEF WalkStep, AtBranch, AtExtension, AtLeaf, Unresolved, Visit, SpineInv
  <2>. QED
    BY <2>1, <2>2, AtBranchOnSpine, AtExtensionOnSpine, AtLeafOnSpine, UnresolvedOffSpine
       DEF WalkStep
<1>5. CASE StateNext /\ ~PresentNext /\ ~TakeWalkStep
  BY <1>1, <1>2, <1>5 DEF StateNext, BeginProof, Verify, AcceptAccount, AcceptSlot, Reject, Conclude
<1>6. CASE OpenUniverse \/ Enumerate \/ Report \/ \E universe, r : BeginSearch(universe, r)
  BY <1>1, <1>6 DEF OpenUniverse, BeginSearch, Enumerate, OutOfWork, LookAtUsedPool, CloseCycle,
     LookAtVisitedToken, GoDeeper, GoBack, Look, Report, stateVars
<1>7. CASE UNCHANGED vars
  BY <1>1, <1>7 DEF vars, stateVars
<1>. QED
  BY <1>3, <1>4, <1>5, <1>6, <1>7 DEF Next

(***************************************************************************)
(* verify_mpt_proof accepts one list per root and key: the nodes on the    *)
(* way that are referred to by hash, each once, in order and none besides; *)
(* and it accepts that one unless a node on the way is malformed, should   *)
(* have been embedded, or the list is too long.                            *)
(***************************************************************************)
THEOREM EachKeyHasOneProof == Spec => []OneProofPerKey
<1>1. Spec => []IInv
  BY InvHoldsInitially, InvIsInductive, PTL DEF Spec
<1>2. Spec => [](IInv /\ SpineInv)
  BY InvHoldsInitially, InvIsInductive, SpineInvHoldsInitially, SpineInvIsInductive, PTL DEF Spec
<1>3. SpineInv => OneProofPerKey
  BY DEF SpineInv
<1>. QED
  BY <1>2, <1>3, PTL

-----------------------------------------------------------------------------
(* From evidence to reports.  A universe is a set of pools that were read  *)
(* off verified evidence, and stays one: evidence is never withdrawn.      *)

Backed(universe) == IsUniverse(universe) /\ EvidenceOf(universe) \subseteq evidence

ReportInv ==
    /\ \A universe \in universes : Backed(universe)
    /\ search # NoSearch => "universe" \in DOMAIN search /\ search.universe \in universes
    /\ \A r \in reports : r.universe \in universes

LEMMA ReportInvHoldsInitially ==
    Init => ReportInv
BY DEF Init, ReportInv

LEMMA EvidenceGrows ==
    ASSUME StateNext
    PROVE  evidence \subseteq evidence'
BY DEF StateNext, BeginProof, Verify, PresentNext, TakeWalkStep, AcceptAccount, AcceptSlot,
       Reject, Conclude

StaysIn(t, s) == "universe" \in DOMAIN t /\ t.universe = s.universe

LEMMA UpdatesStay ==
    ASSUME NEW s, "universe" \in DOMAIN s, NEW x, NEW y
    PROVE  /\ StaysIn([s EXCEPT !.next = x, !.steps = y], s)
           /\ StaysIn([s EXCEPT !.next = x, !.path = y], s)
           /\ StaysIn([s EXCEPT !.path = x, !.next = y], s)
           /\ StaysIn([s EXCEPT !.routes = x], s)
BY DEF StaysIn

(* Whatever leg is looked at, the search stays in its universe.            *)
LEMMA EnumerationKeepsUniverse ==
    ASSUME ReportInv, Enumerate
    PROVE  /\ UNCHANGED <<evidence, universes, reports>>
           /\ search' # NoSearch => /\ "universe" \in DOMAIN search'
                                    /\ search'.universe \in universes
<1>1. UNCHANGED <<evidence, universes, reports>>
  BY DEF Enumerate, OutOfWork, LookAtUsedPool, CloseCycle, LookAtVisitedToken, GoDeeper, GoBack,
     Look
<1>2. "universe" \in DOMAIN search /\ search.universe \in universes
  BY DEF Enumerate, OutOfWork, LookAtUsedPool, CloseCycle, LookAtVisitedToken, GoDeeper, GoBack,
     Look, Enumerating, ReportInv
<1>3. StaysIn(Skip(search), search)
  BY <1>2, UpdatesStay DEF Skip
<1>4. CASE OutOfWork
  BY <1>1, <1>4 DEF OutOfWork
<1>5. CASE LookAtUsedPool \/ LookAtVisitedToken
  BY <1>1, <1>2, <1>3, <1>5 DEF LookAtUsedPool, LookAtVisitedToken, StaysIn
<1>6. CASE CloseCycle
  <2> DEFINE routes == search.routes \cup {Append(search.path, Current(search))}
             skipped == Skip(search)
  <2>1. \/ search' = skipped \/ search' = NoSearch
        \/ search' = [skipped EXCEPT !.routes = routes]
    BY <1>6 DEF CloseCycle, AddRoute, OutOfRoutes
  <2>2. StaysIn(skipped, search)
    BY <1>3
  <2> HIDE DEF routes, skipped
  <2>3. StaysIn([skipped EXCEPT !.routes = routes], skipped)
    BY <2>2, UpdatesStay DEF StaysIn
  <2>4. search' = NoSearch \/ StaysIn(search', search)
    BY <2>1, <2>2, <2>3 DEF StaysIn
  <2>. QED
    BY <1>1, <1>2, <2>4 DEF StaysIn
<1>7. CASE GoDeeper
  <2> DEFINE skipped == Skip(search)
             path == Append(skipped.path, Current(search))
             next == Append(skipped.next, 1)
  <2>1. search' = [skipped EXCEPT !.path = path, !.next = next]
    BY <1>7 DEF GoDeeper
  <2>2. StaysIn(skipped, search)
    BY <1>3
  <2> HIDE DEF path, next, skipped
  <2>3. StaysIn([skipped EXCEPT !.path = path, !.next = next], skipped)
    BY <2>2, UpdatesStay DEF StaysIn
  <2>. QED
    BY <1>1, <1>2, <2>1, <2>2, <2>3 DEF StaysIn
<1>8. CASE GoBack
  <2> DEFINE path == IF search.path = <<>> THEN search.path ELSE Front(search.path)
             next == Front(search.next)
  <2>1. search' = [search EXCEPT !.next = next, !.path = path]
    BY <1>8 DEF GoBack
  <2> HIDE DEF path, next
  <2>2. StaysIn(search', search)
    BY <1>2, <2>1, UpdatesStay
  <2>. QED
    BY <1>1, <1>2, <2>2 DEF StaysIn
<1>. QED
  BY <1>4, <1>5, <1>6, <1>7, <1>8 DEF Enumerate

LEMMA ReportInvIsInductive ==
    ReportInv /\ [Next]_vars => ReportInv'
<1> SUFFICES ASSUME ReportInv, [Next]_vars PROVE ReportInv'
  OBVIOUS
<1>1. CASE StateNext /\ UNCHANGED <<universes, search, reports>>
  BY <1>1, EvidenceGrows DEF ReportInv, Backed
<1>2. CASE OpenUniverse
  <2>1. PICK S \in SUBSET evidence : \E specOf \in [S -> Specs] :
            LET universe == {[spec |-> specOf[e], evidence |-> e] : e \in S}
            IN IsUniverse(universe) /\ universes' = universes \cup {universe}
    BY <1>2 DEF OpenUniverse
  <2>2. PICK specOf \in [S -> Specs] :
            LET universe == {[spec |-> specOf[e], evidence |-> e] : e \in S}
            IN IsUniverse(universe) /\ universes' = universes \cup {universe}
    BY <2>1
  <2> DEFINE universe == {[spec |-> specOf[e], evidence |-> e] : e \in S}
  <2>3. IsUniverse(universe) /\ universes' = universes \cup {universe}
    BY <2>2
  <2>4. EvidenceOf(universe) \subseteq evidence
    BY DEF EvidenceOf
  <2> HIDE DEF universe
  <2>. QED
    BY <1>2, <2>3, <2>4 DEF ReportInv, Backed, OpenUniverse
<1>3. ASSUME NEW universe \in universes, NEW r, BeginSearch(universe, r) PROVE ReportInv'
  <2>1. "universe" \in DOMAIN search' /\ search'.universe = universe
    BY <1>3 DEF BeginSearch
  <2>. QED
    BY <1>3, <2>1 DEF BeginSearch, ReportInv, Backed
<1>4. CASE Enumerate
  BY <1>4, EnumerationKeepsUniverse DEF ReportInv, Backed
<1>5. CASE Report
  <2>1. \A r \in reports' : r \in reports \/ r.universe = search.universe
    BY <1>5 DEF Report
  <2>. QED
    BY <1>5, <2>1 DEF Report, ReportInv, Backed
<1>6. CASE UNCHANGED vars
  BY <1>6 DEF vars, ReportInv, Backed
<1>. QED
  BY <1>1, <1>2, <1>3, <1>4, <1>5, <1>6 DEF Next

(* One entry of a trie is what it holds under its key.                     *)
LEMMA OnlyEntry ==
    ASSUME NEW root, NEW key, NEW value, <<key, value>> \in EntriesOf(root),
           \A v : <<key, v>> \in EntriesOf(root) => v = value
    PROVE  {d \in EntriesOf(root) : d[1] = key} = {<<key, value>>}
<1>1. ASSUME NEW d \in EntriesOf(root), d[1] = key PROVE d = <<key, value>>
  <2>1. root \in Hashes /\ d \in Entries[root]
    BY DEF EntriesOf
  <2>2. d = <<d[1], d[2]>>
    BY <2>1, EntriesArePairs
  <2>. QED
    BY <1>1, <2>2
<1>2. <<key, value>>[1] = key
  OBVIOUS
<1>. QED
  BY <1>1, <1>2

LEMMA AccountOfPool ==
    ASSUME NEW p, AccountHolds(p, TRUE), OnlyAccount(p)
    PROVE  AccountAt(p.root, p.address) = {p.account}
<1> DEFINE key == AccountKey[p.address]
           value == Account(p.account)
<1>1. <<key, value>> \in EntriesOf(p.root) /\ \A v : <<key, v>> \in EntriesOf(p.root) => v = value
  BY DEF AccountHolds, OnlyAccount
<1>2. value.account = p.account /\ <<key, value>>[2] = value
  BY DEF Account
<1>3. AccountAt(p.root, p.address) = {e[2].account : e \in {d \in EntriesOf(p.root) : d[1] = key}}
  BY DEF AccountAt
<1> HIDE DEF key, value
<1>4. {d \in EntriesOf(p.root) : d[1] = key} = {<<key, value>>}
  BY <1>1, OnlyEntry
<1>. QED
  BY <1>2, <1>3, <1>4

LEMMA WordOfPool ==
    ASSUME NEW p, NEW k, SlotHolds(p, k, TRUE), OnlyWord(p, k)
    PROVE  WordAt(p.account.storage, p.slots[k].slot) = {p.slots[k].value}
<1> DEFINE key == SlotKey[p.slots[k].slot]
           storage == p.account.storage
           value == Word(p.slots[k].value)
<1>1. <<key, value>> \in EntriesOf(storage) /\ \A v : <<key, v>> \in EntriesOf(storage) => v = value
  BY DEF SlotHolds, OnlyWord
<1>2. value.number = p.slots[k].value /\ <<key, value>>[2] = value
  BY DEF Word
<1>3. WordAt(storage, p.slots[k].slot)
        = {e[2].number : e \in {d \in EntriesOf(storage) : d[1] = key}}
  BY DEF WordAt
<1> HIDE DEF key, value, storage
<1>4. {d \in EntriesOf(storage) : d[1] = key} = {<<key, value>>}
  BY <1>1, OnlyEntry
<1>. QED
  BY <1>2, <1>3, <1>4 DEF storage

(* The slot that a field is read from is one of the evidence, and holds    *)
(* the word that the storage holds.                                        *)
LEMMA SlotOfField ==
    ASSUME ProofsTellTheState, EvidenceInv, NEW e \in evidence, NEW spec, IsPool(spec, e),
           NEW role \in Roles
    PROVE  LET slot == spec.implementation.field[role].slot IN
           WordAt(e.proof.account.storage, slot) = {e.proof.slots[WordOf(e, slot)].value}
<1> DEFINE slot == spec.implementation.field[role].slot
           k == WordOf(e, slot)
           p == e.proof
<1>1. slot \in ProvenSlots(e)
  BY DEF IsPool, SlotsOf
<1>2. \E j \in DOMAIN p.slots : p.slots[j].slot = slot
  BY <1>1 DEF ProvenSlots
<1>3. k \in DOMAIN p.slots /\ p.slots[k].slot = slot
  BY <1>2 DEF WordOf
<1>4. e.included[k]
  BY <1>3 DEF EvidenceInv, IsPool
<1> HIDE DEF slot, k
<1>5. SlotHolds(p, k, e.included[k]) /\ OnlyWord(p, k)
  BY <1>3 DEF ProofsTellTheState, EvidenceInv
<1>6. SlotHolds(p, k, TRUE)
  BY <1>4, <1>5 DEF SlotHolds
<1>7. WordAt(p.account.storage, p.slots[k].slot) = {p.slots[k].value}
  BY <1>5, <1>6, WordOfPool
<1>. QED
  BY <1>3, <1>7 DEF slot, k

(* A pool's code selects the one model that is registered for it.          *)
LEMMA ModelOfPool ==
    ASSUME NEW root, NEW address, NEW account, NEW i \in Registry,
           AccountAt(root, address) = {account}, account.code = i.code
    PROVE  ModelAt(root, address) = {i}
BY ModelAssumption DEF ModelAt, IsRegistry

LEMMA FieldOfPool ==
    ASSUME ProofsTellTheState, EvidenceInv, NEW e \in evidence, NEW spec, IsPool(spec, e),
           spec.implementation \in Registry, NEW role \in Roles
    PROVE  FieldAt(e.anchor.state.root, spec.address, role) = {FieldOf(spec, e, role)}
<1> DEFINE p == e.proof
           root == e.anchor.state.root
           i == spec.implementation
           f == i.field[role]
           word == p.slots[WordOf(e, f.slot)].value
           Read(j, account) ==
               LET g == j.field[role] IN
               {(w \div 2 ^ g.offset) % 2 ^ g.width : w \in WordAt(account.storage, g.slot)}
<1>1. p.root = root /\ p.address = spec.address /\ p.account.code = i.code
  BY DEF ProofsTellTheState, IsPool
<1>2. AccountHolds(p, TRUE) /\ OnlyAccount(p)
  BY DEF ProofsTellTheState, EvidenceInv, IsPool, AccountHolds
<1>3. AccountAt(root, spec.address) = {p.account}
  BY <1>1, <1>2, AccountOfPool
<1>4. ModelAt(root, spec.address) = {i}
  BY <1>1, <1>3, ModelOfPool
<1>5. FieldAt(root, spec.address, role)
        = UNION {Read(j, account) : j \in ModelAt(root, spec.address),
                                    account \in AccountAt(root, spec.address)}
  BY DEF FieldAt
<1>6. FieldAt(root, spec.address, role) = Read(i, p.account)
  <2> HIDE DEF Read, i, p, root
  <2>. QED
    BY <1>3, <1>4, <1>5
<1>7. WordAt(p.account.storage, f.slot) = {word}
  BY SlotOfField
<1>8. Read(i, p.account) = {(w \div 2 ^ f.offset) % 2 ^ f.width : w \in {word}}
  BY <1>7
<1>9. FieldOf(spec, e, role) = (word \div 2 ^ f.offset) % 2 ^ f.width
  BY DEF FieldOf, Extract
<1> HIDE DEF Read, word, f, p, root, i
<1>10. {(w \div 2 ^ f.offset) % 2 ^ f.width : w \in {word}} = {(word \div 2 ^ f.offset) % 2 ^ f.width}
  BY Zenon
<1>. QED
  BY <1>6, <1>8, <1>9, <1>10 DEF root

LEMMA ReportsSpeak ==
    IInv /\ ReportInv => ReportSpeaksForOneState
<1> SUFFICES ASSUME IInv, ReportInv, NEW r \in reports
             PROVE  \E a \in AnchorsOf(r) : \A p \in r.universe :
                        LET At(role) == FieldAt(a.state.root, AddressOf(p), role) IN
                        /\ At("token0") = {p.spec.token0} /\ At("token1") = {p.spec.token1}
                        /\ At("reserve0") = {Reserve(p, "reserve0")}
                        /\ At("reserve1") = {Reserve(p, "reserve1")}
  BY DEF ReportSpeaksForOneState
<1>1. IsUniverse(r.universe) /\ EvidenceOf(r.universe) \subseteq evidence
  BY DEF ReportInv, Backed
<1>2. PICK e \in EvidenceOf(r.universe) : TRUE
  BY <1>1 DEF IsUniverse, IsSnapshot
<1>3. e.anchor \in AnchorsOf(r)
  BY <1>2 DEF AnchorsOf
<1>4. ASSUME NEW p \in r.universe, NEW role \in Roles
      PROVE  FieldAt(e.anchor.state.root, AddressOf(p), role) = {FieldOf(p.spec, p.evidence, role)}
  <2>1. p.evidence \in evidence /\ p.evidence \in EvidenceOf(r.universe)
    BY <1>1 DEF EvidenceOf
  <2>2. p.evidence.anchor = e.anchor
    BY <1>1, <1>2, <2>1 DEF IsUniverse, IsSnapshot, OneAnchor
  <2>3. IsPool(p.spec, p.evidence) /\ p.spec.implementation \in Registry
    BY <1>1 DEF IsUniverse, Governed
  <2>4. ProofsTellTheState /\ EvidenceInv
    BY DEF IInv
  <2>5. FieldAt(p.evidence.anchor.state.root, p.spec.address, role)
          = {FieldOf(p.spec, p.evidence, role)}
    BY <2>1, <2>3, <2>4, FieldOfPool
  <2>. QED
    BY <2>2, <2>5 DEF AddressOf
<1>5. ASSUME NEW p \in r.universe
      PROVE  /\ FieldOf(p.spec, p.evidence, "token0") = p.spec.token0
             /\ FieldOf(p.spec, p.evidence, "token1") = p.spec.token1
  BY <1>1 DEF IsUniverse, IsPool
<1>6. {"token0", "token1", "reserve0", "reserve1"} = Roles
  BY DEF Roles
<1>. QED
  BY <1>3, <1>4, <1>5, <1>6 DEF Reserve

(* Code, tokens and reserves of all pools of a report are what the tries   *)
(* under its anchor's root hold, and they hold nothing else for them: no   *)
(* order of proofs, snapshots, universes and searches mixes two states.    *)
THEOREM ReportSpeaksForOneStateHolds == Spec => []ReportSpeaksForOneState
<1>1. Init => IInv /\ ReportInv
  BY InvHoldsInitially, ReportInvHoldsInitially
<1>2. (IInv /\ ReportInv) /\ [Next]_vars => (IInv /\ ReportInv)'
  BY InvIsInductive, ReportInvIsInductive
<1>. QED
  BY <1>1, <1>2, ReportsSpeak, PTL DEF Spec

-----------------------------------------------------------------------------
(***************************************************************************)
(* The reports of the search engine are exhaustive.  The stack of the      *)
(* search holds a path and, for every token on it, the number of the leg   *)
(* that is due.  Legs are looked at in the order of their pools: a leg's   *)
(* place is the number of legs before it, and the places of the legs that  *)
(* leave a token are 1, 2, ..., as many as there are.  A cycle is passed   *)
(* if it leaves the path at a leg whose number was due before.  Then the   *)
(* routes found are, at any time, the cycles passed; and with no leg left  *)
(* at the base token, every cycle is.                                      *)
(***************************************************************************)
(* How many of the legs come before it in the order of their pools.        *)
Rank(legs, l) == Cardinality({m \in legs : m.pool < l.pool})

(* Legs that can be put in order: no two of the same pool.                 *)
Sortable(legs) ==
    /\ IsFiniteSet(legs)
    /\ \A l \in legs : l.pool \in Nat
    /\ \A l, m \in legs : l.pool = m.pool => l = m

(* Legs of different pools have different ranks, all below their number.   *)
LEMMA RanksDiffer ==
    ASSUME NEW legs, Sortable(legs)
    PROVE  /\ \A l \in legs : Rank(legs, l) \in 0 .. (Cardinality(legs) - 1)
           /\ \A l, m \in legs : Rank(legs, l) = Rank(legs, m) => l = m
<1> DEFINE Below0(l) == {m \in legs : m.pool < l.pool}
<1>1. IsFiniteSet(legs) /\ Cardinality(legs) \in Nat
  BY FS_CardinalityType DEF Sortable
<1>2. ASSUME NEW S \in SUBSET legs, NEW T \in SUBSET S, S # T
      PROVE  Cardinality(T) < Cardinality(S) /\ Cardinality(T) \in Nat /\ Cardinality(S) \in Nat
  <2>1. IsFiniteSet(S)
    BY <1>1, FS_Subset
  <2>. QED
    BY <1>2, <2>1, FS_Subset, FS_CardinalityType
<1>3. ASSUME NEW l \in legs PROVE Rank(legs, l) \in 0 .. (Cardinality(legs) - 1)
  <2>1. l \notin Below0(l)
    BY DEF Sortable
  <2>2. Below0(l) \in SUBSET legs /\ Below0(l) # legs
    BY <2>1
  <2>3. Rank(legs, l) = Cardinality(Below0(l))
    BY DEF Rank
  <2> HIDE DEF Below0
  <2>. QED
    BY <1>1, <1>2, <2>2, <2>3
<1>4. ASSUME NEW l \in legs, NEW m \in legs, l.pool < m.pool
      PROVE  Rank(legs, l) < Rank(legs, m)
  <2>1. /\ l.pool \in Nat /\ m.pool \in Nat /\ \A k \in legs : k.pool \in Nat
    BY DEF Sortable
  <2>2. Below0(l) \in SUBSET Below0(m) /\ l \in Below0(m) /\ l \notin Below0(l)
    BY <1>4, <2>1
  <2>3. Below0(m) \in SUBSET legs
    OBVIOUS
  <2>4. Rank(legs, l) = Cardinality(Below0(l)) /\ Rank(legs, m) = Cardinality(Below0(m))
    BY DEF Rank
  <2> HIDE DEF Below0
  <2>. QED
    BY <1>2, <2>2, <2>3, <2>4
<1>5. ASSUME NEW l \in legs, NEW m \in legs, Rank(legs, l) = Rank(legs, m) PROVE l = m
  <2>1. l.pool \in Nat /\ m.pool \in Nat
    BY DEF Sortable
  <2>2. Rank(legs, l) \in Nat /\ Rank(legs, m) \in Nat
    BY <1>1, <1>3
  <2>3. ~(l.pool < m.pool) /\ ~(m.pool < l.pool)
    BY <1>4, <1>5, <2>2
  <2>. QED
    BY <2>1, <2>3 DEF Sortable
<1>. QED
  BY <1>3, <1>5

(* So every number is the rank of one of them, and InOrder finds it.       *)
LEMMA InOrderFindsRank ==
    ASSUME NEW legs, Sortable(legs), NEW k \in 1 .. Cardinality(legs)
    PROVE  InOrder(legs, k) \in legs /\ Rank(legs, InOrder(legs, k)) = k - 1
<1> DEFINE n == Cardinality(legs)
           T == 0 .. (n - 1)
           f == [l \in legs |-> Rank(legs, l)]
<1>1. IsFiniteSet(legs) /\ n \in Nat
  BY FS_CardinalityType DEF Sortable
<1>2. IsFiniteSet(T) /\ Cardinality(T) = n
  <2>1. n - 1 \in Int /\ ~(0 > n - 1) /\ (n - 1) - 0 + 1 = n
    BY <1>1
  <2>2. /\ IsFiniteSet(T)
        /\ Cardinality(T) = IF 0 > n - 1 THEN 0 ELSE (n - 1) - 0 + 1
    BY <2>1, FS_Interval
  <2>. QED
    BY <2>1, <2>2
<1>3. f \in Injection(legs, T)
  BY RanksDiffer DEF Injection, IsInjective
<1>4. f \in Surjection(legs, T)
  <2> HIDE DEF f, T
  <2>. QED
    BY <1>2, <1>3, FS_Injection
<1>5. k - 1 \in T
  BY <1>1
<1>6. \E l \in legs : f[l] = k - 1
  <2> HIDE DEF f, T
  <2>. QED
    BY <1>4, <1>5 DEF Surjection
<1>7. \E l \in legs : Cardinality({m \in legs : m.pool < l.pool}) = k - 1
  BY <1>6 DEF Rank
<1>8. InOrder(legs, k) \in legs
      /\ Cardinality({m \in legs : m.pool < InOrder(legs, k).pool}) = k - 1
  BY <1>7 DEF InOrder
<1>. QED
  BY <1>8 DEF Rank

(* The legs that leave a token are of different pools.                     *)
Searchable(universe) ==
    /\ IsUniverse(universe)
    /\ IsFiniteSet(universe)
    /\ \A p \in universe : p.spec \in Specs

(* Two pools of a universe differ in address, so two legs that leave a     *)
(* token are of different pools.                                           *)
LEMMA PoolsDiffer ==
    ASSUME NEW universe, Searchable(universe),
           NEW p \in universe, NEW q \in universe, AddressOf(p) = AddressOf(q)
    PROVE  p = q
<1> DEFINE T == {AddressOf(r) : r \in universe}
           f == [r \in universe |-> AddressOf(r)]
<1>1. f \in Surjection(universe, T)
  BY DEF Surjection
<1>2. IsFiniteSet(universe) /\ Cardinality(universe) = Cardinality(T)
  BY DEF Searchable, IsUniverse
<1>3. f \in Injection(universe, T)
  <2> HIDE DEF f, T
  <2>. QED
    BY <1>1, <1>2, FS_SurjSameCardinalityImpliesInj
<1>4. f[p] = f[q]
  OBVIOUS
<1>. QED
  BY <1>3, <1>4 DEF Injection, IsInjective

(* So the legs of a Searchable universe that leave a token can be put in   *)
(* order.                                                                  *)
LEMMA AdjacentAreSortable ==
    ASSUME NEW universe, Searchable(universe), NEW token
    PROVE  Sortable(Adjacent(universe, token))
<1> DEFINE A == Adjacent(universe, token)
<1>1. ASSUME NEW l \in A
      PROVE  \E p \in universe : /\ l.pool = AddressOf(p) /\ l.pool \in Nat
                                 /\ p.spec.token0 # p.spec.token1
                                 /\ \/ l = Leg(p, p.spec.token0, p.spec.token1)
                                       /\ p.spec.token0 = token
                                    \/ l = Leg(p, p.spec.token1, p.spec.token0)
                                       /\ p.spec.token1 = token
  <2>1. PICK p \in universe : \/ l = Leg(p, p.spec.token0, p.spec.token1)
                              \/ l = Leg(p, p.spec.token1, p.spec.token0)
    BY DEF Adjacent, LegsOf
  <2>2. p.spec.token0 # p.spec.token1 /\ p.spec.address \in Nat
    BY ModelAssumption DEF Searchable, IsSpec
  <2>3. l.tokenIn = token
    BY DEF Adjacent
  <2>. QED
    BY <2>1, <2>2, <2>3 DEF Leg, AddressOf
<1>2. ASSUME NEW l \in A, NEW m \in A, l.pool = m.pool PROVE l = m
  <2>1. PICK p \in universe : /\ l.pool = AddressOf(p)
                              /\ p.spec.token0 # p.spec.token1
                              /\ \/ l = Leg(p, p.spec.token0, p.spec.token1)
                                    /\ p.spec.token0 = token
                                 \/ l = Leg(p, p.spec.token1, p.spec.token0)
                                    /\ p.spec.token1 = token
    BY <1>1
  <2>2. PICK q \in universe : /\ m.pool = AddressOf(q)
                              /\ q.spec.token0 # q.spec.token1
                              /\ \/ m = Leg(q, q.spec.token0, q.spec.token1)
                                    /\ q.spec.token0 = token
                                 \/ m = Leg(q, q.spec.token1, q.spec.token0)
                                    /\ q.spec.token1 = token
    BY <1>1
  <2>3. p = q
    BY <1>2, <2>1, <2>2, PoolsDiffer
  <2>. QED
    BY <2>1, <2>2, <2>3
<1>3. IsFiniteSet(A)
  <2> DEFINE f == [l \in A |-> CHOOSE p \in universe : AddressOf(p) = l.pool]
  <2>1. \A l \in A : f[l] \in universe /\ AddressOf(f[l]) = l.pool
    BY <1>1
  <2>2. f \in [A -> universe]
    BY <2>1
  <2>3. f \in Injection(A, universe)
    <3> HIDE DEF f, A
    <3>. QED
      BY <1>2, <2>1, <2>2 DEF Injection, IsInjective
  <2> HIDE DEF f, A
  <2>. QED
    BY <2>3, FS_Injection DEF Searchable
<1>. QED
  BY <1>1, <1>2, <1>3 DEF Sortable

-----------------------------------------------------------------------------
(* A cycle without its quantification over the number of its legs. *)
IsCycle(universe, base, hops, c) ==
    /\ c \in Seq(LegsOf(universe)) /\ Len(c) \in MinRouteHops .. hops
    /\ c[1].tokenIn = base /\ c[Len(c)].tokenOut = base
    /\ \A k \in 1 .. (Len(c) - 1) : c[k].tokenOut = c[k + 1].tokenIn
    /\ \A j, k \in 1 .. Len(c) : j # k => c[j].pool # c[k].pool /\ c[j].tokenIn # c[k].tokenIn

(* It is the same as the model's definition of a cycle.                    *)
LEMMA CyclesAre ==
    ASSUME NEW universe, NEW base, NEW hops \in MinRouteHops .. MaxRouteHops, NEW c
    PROVE  c \in Cycles(universe, base, hops) <=> IsCycle(universe, base, hops, c)
<1> DEFINE L == LegsOf(universe)
<1>1. MinRouteHops \in Nat \ {0} /\ MaxRouteHops \in Nat /\ hops \in Nat /\ hops <= MaxRouteHops
  BY HopsAssumption
<1>2. ASSUME c \in Cycles(universe, base, hops) PROVE IsCycle(universe, base, hops, c)
  <2>1. PICK n \in MinRouteHops .. hops : c \in [1 .. n -> L]
    BY <1>2 DEF Cycles
  <2>2. c \in Seq(L) /\ Len(c) = n
    <3>1. n \in Nat
      BY <1>1
    <3>2. c \in Seq(L)
      BY <2>1, <3>1, SeqDef
    <3>3. DOMAIN c = 1 .. Len(c) /\ Len(c) \in Nat /\ DOMAIN c = 1 .. n
      BY <2>1, <3>2, LenProperties
    <3>4. n \in DOMAIN c /\ n + 1 \notin DOMAIN c
      BY <1>1, <2>1, <3>1
    <3>5. n \in 1 .. Len(c) /\ n + 1 \notin 1 .. Len(c)
      BY <3>3, <3>4
    <3>6. Len(c) \in Nat
      BY <3>3
    <3>7. Len(c) = n
      BY <3>1, <3>5, <3>6
    <3>. QED
      BY <3>2, <3>7
  <2>3. c[1].tokenIn = base /\ IsRoute(c)
    BY <1>2 DEF Cycles
  <2>4. c \in Seq(L) /\ Len(c) \in MinRouteHops .. hops
    BY <2>2
  <2> HIDE DEF L
  <2>5. /\ c[Len(c)].tokenOut = base
        /\ \A k \in 1 .. (Len(c) - 1) : c[k].tokenOut = c[k + 1].tokenIn
        /\ \A j, k \in 1 .. Len(c) : j # k => /\ c[j].pool # c[k].pool
                                           /\ c[j].tokenIn # c[k].tokenIn
    BY <2>3 DEF IsRoute
  <2>. QED
    BY <2>3, <2>4, <2>5 DEF IsCycle, L
<1>3. ASSUME IsCycle(universe, base, hops, c) PROVE c \in Cycles(universe, base, hops)
  <2>1. c \in [1 .. Len(c) -> L] /\ Len(c) \in MinRouteHops .. hops
    BY <1>3, LenProperties DEF IsCycle
  <2>2. Len(c) \in MinRouteHops .. MaxRouteHops
    BY <1>1, <2>1
  <2>3. c[1].tokenIn = base /\ IsRoute(c)
    BY <1>1, <1>3, <2>1, <2>2 DEF IsCycle, IsRoute
  <2>. QED
    BY <2>1, <2>3 DEF Cycles
<1>. QED
  BY <1>2, <1>3

(***************************************************************************)
(* Where the enumeration stands.  A leg has a place among those that leave *)
(* its token; a cycle is behind the enumeration if it leaves the path that *)
(* is being followed at a leg whose place was tried already.               *)
(***************************************************************************)
HasFields(s) ==
    {"universe", "base", "hops", "limits", "created", "path", "next", "steps", "routes"}
        \subseteq DOMAIN s

(* The cycles that a search is to find.                                    *)
CyclesOf(s) == Cycles(s.universe, s.base, s.hops)

(* The number under which the search looks at a leg.                       *)
Place(s, l) == Rank(Adjacent(s.universe, l.tokenIn), l) + 1

(* The cycle starts as the path does, for k legs.                          *)
Shares(s, c, k) == \A j \in 1 .. k : c[j] = s.path[j]

(* The cycle leaves the path at its k-th leg, which was tried before.      *)
PassedAt(s, c, k) ==
    /\ k <= Len(c) /\ Shares(s, c, k - 1)
    /\ Place(s, c[k]) < s.next[k]
    /\ k <= Len(s.path) => c[k] # s.path[k]

(* The cycle is behind the enumeration.                                    *)
Passed(s, c) == \E k \in 1 .. Len(s.next) : PassedAt(s, c, k)

(* The path goes through new pools and new tokens, and the next leg after  *)
(* each of its own is due.                                                 *)
OnPath(s) ==
    /\ s.path \in Seq(LegsOf(s.universe)) /\ s.next \in Seq(Nat \ {0})
    /\ Len(s.next) = Len(s.path) + 1 /\ Len(s.path) <= s.hops
    /\ \A k \in 1 .. Len(s.path) :
          /\ s.path[k].tokenIn = IF k = 1 THEN s.base ELSE s.path[k - 1].tokenOut
          /\ s.path[k].tokenOut # s.base
          /\ Place(s, s.path[k]) = s.next[k] - 1
    /\ \A j, k \in 1 .. Len(s.path) :
          j # k => /\ s.path[j].pool # s.path[k].pool
                   /\ s.path[j].tokenOut # s.path[k].tokenOut

(* A search that is on its path.                                           *)
Underway(s) ==
    /\ Searchable(s.universe) /\ s.hops \in MinRouteHops .. MaxRouteHops
    /\ OnPath(s)

(* What that says of its numbers and of the token where it is.             *)
LEMMA UnderwayFacts ==
    ASSUME NEW s, Underway(s)
    PROVE  /\ s.hops \in Nat /\ Len(s.path) \in Nat /\ Len(s.next) \in Nat
           /\ s.next # <<>>
           /\ DOMAIN s.path = 1 .. Len(s.path) /\ DOMAIN s.next = 1 .. Len(s.next)
           /\ \A k \in 1 .. Len(s.next) : s.next[k] \in Nat /\ s.next[k] >= 1
           /\ \A k \in 1 .. Len(s.path) : s.path[k] \in LegsOf(s.universe)
           /\ Last(s.next) = s.next[Len(s.path) + 1]
           /\ Here(s) = IF Len(s.path) = 0 THEN s.base ELSE s.path[Len(s.path)].tokenOut
<1>1. /\ Len(s.path) \in Nat /\ DOMAIN s.path = 1 .. Len(s.path)
      /\ \A k \in 1 .. Len(s.path) : s.path[k] \in LegsOf(s.universe)
  BY LenProperties, ElementOfSeq DEF Underway, OnPath
<1>2. /\ Len(s.next) \in Nat /\ DOMAIN s.next = 1 .. Len(s.next)
      /\ \A k \in 1 .. Len(s.next) : s.next[k] \in Nat \ {0}
  BY LenProperties, ElementOfSeq DEF Underway, OnPath
<1>3. s.hops \in Nat
  BY HopsAssumption DEF Underway
<1>4. Len(s.next) = Len(s.path) + 1
  BY DEF Underway, OnPath
<1>5. s.next # <<>>
  BY <1>1, <1>2, <1>4
<1>6. s.path = <<>> <=> Len(s.path) = 0
  BY EmptySeq DEF Underway, OnPath
<1>7. Here(s) = IF Len(s.path) = 0 THEN s.base ELSE s.path[Len(s.path)].tokenOut
  BY <1>6 DEF Here, Last
<1>. QED
  BY <1>1, <1>2, <1>3, <1>4, <1>5, <1>7 DEF Last

(* The leg that is looked at is the one that is due.                       *)
LEMMA CurrentFacts ==
    ASSUME NEW s, Underway(s), HasOption(s)
    PROVE  /\ Current(s) \in LegsOf(s.universe) /\ Current(s).tokenIn = Here(s)
           /\ Place(s, Current(s)) = s.next[Len(s.path) + 1]
           /\ Len(s.path) < s.hops
<1> DEFINE A == Adjacent(s.universe, Here(s))
           k == Last(s.next)
<1>1. Sortable(A)
  BY AdjacentAreSortable DEF Underway
<1>2. k \in 1 .. Cardinality(A) /\ k \in Nat
  <2>1. Cardinality(A) \in Nat
    BY <1>1, FS_CardinalityType DEF Sortable
  <2>2. k \in Nat /\ k >= 1
    <3>1. Len(s.path) + 1 \in 1 .. Len(s.next)
      BY UnderwayFacts DEF Underway, OnPath
    <3>2. k = s.next[Len(s.path) + 1]
      BY UnderwayFacts
    <3>. QED
      BY <3>1, <3>2, UnderwayFacts
  <2>3. k <= Cardinality(A)
    BY DEF HasOption, Options
  <2>. QED
    BY <2>1, <2>2, <2>3
<1>3. Current(s) \in A /\ Rank(A, Current(s)) = k - 1
  <2>1. Current(s) = InOrder(A, k)
    BY DEF Current, Options
  <2>. QED
    BY <1>1, <1>2, <2>1, InOrderFindsRank
<1>4. Current(s) \in LegsOf(s.universe) /\ Current(s).tokenIn = Here(s)
  BY <1>3 DEF Adjacent
<1>5. Place(s, Current(s)) = k
  BY <1>2, <1>3, <1>4 DEF Place
<1>. QED
  BY <1>4, <1>5, UnderwayFacts DEF HasOption, Full

(* A cycle that shares the path goes on with a leg that leaves its end.    *)
LEMMA GoesOnHere ==
    ASSUME NEW s, Underway(s), NEW c \in CyclesOf(s),
           Len(s.path) < Len(c), Shares(s, c, Len(s.path))
    PROVE  c[Len(s.path) + 1] \in Adjacent(s.universe, Here(s))
<1> DEFINE d == Len(s.path)
<1>1. IsCycle(s.universe, s.base, s.hops, c)
  BY CyclesAre DEF CyclesOf, Underway
<1>2. /\ Len(c) \in Nat /\ d \in Nat /\ d + 1 \in 1 .. Len(c)
      /\ c[d + 1] \in LegsOf(s.universe)
  BY <1>1, UnderwayFacts, LenProperties, ElementOfSeq DEF IsCycle
<1>3. CASE d = 0
  BY <1>1, <1>2, <1>3, UnderwayFacts DEF IsCycle, Adjacent
<1>4. CASE d # 0
  <2>1. d \in 1 .. (Len(c) - 1) /\ d \in 1 .. d
    BY <1>2, <1>4
  <2>2. c[d + 1].tokenIn = c[d].tokenOut /\ c[d] = s.path[d]
    BY <1>1, <2>1 DEF IsCycle, Shares
  <2>. QED
    BY <1>2, <1>4, <2>2, UnderwayFacts DEF Adjacent
<1>. QED
  BY <1>3, <1>4

(* It takes the leg that is looked at.                                     *)
Takes(s, c) ==
    /\ Len(s.path) < Len(c) /\ Shares(s, c, Len(s.path))
    /\ c[Len(s.path) + 1] = Current(s)

(* A cycle that shares the path takes the leg that is looked at, or one of *)
(* another place.                                                          *)
LEMMA PlaceDecides ==
    ASSUME NEW s, Underway(s), HasOption(s), NEW c \in CyclesOf(s),
           Len(s.path) < Len(c), Shares(s, c, Len(s.path))
    PROVE  LET m == Len(s.path) + 1 IN
           /\ Place(s, c[m]) \in Nat
           /\ Place(s, c[m]) = s.next[m] <=> c[m] = Current(s)
<1> DEFINE m == Len(s.path) + 1
           A == Adjacent(s.universe, Here(s))
<1>1. c[m] \in A /\ Current(s) \in A
  BY GoesOnHere, CurrentFacts DEF Adjacent
<1>2. Sortable(A) /\ Cardinality(A) \in Nat
  BY AdjacentAreSortable, FS_CardinalityType DEF Underway, Sortable
<1>3. /\ Rank(A, c[m]) \in Nat /\ Rank(A, Current(s)) \in Nat
      /\ Rank(A, c[m]) = Rank(A, Current(s)) => c[m] = Current(s)
  BY <1>1, <1>2, RanksDiffer
<1>4. Place(s, c[m]) = Rank(A, c[m]) + 1 /\ Place(s, Current(s)) = Rank(A, Current(s)) + 1
  BY <1>1 DEF Place, Adjacent
<1>5. Place(s, Current(s)) = s.next[m]
  BY CurrentFacts
<1>. QED
  BY <1>3, <1>4, <1>5

(* The next leg falls due, here: what took the last one is passed, too.    *)
Skipped(t, s) ==
    /\ t.universe = s.universe /\ t.base = s.base /\ t.hops = s.hops /\ t.path = s.path
    /\ t.next \in Seq(Nat \ {0}) /\ Len(t.next) = Len(s.next)
    /\ \A k \in 1 .. Len(s.path) : t.next[k] = s.next[k]
    /\ t.next[Len(s.path) + 1] = s.next[Len(s.path) + 1] + 1

(* After a leg was skipped exactly the cycles that take it are passed,     *)
(* too.                                                                    *)
LEMMA SkippedPasses ==
    ASSUME NEW s, Underway(s), HasOption(s), NEW t, Skipped(t, s), NEW c \in CyclesOf(s)
    PROVE  Passed(t, c) <=> Passed(s, c) \/ Takes(s, c)
<1> DEFINE d == Len(s.path)
           m == d + 1
<1>1. /\ d \in Nat /\ Len(s.next) = m /\ Len(t.next) = m /\ ~(m <= d) /\ m - 1 = d
      /\ s.next[m] \in Nat
  BY UnderwayFacts DEF Underway, OnPath, Skipped
<1>2. t.path = s.path /\ t.universe = s.universe /\ t.next[m] = s.next[m] + 1
  BY DEF Skipped
<1>3. ASSUME NEW k \in 1 .. d PROVE PassedAt(t, c, k) <=> PassedAt(s, c, k)
  <2>1. t.next[k] = s.next[k]
    BY DEF Skipped
  <2>. QED
    BY <1>2, <2>1 DEF PassedAt, Shares, Place
<1>4. Len(c) \in Nat
  <2>1. IsCycle(s.universe, s.base, s.hops, c)
    BY CyclesAre DEF CyclesOf, Underway
  <2>. QED
    BY <2>1, LenProperties DEF IsCycle
<1>5. PassedAt(t, c, m) <=> PassedAt(s, c, m) \/ Takes(s, c)
  <2>1. CASE ~(m <= Len(c) /\ Shares(s, c, d))
    BY <1>1, <1>2, <1>4, <2>1 DEF PassedAt, Shares, Takes
  <2>2. CASE m <= Len(c) /\ Shares(s, c, d)
    <3>1. d < Len(c)
      BY <1>1, <1>4, <2>2
    <3>2. Place(s, c[m]) \in Nat /\ (Place(s, c[m]) = s.next[m] <=> c[m] = Current(s))
      BY <2>2, <3>1, PlaceDecides
    <3>3. Shares(t, c, d) /\ Place(t, c[m]) = Place(s, c[m])
      BY <1>2, <2>2 DEF Shares, Place
    <3>4. PassedAt(t, c, m) <=> Place(s, c[m]) < s.next[m] + 1
      BY <1>1, <1>2, <2>2, <3>3 DEF PassedAt
    <3>5. PassedAt(s, c, m) <=> Place(s, c[m]) < s.next[m]
      BY <1>1, <2>2 DEF PassedAt
    <3>6. Takes(s, c) <=> c[m] = Current(s)
      BY <2>2, <3>1 DEF Takes
    <3>. QED
      BY <1>1, <3>2, <3>4, <3>5, <3>6
  <2>. QED
    BY <2>1, <2>2
<1>6. \A k \in 1 .. m : k \in 1 .. d \/ k = m
  BY <1>1
<1>7. m \in 1 .. m /\ \A k \in 1 .. d : k \in 1 .. m
  BY <1>1
<1>. QED
  BY <1>1, <1>3, <1>5, <1>6, <1>7 DEF Passed

(* One leg deeper nothing is passed yet, and here nothing more is.         *)
Deeper(t, s) ==
    /\ t.universe = s.universe /\ t.base = s.base /\ t.hops = s.hops
    /\ t.path = Append(s.path, Current(s))
    /\ t.next \in Seq(Nat \ {0}) /\ Len(t.next) = Len(s.next) + 1
    /\ \A k \in 1 .. Len(s.path) : t.next[k] = s.next[k]
    /\ t.next[Len(s.path) + 1] = s.next[Len(s.path) + 1] + 1
    /\ t.next[Len(s.path) + 2] = 1

(* The legs of a longer path.                                              *)
LEMMA DeeperPath ==
    ASSUME NEW s, Underway(s), HasOption(s), NEW t, Deeper(t, s)
    PROVE  /\ Len(t.path) = Len(s.path) + 1
           /\ \A k \in 1 .. Len(s.path) : t.path[k] = s.path[k]
           /\ t.path[Len(s.path) + 1] = Current(s)
           /\ t.path \in Seq(LegsOf(s.universe))
<1>1. s.path \in Seq(LegsOf(s.universe)) /\ Current(s) \in LegsOf(s.universe)
  BY CurrentFacts DEF Underway, OnPath
<1>2. t.path = Append(s.path, Current(s))
  BY DEF Deeper
<1>. QED
  BY <1>1, <1>2, AppendProperties

(* Going deeper passes no cycle and forgets none.                          *)
LEMMA DeeperPasses ==
    ASSUME NEW s, Underway(s), HasOption(s), NEW t, Deeper(t, s), NEW c \in CyclesOf(s)
    PROVE  Passed(t, c) <=> Passed(s, c)
<1> DEFINE d == Len(s.path)
           m == d + 1
<1>1. /\ d \in Nat /\ Len(s.next) = m /\ Len(t.next) = m + 1 /\ ~(m <= d) /\ m - 1 = d
      /\ s.next[m] \in Nat
  BY UnderwayFacts DEF Underway, OnPath, Deeper
<1>2. /\ Len(t.path) = m /\ t.path[m] = Current(s)
      /\ \A k \in 1 .. d : t.path[k] = s.path[k]
      /\ t.universe = s.universe /\ t.next[m] = s.next[m] + 1 /\ t.next[m + 1] = 1
  <2>1. m + 1 = Len(s.path) + 2
    BY <1>1
  <2>. QED
    BY <2>1, DeeperPath DEF Deeper
<1>3. ASSUME NEW k \in 1 .. d PROVE PassedAt(t, c, k) <=> PassedAt(s, c, k)
  <2>1. t.next[k] = s.next[k] /\ t.path[k] = s.path[k] /\ k <= Len(t.path) /\ k <= d
    BY <1>1, <1>2 DEF Deeper
  <2>2. \A j \in 1 .. (k - 1) : t.path[j] = s.path[j]
    BY <1>1, <1>2
  <2>3. Shares(t, c, k - 1) <=> Shares(s, c, k - 1)
    BY <2>2 DEF Shares
  <2>. QED
    BY <1>2, <2>1, <2>3 DEF PassedAt, Place
<1>4. IsCycle(s.universe, s.base, s.hops, c)
  BY CyclesAre DEF CyclesOf, Underway
<1>5. Len(c) \in Nat
  BY <1>4, LenProperties DEF IsCycle
<1>6. Shares(t, c, d) <=> Shares(s, c, d)
  BY <1>2 DEF Shares
<1>7. PassedAt(t, c, m) <=> PassedAt(s, c, m)
  <2>1. CASE ~(m <= Len(c) /\ Shares(s, c, d))
    BY <1>1, <1>6, <2>1 DEF PassedAt
  <2>2. CASE m <= Len(c) /\ Shares(s, c, d)
    <3>1. d < Len(c)
      BY <1>1, <1>5, <2>2
    <3>2. Place(s, c[m]) \in Nat /\ (Place(s, c[m]) = s.next[m] <=> c[m] = Current(s))
      BY <2>2, <3>1, PlaceDecides
    <3>3. Place(t, c[m]) = Place(s, c[m])
      BY <1>2 DEF Place
    <3>4. PassedAt(t, c, m) <=> Place(s, c[m]) < s.next[m] + 1 /\ c[m] # Current(s)
      BY <1>1, <1>2, <1>6, <2>2, <3>3 DEF PassedAt
    <3>5. PassedAt(s, c, m) <=> Place(s, c[m]) < s.next[m]
      BY <1>1, <2>2 DEF PassedAt
    <3>. QED
      BY <1>1, <3>2, <3>4, <3>5
  <2>. QED
    BY <2>1, <2>2
<1>8. ~PassedAt(t, c, m + 1)
  <2>1. SUFFICES ASSUME m + 1 <= Len(c), Place(t, c[m + 1]) < 1 PROVE FALSE
    BY <1>2 DEF PassedAt
  <2>2. c[m + 1] \in LegsOf(s.universe)
    BY <1>1, <1>4, <1>5, <2>1, ElementOfSeq DEF IsCycle
  <2>3. Sortable(Adjacent(s.universe, c[m + 1].tokenIn))
    BY AdjacentAreSortable DEF Underway
  <2>4. c[m + 1] \in Adjacent(s.universe, c[m + 1].tokenIn)
    BY <2>2 DEF Adjacent
  <2>5. Rank(Adjacent(s.universe, c[m + 1].tokenIn), c[m + 1]) \in Nat
    BY <2>3, <2>4, RanksDiffer
  <2>. QED
    BY <1>2, <2>1, <2>5 DEF Place
<1>9. \A k \in 1 .. (m + 1) : k \in 1 .. d \/ k = m \/ k = m + 1
  BY <1>1
<1>10. m \in 1 .. m /\ m \in 1 .. (m + 1)
       /\ \A k \in 1 .. d : k \in 1 .. m /\ k \in 1 .. (m + 1)
  BY <1>1
<1>11. \A k \in 1 .. m : k \in 1 .. d \/ k = m
  BY <1>1
<1>12. Passed(s, c) <=> \E k \in 1 .. m : PassedAt(s, c, k)
  BY <1>1 DEF Passed
<1>13. Passed(t, c) <=> \E k \in 1 .. (m + 1) : PassedAt(t, c, k)
  BY <1>1 DEF Passed
<1> HIDE DEF d, m
<1>. QED
  BY <1>3, <1>7, <1>8, <1>9, <1>10, <1>11, <1>12, <1>13

(* Back at the leg before, whatever took it is passed.                     *)
Back(t, s) ==
    /\ t.universe = s.universe /\ t.base = s.base /\ t.hops = s.hops
    /\ t.path \in Seq(LegsOf(s.universe)) /\ Len(t.path) = Len(s.path) - 1
    /\ t.next \in Seq(Nat \ {0}) /\ Len(t.next) = Len(s.next) - 1
    /\ \A k \in 1 .. Len(s.path) : t.next[k] = s.next[k]
    /\ \A k \in 1 .. (Len(s.path) - 1) : t.path[k] = s.path[k]

(* A cycle that shares the path, and has a leg more, took a leg before.    *)
LEMMA NoneLeft ==
    ASSUME NEW s, Underway(s), ~HasOption(s), NEW c \in CyclesOf(s),
           Len(s.path) < Len(c), Shares(s, c, Len(s.path))
    PROVE  PassedAt(s, c, Len(s.path) + 1)
<1> DEFINE d == Len(s.path)
           m == d + 1
           A == Adjacent(s.universe, Here(s))
<1>1. d \in Nat /\ s.hops \in Nat /\ s.next[m] \in Nat /\ Last(s.next) = s.next[m]
      /\ Len(s.next) = m
  BY UnderwayFacts DEF Underway, OnPath
<1>2. Len(c) \in Nat /\ Len(c) <= s.hops
  <2>1. IsCycle(s.universe, s.base, s.hops, c)
    BY CyclesAre DEF CyclesOf, Underway
  <2>. QED
    BY <1>1, <2>1, LenProperties DEF IsCycle
<1>3. ~Full(s)
  BY <1>1, <1>2 DEF Full
<1>4. Sortable(A) /\ Cardinality(A) \in Nat
  BY AdjacentAreSortable, FS_CardinalityType DEF Underway, Sortable
<1>5. s.next[m] > Cardinality(A)
  BY <1>1, <1>3, <1>4 DEF HasOption, Options
<1>6. c[m] \in A /\ c[m].tokenIn = Here(s)
  BY GoesOnHere DEF Adjacent
<1>7. Rank(A, c[m]) \in 0 .. (Cardinality(A) - 1)
  BY <1>4, <1>6, RanksDiffer
<1>8. Place(s, c[m]) < s.next[m]
  BY <1>1, <1>4, <1>5, <1>6, <1>7 DEF Place
<1>9. m <= Len(c) /\ m - 1 = d /\ ~(m <= d)
  BY <1>1, <1>2
<1>. QED
  BY <1>8, <1>9 DEF PassedAt

(* Going back passes no cycle and forgets none: all legs of the dead end   *)
(* were tried.                                                             *)
LEMMA BackPasses ==
    ASSUME NEW s, Underway(s), ~HasOption(s), Len(s.path) > 0,
           NEW t, Back(t, s), NEW c \in CyclesOf(s)
    PROVE  Passed(t, c) <=> Passed(s, c)
<1> DEFINE d == Len(s.path)
           m == d + 1
<1>1. /\ d \in Nat /\ d >= 1 /\ Len(s.next) = m /\ Len(t.next) = d /\ ~(m <= d) /\ m - 1 = d
      /\ s.next[d] \in Nat
  BY UnderwayFacts DEF Underway, OnPath, Back
<1>2. /\ Len(t.path) = d - 1 /\ t.universe = s.universe /\ t.next[d] = s.next[d]
      /\ \A k \in 1 .. (d - 1) : t.path[k] = s.path[k]
  <2>1. d \in 1 .. d
    BY <1>1
  <2>2. \A k \in 1 .. d : t.next[k] = s.next[k]
    BY DEF Back
  <2>3. t.next[d] = s.next[d]
    BY <2>1, <2>2
  <2>4. /\ Len(t.path) = d - 1 /\ t.universe = s.universe
        /\ \A k \in 1 .. (d - 1) : t.path[k] = s.path[k]
    BY DEF Back
  <2>. QED
    BY <2>3, <2>4
<1>3. ASSUME NEW k \in 1 .. (d - 1) PROVE PassedAt(t, c, k) <=> PassedAt(s, c, k)
  <2>1. t.next[k] = s.next[k] /\ t.path[k] = s.path[k] /\ k <= Len(t.path) /\ k <= d
    BY <1>1, <1>2 DEF Back
  <2>2. \A j \in 1 .. (k - 1) : t.path[j] = s.path[j]
    BY <1>1, <1>2
  <2>3. Shares(t, c, k - 1) <=> Shares(s, c, k - 1)
    BY <2>2 DEF Shares
  <2>. QED
    BY <1>2, <2>1, <2>3 DEF PassedAt, Place
<1>4. IsCycle(s.universe, s.base, s.hops, c) /\ Len(c) \in Nat
  BY CyclesAre, LenProperties DEF CyclesOf, Underway, IsCycle
<1>5. Shares(t, c, d - 1) <=> Shares(s, c, d - 1)
  BY <1>2 DEF Shares
<1>6. Shares(s, c, d) <=> Shares(s, c, d - 1) /\ c[d] = s.path[d]
  BY <1>1 DEF Shares
<1>7. Place(s, s.path[d]) = s.next[d] - 1 /\ s.path[d].tokenOut # s.base
  BY <1>1 DEF Underway, OnPath
<1>8. PassedAt(t, c, d) <=> PassedAt(s, c, d) \/ PassedAt(s, c, m)
  <2>1. CASE ~(d <= Len(c) /\ Shares(s, c, d - 1))
    BY <1>1, <1>4, <1>5, <1>6, <2>1 DEF PassedAt
  <2>2. CASE d <= Len(c) /\ Shares(s, c, d - 1) /\ c[d] # s.path[d]
    <3>1. ~PassedAt(s, c, m)
      BY <1>1, <1>6, <2>2 DEF PassedAt
    <3>2. PassedAt(t, c, d) <=> Place(s, c[d]) < s.next[d]
      BY <1>1, <1>2, <1>5, <2>2 DEF PassedAt, Place
    <3>3. PassedAt(s, c, d) <=> Place(s, c[d]) < s.next[d]
      BY <1>1, <2>2 DEF PassedAt
    <3>. QED
      BY <3>1, <3>2, <3>3
  <2>3. CASE d <= Len(c) /\ Shares(s, c, d - 1) /\ c[d] = s.path[d]
    <3>1. d < Len(c)
      BY <1>1, <1>4, <1>7, <2>3 DEF IsCycle
    <3>2. Shares(s, c, d)
      BY <1>6, <2>3
    <3>3. PassedAt(s, c, m)
      BY <3>1, <3>2, NoneLeft
    <3>4. ~(d <= Len(t.path))
      BY <1>1, <1>2
    <3>5. Place(t, c[d]) < t.next[d]
      BY <1>1, <1>2, <1>7, <2>3 DEF Place
    <3>6. PassedAt(t, c, d)
      BY <1>5, <2>3, <3>4, <3>5 DEF PassedAt
    <3>. QED
      BY <3>3, <3>6
  <2>. QED
    BY <2>1, <2>2, <2>3
<1>9. Passed(s, c) <=> \E k \in 1 .. m : PassedAt(s, c, k)
  BY <1>1 DEF Passed
<1>10. Passed(t, c) <=> \E k \in 1 .. d : PassedAt(t, c, k)
  BY <1>1 DEF Passed
<1>11. /\ \A k \in 1 .. m : k \in 1 .. (d - 1) \/ k = d \/ k = m
       /\ \A k \in 1 .. d : k \in 1 .. (d - 1) \/ k = d
       /\ m \in 1 .. m /\ d \in 1 .. m /\ d \in 1 .. d
       /\ \A k \in 1 .. (d - 1) : k \in 1 .. m /\ k \in 1 .. d
  BY <1>1
<1> HIDE DEF d, m
<1>. QED
  BY <1>3, <1>8, <1>9, <1>10, <1>11

(* Back at the start, every cycle is passed.                               *)
LEMMA AllPassed ==
    ASSUME NEW s, Underway(s), ~HasOption(s), Len(s.path) = 0, NEW c \in CyclesOf(s)
    PROVE  Passed(s, c)
<1>1. IsCycle(s.universe, s.base, s.hops, c)
  BY CyclesAre DEF CyclesOf, Underway
<1>2. 0 < Len(c)
  BY <1>1, HopsAssumption, UnderwayFacts, LenProperties DEF IsCycle
<1>3. Shares(s, c, Len(s.path))
  BY DEF Shares
<1>4. PassedAt(s, c, 1)
  BY <1>2, <1>3, NoneLeft
<1>5. Len(s.next) = 1
  BY DEF Underway, OnPath
<1>. QED
  BY <1>4, <1>5 DEF Passed

(* The same search: what an action of the enumeration leaves alone.        *)
SameTask(t, s) ==
    HasFields(t) /\ t.universe = s.universe /\ t.base = s.base /\ t.hops = s.hops

(* What an action makes of the search. *)
WithNextSteps(s, x, y) == [s EXCEPT !.next = x, !.steps = y]
WithPathNext(s, x, y) == [s EXCEPT !.path = x, !.next = y]
WithNextPath(s, x, y) == [s EXCEPT !.next = x, !.path = y]
WithRoutes(s, x) == [s EXCEPT !.routes = x]

(* Each of these updates changes what it names, and nothing else.          *)
LEMMA Updates ==
    ASSUME NEW s, HasFields(s), NEW x, NEW y
    PROVE  /\ SameTask(WithNextSteps(s, x, y), s)
           /\ WithNextSteps(s, x, y).next = x
           /\ WithNextSteps(s, x, y).path = s.path
           /\ WithNextSteps(s, x, y).routes = s.routes
           /\ SameTask(WithPathNext(s, x, y), s)
           /\ WithPathNext(s, x, y).next = y
           /\ WithPathNext(s, x, y).path = x
           /\ WithPathNext(s, x, y).routes = s.routes
           /\ SameTask(WithNextPath(s, x, y), s)
           /\ WithNextPath(s, x, y).next = x
           /\ WithNextPath(s, x, y).path = y
           /\ WithNextPath(s, x, y).routes = s.routes
           /\ SameTask(WithRoutes(s, x), s)
           /\ WithRoutes(s, x).next = s.next
           /\ WithRoutes(s, x).path = s.path
           /\ WithRoutes(s, x).routes = x
BY DEF HasFields, SameTask, WithNextSteps, WithPathNext, WithNextPath,
       WithRoutes

(* A stack without its last entry.                                         *)
LEMMA FrontFacts ==
    ASSUME NEW S, NEW q \in Seq(S), q # <<>>
    PROVE  /\ Len(q) \in Nat \ {0} /\ Front(q) \in Seq(S) /\ Len(Front(q)) = Len(q) - 1
           /\ \A k \in 1 .. (Len(q) - 1) : Front(q)[k] = q[k]
           /\ Last(q) = q[Len(q)] /\ Last(q) \in S
<1>1. Len(q) \in Nat \ {0}
  BY EmptySeq
<1>2. \A k \in 1 .. Len(q) : q[k] \in S
  BY ElementOfSeq
<1>3. \A k \in 1 .. (Len(q) - 1) : q[k] \in S
  BY <1>1, <1>2
<1>4. /\ SubSeq(q, 1, Len(q) - 1) \in Seq(S)
      /\ Len(SubSeq(q, 1, Len(q) - 1)) = IF 1 <= Len(q) - 1 THEN (Len(q) - 1) - 1 + 1 ELSE 0
      /\ \A k \in 1 .. ((Len(q) - 1) - 1 + 1) : SubSeq(q, 1, Len(q) - 1)[k] = q[1 + k - 1]
  BY <1>1, <1>3, SubSeqProperties
<1>5. Len(Front(q)) = Len(q) - 1
  <2> DEFINE n == Len(q)
  <2>1. (IF 1 <= n - 1 THEN (n - 1) - 1 + 1 ELSE 0) = n - 1
    <3>1. n \in Nat /\ n >= 1
      BY <1>1
    <3> HIDE DEF n
    <3>. QED
      BY <3>1
  <2>2. Len(Front(q)) = IF 1 <= n - 1 THEN (n - 1) - 1 + 1 ELSE 0
    BY <1>4 DEF Front
  <2>. QED
    BY <2>1, <2>2
<1>6. \A k \in 1 .. (Len(q) - 1) : Front(q)[k] = q[k]
  <2> SUFFICES ASSUME NEW k \in 1 .. (Len(q) - 1) PROVE SubSeq(q, 1, Len(q) - 1)[k] = q[k]
    BY DEF Front
  <2>1. k \in 1 .. ((Len(q) - 1) - 1 + 1) /\ 1 + k - 1 = k
    BY <1>1
  <2>. QED
    BY <1>4, <2>1
<1>. QED
  BY <1>1, <1>2, <1>4, <1>5, <1>6 DEF Front, Last

(* Skipping a leg, as the code does it. *)
LEMMA SkipFacts ==
    ASSUME NEW s, HasFields(s), Underway(s)
    PROVE  /\ SameTask(Skip(s), s) /\ Skipped(Skip(s), s)
           /\ Skip(s).path = s.path /\ Skip(s).routes = s.routes
<1> DEFINE q == s.next
           m == Len(s.path) + 1
           x == Append(Front(q), Last(q) + 1)
<1>1. /\ q \in Seq(Nat \ {0}) /\ q # <<>> /\ Len(q) = m /\ m \in Nat /\ m >= 1 /\ m - 1 = Len(s.path)
  BY UnderwayFacts DEF Underway, OnPath
<1>2. /\ Front(q) \in Seq(Nat \ {0}) /\ Len(Front(q)) = m - 1
      /\ \A k \in 1 .. (m - 1) : Front(q)[k] = q[k]
      /\ Last(q) = q[m] /\ Last(q) + 1 \in Nat \ {0}
  <2>1. /\ Front(q) \in Seq(Nat \ {0}) /\ Len(Front(q)) = Len(q) - 1
        /\ \A k \in 1 .. (Len(q) - 1) : Front(q)[k] = q[k]
        /\ Last(q) = q[Len(q)] /\ Last(q) \in Nat \ {0}
    <3> DEFINE S == Nat \ {0}
    <3>1. q \in Seq(S) /\ q # <<>>
      BY <1>1
    <3> HIDE DEF S, q
    <3>2. /\ Front(q) \in Seq(S) /\ Len(Front(q)) = Len(q) - 1
          /\ \A k \in 1 .. (Len(q) - 1) : Front(q)[k] = q[k]
          /\ Last(q) = q[Len(q)] /\ Last(q) \in S
      BY <3>1, FrontFacts
    <3>. QED
      BY <3>2 DEF S
  <2>2. Len(q) = m
    BY <1>1
  <2> HIDE DEF q, m
  <2>. QED
    BY <2>1, <2>2
<1>3. /\ x \in Seq(Nat \ {0}) /\ Len(x) = m
      /\ \A k \in 1 .. (m - 1) : x[k] = q[k]
      /\ x[m] = q[m] + 1
  <2> DEFINE f == Front(q)
             l == Last(q) + 1
  <2>1. /\ f \in Seq(Nat \ {0}) /\ l \in Nat \ {0} /\ Len(f) = m - 1 /\ l = q[m] + 1
        /\ \A k \in 1 .. (m - 1) : f[k] = q[k]
    BY <1>2
  <2> HIDE DEF f, l, q, m
  <2>2. /\ Append(f, l) \in Seq(Nat \ {0}) /\ Len(Append(f, l)) = Len(f) + 1
        /\ \A k \in 1 .. Len(f) : Append(f, l)[k] = f[k]
        /\ Append(f, l)[Len(f) + 1] = l
    BY <2>1, AppendProperties
  <2>3. m - 1 + 1 = m
    BY <1>1
  <2>4. x = Append(f, l)
    BY DEF x, f, l
  <2>. QED
    BY <2>1, <2>2, <2>3, <2>4
<1>4. Skip(s) = [s EXCEPT !.next = x, !.steps = s.steps + 1]
  BY DEF Skip
<1> HIDE DEF x
<1>5. /\ SameTask(Skip(s), s) /\ Skip(s).next = x
      /\ Skip(s).path = s.path /\ Skip(s).routes = s.routes
  <2>1. Skip(s) = WithNextSteps(s, x, s.steps + 1)
    BY <1>4 DEF WithNextSteps
  <2>. QED
    BY <2>1, Updates
<1>. QED
  BY <1>1, <1>3, <1>5 DEF Skipped, SameTask

(* The search stays on a path when a leg is skipped,                       *)
LEMMA SkippedUnderway ==
    ASSUME NEW s, Underway(s), NEW t, Skipped(t, s)
    PROVE  Underway(t) /\ t.next # <<>>
<1>1. OnPath(t)
  <2>1. /\ t.path = s.path /\ t.universe = s.universe /\ t.base = s.base /\ t.hops = s.hops
        /\ \A k \in 1 .. Len(s.path) : t.next[k] = s.next[k]
        /\ t.next \in Seq(Nat \ {0}) /\ Len(t.next) = Len(s.next)
    BY DEF Skipped
  <2>2. \A l : Place(t, l) = Place(s, l)
    BY <2>1 DEF Place
  <2>3. OnPath(s) /\ Len(s.next) = Len(s.path) + 1
    BY DEF Underway, OnPath
  <2>4. \A k \in 1 .. Len(t.path) :
           /\ t.path[k].tokenIn = IF k = 1 THEN t.base ELSE t.path[k - 1].tokenOut
           /\ t.path[k].tokenOut # t.base
           /\ Place(t, t.path[k]) = t.next[k] - 1
    <3>1. \A k \in 1 .. Len(s.path) :
             /\ s.path[k].tokenIn = IF k = 1 THEN s.base ELSE s.path[k - 1].tokenOut
             /\ s.path[k].tokenOut # s.base
             /\ Place(s, s.path[k]) = s.next[k] - 1
      BY <2>3 DEF OnPath
    <3>. QED
      BY <2>1, <2>2, <3>1
  <2>5. /\ t.path \in Seq(LegsOf(t.universe)) /\ Len(t.path) <= t.hops
        /\ \A j, k \in 1 .. Len(t.path) :
              j # k => /\ t.path[j].pool # t.path[k].pool
                       /\ t.path[j].tokenOut # t.path[k].tokenOut
    BY <2>1, <2>3 DEF OnPath
  <2>. QED
    BY <2>1, <2>3, <2>4, <2>5 DEF OnPath
<1>2. Underway(t)
  BY <1>1 DEF Underway, Skipped
<1>. QED
  BY <1>2, UnderwayFacts

(* when it goes a leg deeper to a new pool and a new token,                *)
LEMMA DeeperUnderway ==
    ASSUME NEW s, Underway(s), HasOption(s), NEW t, Deeper(t, s),
           Current(s).pool \notin UsedPools(s),
           Current(s).tokenOut # s.base, Current(s).tokenOut \notin Visited(s)
    PROVE  Underway(t) /\ t.next # <<>>
<1> DEFINE d == Len(s.path)
           m == d + 1
<1>1. d \in Nat /\ Len(s.next) = m /\ s.hops \in Nat /\ d < s.hops
  <2>1. Len(s.next) = m
    BY DEF Underway, OnPath
  <2>. QED
    BY <2>1, UnderwayFacts, CurrentFacts
<1>2. /\ Len(t.path) = m /\ t.path[m] = Current(s) /\ t.path \in Seq(LegsOf(s.universe))
      /\ \A k \in 1 .. d : t.path[k] = s.path[k]
  BY DeeperPath
<1>3. /\ t.universe = s.universe /\ t.base = s.base /\ t.hops = s.hops
      /\ t.next \in Seq(Nat \ {0}) /\ Len(t.next) = m + 1
      /\ \A k \in 1 .. d : t.next[k] = s.next[k]
      /\ t.next[m] = s.next[m] + 1 /\ s.next[m] \in Nat
  <2>1. m \in 1 .. Len(s.next)
    BY <1>1
  <2>2. s.next[m] \in Nat
    BY <2>1, UnderwayFacts
  <2>. QED
    BY <1>1, <2>2 DEF Deeper
<1>4. \A l : Place(t, l) = Place(s, l)
  BY <1>3 DEF Place
<1>5. /\ Current(s).tokenIn = IF m = 1 THEN s.base ELSE s.path[d].tokenOut
      /\ Place(s, Current(s)) = s.next[m]
  BY <1>1, CurrentFacts, UnderwayFacts
<1>6. \A k \in 1 .. d : /\ s.path[k].pool # Current(s).pool
                        /\ s.path[k].tokenOut # Current(s).tokenOut
  BY UnderwayFacts DEF UsedPools, Visited
<1>7. ASSUME NEW k \in 1 .. d
      PROVE  /\ t.path[k].tokenIn = IF k = 1 THEN t.base ELSE t.path[k - 1].tokenOut
             /\ t.path[k].tokenOut # t.base
             /\ Place(t, t.path[k]) = t.next[k] - 1
  <2>1. k = 1 \/ k - 1 \in 1 .. d
    BY <1>1
  <2>2. /\ s.path[k].tokenIn = IF k = 1 THEN s.base ELSE s.path[k - 1].tokenOut
        /\ s.path[k].tokenOut # s.base
        /\ Place(s, s.path[k]) = s.next[k] - 1
    BY DEF Underway, OnPath
  <2>. QED
    BY <1>2, <1>3, <1>4, <2>1, <2>2
<1>8. /\ t.path[m].tokenIn = IF m = 1 THEN t.base ELSE t.path[m - 1].tokenOut
      /\ t.path[m].tokenOut # t.base
      /\ Place(t, t.path[m]) = t.next[m] - 1
  <2>1. m = 1 \/ (m - 1 = d /\ d \in 1 .. d)
    BY <1>1
  <2>2. (t.next[m]) - 1 = s.next[m]
    BY <1>3
  <2>. QED
    BY <1>2, <1>3, <1>4, <1>5, <2>1, <2>2
<1>9. \A k \in 1 .. m : k \in 1 .. d \/ k = m
  BY <1>1
<1>10. \A j, k \in 1 .. m : j # k => /\ t.path[j].pool # t.path[k].pool
                                     /\ t.path[j].tokenOut # t.path[k].tokenOut
  <2>1. \A j, k \in 1 .. d : j # k => /\ s.path[j].pool # s.path[k].pool
                                      /\ s.path[j].tokenOut # s.path[k].tokenOut
    BY DEF Underway, OnPath
  <2> HIDE DEF d, m
  <2>. QED
    BY <1>2, <1>6, <1>9, <2>1
<1>11. m <= s.hops
  BY <1>1
<1>12. \A k \in 1 .. m :
          /\ t.path[k].tokenIn = IF k = 1 THEN t.base ELSE t.path[k - 1].tokenOut
          /\ t.path[k].tokenOut # t.base
          /\ Place(t, t.path[k]) = t.next[k] - 1
  BY <1>7, <1>8, <1>9
<1>13. OnPath(t)
  <2> HIDE DEF d, m
  <2>. QED
    BY <1>2, <1>3, <1>10, <1>11, <1>12 DEF OnPath
<1>14. Underway(t)
  BY <1>3, <1>13 DEF Underway
<1>. QED
  BY <1>14, UnderwayFacts

(* and when it goes back.                                                  *)
LEMMA BackUnderway ==
    ASSUME NEW s, Underway(s), Len(s.path) > 0, NEW t, Back(t, s)
    PROVE  Underway(t) /\ t.next # <<>>
<1> DEFINE d == Len(s.path)
<1>1. /\ d \in Nat /\ d >= 1 /\ Len(s.next) = d + 1 /\ s.hops \in Nat /\ d <= s.hops
  BY UnderwayFacts DEF Underway, OnPath
<1>2. /\ t.universe = s.universe /\ t.base = s.base /\ t.hops = s.hops
      /\ t.path \in Seq(LegsOf(s.universe)) /\ Len(t.path) = d - 1
      /\ t.next \in Seq(Nat \ {0}) /\ Len(t.next) = Len(s.next) - 1
      /\ \A k \in 1 .. d : t.next[k] = s.next[k]
      /\ \A k \in 1 .. (d - 1) : t.path[k] = s.path[k]
  BY DEF Back
<1>3. \A l : Place(t, l) = Place(s, l)
  BY <1>2 DEF Place
<1>4. \A k \in 1 .. (d - 1) : k \in 1 .. d /\ (k = 1 \/ k - 1 \in 1 .. (d - 1))
  BY <1>1
<1>5. ASSUME NEW k \in 1 .. (d - 1)
      PROVE  /\ t.path[k].tokenIn = IF k = 1 THEN t.base ELSE t.path[k - 1].tokenOut
             /\ t.path[k].tokenOut # t.base
             /\ Place(t, t.path[k]) = t.next[k] - 1
  <2>1. /\ s.path[k].tokenIn = IF k = 1 THEN s.base ELSE s.path[k - 1].tokenOut
        /\ s.path[k].tokenOut # s.base
        /\ Place(s, s.path[k]) = s.next[k] - 1
    BY <1>4 DEF Underway, OnPath
  <2>2. /\ t.path[k] = s.path[k] /\ t.next[k] = s.next[k] /\ t.base = s.base
        /\ k # 1 => t.path[k - 1] = s.path[k - 1]
    BY <1>2, <1>4
  <2> HIDE DEF d
  <2>. QED
    BY <1>3, <2>1, <2>2
<1>6. \A j, k \in 1 .. (d - 1) : j # k => /\ t.path[j].pool # t.path[k].pool
                                          /\ t.path[j].tokenOut # t.path[k].tokenOut
  <2>1. \A j, k \in 1 .. d : j # k => /\ s.path[j].pool # s.path[k].pool
                                      /\ s.path[j].tokenOut # s.path[k].tokenOut
    BY DEF Underway, OnPath
  <2>2. \A k \in 1 .. (d - 1) : k \in 1 .. d /\ t.path[k] = s.path[k]
    BY <1>2, <1>4
  <2> HIDE DEF d
  <2>. QED
    BY <2>1, <2>2
<1>7. d - 1 <= s.hops /\ Len(t.next) = (d - 1) + 1
  BY <1>1, <1>2
<1>8. OnPath(t)
  <2> HIDE DEF d
  <2>. QED
    BY <1>2, <1>5, <1>6, <1>7 DEF OnPath
<1>9. Underway(t)
  BY <1>2, <1>8 DEF Underway
<1>. QED
  BY <1>9, UnderwayFacts

-----------------------------------------------------------------------------
(* The routes found so far are the cycles that are passed; at the end, all *)
(* of them.                                                                *)
EnumInv(s) ==
    /\ HasFields(s) /\ Searchable(s.universe) /\ s.hops \in MinRouteHops .. MaxRouteHops
    /\ s.next # <<>> => OnPath(s) /\ s.routes = {c \in CyclesOf(s) : Passed(s, c)}
    /\ s.next = <<>> => s.routes = CyclesOf(s)

(* What it says while the search is enumerating.                           *)
LEMMA EnumeratingFacts ==
    ASSUME EnumInv(search), Enumerating
    PROVE  /\ HasFields(search) /\ Underway(search)
           /\ search.routes = {c \in CyclesOf(search) : Passed(search, c)}
BY DEF EnumInv, Enumerating, Underway

(* Nothing is lost at a leg that no cycle takes. *)
LEMMA SkipKeeps ==
    ASSUME NEW s, HasFields(s), Underway(s), HasOption(s),
           s.routes = {c \in CyclesOf(s) : Passed(s, c)},
           NEW t, SameTask(t, s), t.next = Skip(s).next, t.path = s.path,
           t.routes = s.routes \cup {c \in CyclesOf(s) : Takes(s, c)}
    PROVE  EnumInv(t)
<1>1. Skipped(Skip(s), s)
  BY SkipFacts
<1>2. Skipped(t, s)
  BY <1>1 DEF Skipped, SameTask
<1>3. Underway(t) /\ t.next # <<>>
  BY <1>2, SkippedUnderway
<1>4. \A c \in CyclesOf(s) : Passed(t, c) <=> Passed(s, c) \/ Takes(s, c)
  BY <1>2, SkippedPasses
<1>5. CyclesOf(t) = CyclesOf(s)
  BY DEF CyclesOf, SameTask
<1>6. t.routes = {c \in CyclesOf(t) : Passed(t, c)}
  BY <1>4, <1>5
<1>. QED
  BY <1>3, <1>6 DEF EnumInv, Underway, SameTask

(* No cycle takes a leg of a pool that the path uses.                      *)
LEMMA NoCycleUsesAPoolTwice ==
    ASSUME NEW s, Underway(s), HasOption(s), NEW c \in CyclesOf(s), Takes(s, c)
    PROVE  Current(s).pool \notin UsedPools(s)
<1> DEFINE d == Len(s.path)
<1>1. IsCycle(s.universe, s.base, s.hops, c)
  BY CyclesAre DEF CyclesOf, Underway
<1>2. Len(c) \in Nat /\ d \in Nat /\ d < Len(c) /\ DOMAIN s.path = 1 .. d
  BY <1>1, UnderwayFacts, LenProperties DEF IsCycle, Takes
<1>3. ASSUME NEW k \in 1 .. d PROVE s.path[k].pool # Current(s).pool
  <2>1. k \in 1 .. Len(c) /\ d + 1 \in 1 .. Len(c) /\ k # d + 1
    BY <1>2
  <2>2. c[k].pool # c[d + 1].pool
    BY <1>1, <2>1 DEF IsCycle
  <2>. QED
    BY <2>2 DEF Takes, Shares
<1>. QED
  BY <1>2, <1>3 DEF UsedPools

(* Nor a token, but for the last leg, which returns to the first.          *)
LEMMA NoCycleVisitsATokenTwice ==
    ASSUME NEW s, Underway(s), HasOption(s), NEW c \in CyclesOf(s), Takes(s, c)
    PROVE  /\ Current(s).tokenOut \in Visited(s) => Current(s).tokenOut = s.base
           /\ Current(s).tokenOut = s.base => Len(c) = Len(s.path) + 1
<1> DEFINE d == Len(s.path)
           m == d + 1
<1>1. IsCycle(s.universe, s.base, s.hops, c)
  BY CyclesAre DEF CyclesOf, Underway
<1>2. /\ Len(c) \in Nat /\ d \in Nat /\ d < Len(c) /\ DOMAIN s.path = 1 .. d
      /\ \A k \in 1 .. d : c[k] = s.path[k]
      /\ c[m] = Current(s) /\ c[1].tokenIn = s.base /\ c[Len(c)].tokenOut = s.base
  BY <1>1, UnderwayFacts, LenProperties DEF IsCycle, Takes, Shares
<1>3. CASE Len(c) = m
  BY <1>2, <1>3
<1>4. CASE Len(c) # m
  <2>1. m \in 1 .. (Len(c) - 1) /\ m + 1 \in 1 .. Len(c) /\ 1 \in 1 .. Len(c) /\ m + 1 # 1
    BY <1>2, <1>4
  <2>2. Current(s).tokenOut = c[m + 1].tokenIn
    BY <1>1, <1>2, <2>1 DEF IsCycle
  <2>3. Current(s).tokenOut # s.base
    BY <1>1, <1>2, <2>1, <2>2 DEF IsCycle
  <2>4. ASSUME NEW k \in 1 .. d PROVE Current(s).tokenOut # s.path[k].tokenOut
    <3>1. k \in 1 .. (Len(c) - 1) /\ k + 1 \in 1 .. Len(c) /\ k + 1 # m + 1
      BY <1>2
    <3>2. c[k].tokenOut = c[k + 1].tokenIn /\ c[k + 1].tokenIn # c[m + 1].tokenIn
      BY <1>1, <2>1, <3>1 DEF IsCycle
    <3>. QED
      BY <1>2, <2>2, <3>2
  <2>. QED
    BY <1>2, <2>3, <2>4 DEF Visited
<1>. QED
  BY <1>3, <1>4

(* A leg back to the base token closes the cycle that takes it.            *)
LEMMA ClosingTakes ==
    ASSUME NEW s, Underway(s), HasOption(s), Current(s).tokenOut = s.base,
           Current(s).pool \notin UsedPools(s)
    PROVE  LET legs == Append(s.path, Current(s)) IN
           /\ Len(legs) = Len(s.path) + 1
           /\ {c \in CyclesOf(s) : Takes(s, c)} = IF Len(legs) < MinRouteHops THEN {} ELSE {legs}
<1> DEFINE d == Len(s.path)
           m == d + 1
           legs == Append(s.path, Current(s))
           L == LegsOf(s.universe)
<1>1. s.path \in Seq(L) /\ Current(s) \in L /\ d \in Nat /\ d < s.hops /\ s.hops \in Nat
  BY CurrentFacts, UnderwayFacts DEF Underway, OnPath
<1>2. /\ legs \in Seq(L) /\ Len(legs) = m /\ legs[m] = Current(s)
      /\ \A k \in 1 .. d : legs[k] = s.path[k]
  BY <1>1, AppendProperties
<1>3. ASSUME NEW c \in CyclesOf(s), Takes(s, c) PROVE c = legs /\ ~(m < MinRouteHops)
  <2>1. IsCycle(s.universe, s.base, s.hops, c)
    BY CyclesAre DEF CyclesOf, Underway
  <2>2. c \in Seq(L) /\ Len(c) = m
    BY <1>3, <2>1, NoCycleVisitsATokenTwice DEF IsCycle
  <2>3. \A k \in 1 .. m : c[k] = legs[k]
    <3>1. \A k \in 1 .. m : k \in 1 .. d \/ k = m
      BY <1>1
    <3>. QED
      BY <1>2, <1>3, <3>1 DEF Takes, Shares
  <2>4. c = legs
    <3> HIDE DEF legs, m, L
    <3>. QED
      BY <1>2, <2>2, <2>3, SeqEqual
  <2>. QED
    BY <2>1, <2>2, <2>4, HopsAssumption DEF IsCycle
<1>4. ASSUME ~(m < MinRouteHops) PROVE legs \in CyclesOf(s) /\ Takes(s, legs)
  <2>1. m \in MinRouteHops .. s.hops
    BY <1>1, <1>4, HopsAssumption
  <2>2. /\ Current(s).tokenIn = IF d = 0 THEN s.base ELSE s.path[d].tokenOut
        /\ \A k \in 1 .. d :
              /\ s.path[k].tokenIn = IF k = 1 THEN s.base ELSE s.path[k - 1].tokenOut
              /\ s.path[k].tokenOut # s.base
        /\ \A j, k \in 1 .. d : j # k => /\ s.path[j].pool # s.path[k].pool
                                         /\ s.path[j].tokenOut # s.path[k].tokenOut
    BY CurrentFacts, UnderwayFacts DEF Underway, OnPath
  <2>3. \A k \in 1 .. d : s.path[k].pool # Current(s).pool
    BY UnderwayFacts DEF UsedPools
  <2>4. legs[1].tokenIn = s.base
    <3>1. 1 \in 1 .. d \/ d = 0
      BY <1>1
    <3>. QED
      BY <1>2, <2>2, <3>1
  <2>5. ASSUME NEW k \in 1 .. (m - 1) PROVE legs[k].tokenOut = legs[k + 1].tokenIn
    <3>1. k \in 1 .. d /\ (k + 1 \in 1 .. d \/ (k = d /\ d # 0 /\ k + 1 = m))
      BY <1>1
    <3>2. CASE k + 1 \in 1 .. d
      <4>1. s.path[k + 1].tokenIn = s.path[k].tokenOut
        <5>1. k + 1 # 1 /\ (k + 1) - 1 = k
          BY <3>1
        <5>. QED
          BY <2>2, <3>2, <5>1
      <4>. QED
        BY <1>2, <3>1, <3>2, <4>1
    <3>3. CASE k = d /\ d # 0 /\ k + 1 = m
      BY <1>2, <2>2, <3>1, <3>3
    <3>. QED
      BY <3>1, <3>2, <3>3
  <2>6. \A k \in 1 .. m : k \in 1 .. d \/ k = m
    BY <1>1
  <2>7. \A j, k \in 1 .. m : j # k => legs[j].pool # legs[k].pool
    <3> HIDE DEF legs, d, m
    <3>. QED
      BY <1>2, <2>2, <2>3, <2>6
  <2>8. ASSUME NEW j \in 1 .. m, NEW k \in 1 .. m, j < k
        PROVE  legs[j].tokenIn # legs[k].tokenIn
    <3>1. k - 1 \in 1 .. d /\ k - 1 \in 1 .. (m - 1) /\ (k - 1) + 1 = k
      BY <1>1, <2>8
    <3>2. legs[k].tokenIn = s.path[k - 1].tokenOut
      BY <1>2, <2>5, <3>1
    <3>3. CASE j = 1
      BY <2>2, <2>4, <3>1, <3>2, <3>3
    <3>4. CASE j # 1
      <4>1. j - 1 \in 1 .. d /\ j - 1 \in 1 .. (m - 1) /\ (j - 1) + 1 = j /\ j - 1 # k - 1
        BY <1>1, <2>8, <3>4
      <4>2. legs[j].tokenIn = s.path[j - 1].tokenOut
        BY <1>2, <2>5, <4>1
      <4>. QED
        BY <2>2, <3>1, <3>2, <4>1, <4>2
    <3>. QED
      BY <3>3, <3>4
  <2>9. \A j, k \in 1 .. m : j # k => legs[j].tokenIn # legs[k].tokenIn
    <3>1. \A j, k \in 1 .. m : j # k => j < k \/ k < j
      BY <1>1
    <3>. QED
      BY <2>8, <3>1
  <2>10. IsCycle(s.universe, s.base, s.hops, legs)
    <3> HIDE DEF legs, d, m
    <3>. QED
      BY <1>2, <2>1, <2>4, <2>5, <2>7, <2>9 DEF IsCycle, L
  <2>11. legs \in CyclesOf(s)
    BY <2>10, CyclesAre DEF CyclesOf, Underway
  <2>12. Takes(s, legs)
    <3>1. d < m
      BY <1>1
    <3>. QED
      BY <1>2, <3>1 DEF Takes, Shares
  <2>. QED
    BY <2>11, <2>12
<1> HIDE DEF legs, m
<1>5. {c \in CyclesOf(s) : Takes(s, c)} = IF m < MinRouteHops THEN {} ELSE {legs}
  BY <1>3, <1>4
<1>. QED
  BY <1>2, <1>5 DEF legs, m

(* LookAtUsedPool and LookAtVisitedToken: no cycle takes the leg, none is  *)
(* lost.                                                                   *)
LEMMA LookAtDeadEndKeeps ==
    ASSUME EnumInv(search), LookAtUsedPool \/ LookAtVisitedToken
    PROVE  EnumInv(search')
<1>1. /\ HasFields(search) /\ Underway(search) /\ HasOption(search)
      /\ search.routes = {c \in CyclesOf(search) : Passed(search, c)}
  BY EnumeratingFacts DEF LookAtUsedPool, LookAtVisitedToken, Look
<1>2. {c \in CyclesOf(search) : Takes(search, c)} = {}
  <2>1. CASE LookAtUsedPool
    BY <1>1, <2>1, NoCycleUsesAPoolTwice DEF LookAtUsedPool
  <2>2. CASE LookAtVisitedToken
    BY <1>1, <2>2, NoCycleVisitsATokenTwice DEF LookAtVisitedToken
  <2>. QED
    BY <2>1, <2>2
<1>3. search' = Skip(search)
  BY DEF LookAtUsedPool, LookAtVisitedToken
<1>4. /\ SameTask(search', search) /\ search'.next = Skip(search).next
      /\ search'.path = search.path /\ search'.routes = search.routes
  BY <1>1, <1>3, SkipFacts
<1>5. search'.routes = search.routes \cup {c \in CyclesOf(search) : Takes(search, c)}
  BY <1>2, <1>4
<1>. QED
  BY <1>1, <1>4, <1>5, SkipKeeps

(* CloseCycle: the one cycle that takes the leg is recorded, if it is long *)
(* enough.                                                                 *)
LEMMA CloseCycleKeeps ==
    ASSUME EnumInv(search), CloseCycle
    PROVE  search' = NoSearch \/ EnumInv(search')
<1> DEFINE legs == Append(search.path, Current(search))
           routes == search.routes \cup {legs}
           taking == {c \in CyclesOf(search) : Takes(search, c)}
<1>1. /\ HasFields(search) /\ Underway(search) /\ HasOption(search)
      /\ search.routes = {c \in CyclesOf(search) : Passed(search, c)}
  BY EnumeratingFacts DEF CloseCycle, Look
<1>2. taking = IF Len(legs) < MinRouteHops THEN {} ELSE {legs}
  BY <1>1, ClosingTakes DEF CloseCycle
<1>3. /\ SameTask(Skip(search), search) /\ Skip(search).path = search.path
      /\ Skip(search).routes = search.routes
  BY <1>1, SkipFacts
<1>4. CASE Len(legs) < MinRouteHops
  <2>1. search' = Skip(search)
    BY <1>4 DEF CloseCycle
  <2>2. search'.routes = search.routes \cup taking
    BY <1>2, <1>3, <1>4, <2>1
  <2>. QED
    BY <1>1, <1>3, <2>1, <2>2, SkipKeeps
<1>5. CASE ~(Len(legs) < MinRouteHops)
  <2>1. search' = NoSearch \/ search' = WithRoutes(Skip(search), routes)
    BY <1>5 DEF CloseCycle, AddRoute, OutOfRoutes, WithRoutes
  <2>2. CASE search' = WithRoutes(Skip(search), routes)
    <3>1. HasFields(Skip(search))
      BY <1>3 DEF SameTask
    <3>2. /\ SameTask(search', Skip(search)) /\ search'.next = Skip(search).next
          /\ search'.path = Skip(search).path /\ search'.routes = routes
      BY <2>2, <3>1, Updates
    <3>3. SameTask(search', search) /\ search'.path = search.path
      BY <1>3, <3>2 DEF SameTask
    <3>4. search'.routes = search.routes \cup taking
      BY <1>2, <1>5, <3>2
    <3>. QED
      BY <1>1, <3>2, <3>3, <3>4, SkipKeeps
  <2>. QED
    BY <2>1, <2>2
<1>. QED
  BY <1>4, <1>5

(* GoDeeper: the cycles that take the leg are still to come.               *)
LEMMA GoDeeperKeeps ==
    ASSUME EnumInv(search), GoDeeper
    PROVE  EnumInv(search')
<1> DEFINE s == search
           t == search'
           q == Skip(search).next
           m == Len(search.path) + 1
<1>1. /\ HasFields(s) /\ Underway(s) /\ HasOption(s)
      /\ s.routes = {c \in CyclesOf(s) : Passed(s, c)}
      /\ Current(s).pool \notin UsedPools(s)
      /\ Current(s).tokenOut # s.base /\ Current(s).tokenOut \notin Visited(s)
  BY EnumeratingFacts DEF GoDeeper, Look
<1>2. /\ SameTask(Skip(s), s) /\ Skipped(Skip(s), s)
      /\ Skip(s).path = s.path /\ Skip(s).routes = s.routes
  BY <1>1, SkipFacts
<1>3. t = WithPathNext(Skip(s), Append(s.path, Current(s)), Append(q, 1))
  BY <1>2 DEF GoDeeper, WithPathNext
<1>4. /\ SameTask(t, Skip(s)) /\ t.path = Append(s.path, Current(s)) /\ t.next = Append(q, 1)
      /\ t.routes = Skip(s).routes
  <2> DEFINE u == Skip(s)
             x == Append(s.path, Current(s))
             y == Append(q, 1)
  <2>1. HasFields(u)
    BY <1>2 DEF SameTask
  <2>2. t = WithPathNext(u, x, y)
    BY <1>3
  <2>3. SameTask(t, u) /\ t.path = x /\ t.next = y /\ t.routes = u.routes
    <3> HIDE DEF s, t, u, x, y
    <3>. QED
      BY <2>1, <2>2, Updates
  <2>. QED
    BY <2>3
<1>5. SameTask(t, s) /\ t.routes = s.routes
  BY <1>2, <1>4 DEF SameTask
<1>6. /\ q \in Seq(Nat \ {0}) /\ Len(q) = m /\ Len(s.next) = m /\ m \in Nat /\ m - 1 = Len(s.path)
      /\ \A k \in 1 .. (m - 1) : q[k] = s.next[k]
      /\ q[m] = s.next[m] + 1
  BY <1>1, <1>2, UnderwayFacts DEF Skipped, Underway, OnPath
<1>7. /\ Append(q, 1) \in Seq(Nat \ {0}) /\ Len(Append(q, 1)) = m + 1
      /\ \A k \in 1 .. m : Append(q, 1)[k] = q[k]
      /\ Append(q, 1)[m + 1] = 1
  <2> HIDE DEF q, m
  <2>1. 1 \in Nat \ {0}
    OBVIOUS
  <2>. QED
    BY <1>6, <2>1, AppendProperties
<1>8. /\ \A k \in 1 .. (m - 1) : Append(q, 1)[k] = s.next[k]
      /\ Append(q, 1)[m] = s.next[m] + 1
      /\ m + 1 = Len(s.path) + 2
  <2>1. (\A k \in 1 .. (m - 1) : k \in 1 .. m) /\ m \in 1 .. m
    <3>1. m >= 1
      BY <1>1, UnderwayFacts
    <3>. QED
      BY <1>6, <3>1
  <2>2. m + 1 = Len(s.path) + 2
    BY <1>1, UnderwayFacts
  <2>. QED
    BY <1>6, <1>7, <2>1, <2>2
<1>9. Deeper(t, s)
  BY <1>4, <1>5, <1>6, <1>7, <1>8 DEF Deeper, SameTask
<1>10. Underway(t) /\ t.next # <<>>
  BY <1>1, <1>9, DeeperUnderway
<1>11. CyclesOf(t) = CyclesOf(s) /\ \A c \in CyclesOf(s) : Passed(t, c) <=> Passed(s, c)
  BY <1>1, <1>5, <1>9, DeeperPasses DEF CyclesOf, SameTask
<1>12. t.routes = {c \in CyclesOf(t) : Passed(t, c)}
  BY <1>1, <1>5, <1>11
<1>. QED
  BY <1>5, <1>10, <1>12 DEF EnumInv, Underway, SameTask

(* GoBack: nothing is left here; back at the base token nothing is left at *)
(* all.                                                                    *)
LEMMA GoBackKeeps ==
    ASSUME EnumInv(search), GoBack
    PROVE  EnumInv(search')
<1> DEFINE s == search
           t == search'
           path == IF s.path = <<>> THEN s.path ELSE Front(s.path)
           L == LegsOf(s.universe)
           P == Nat \ {0}
<1>1. /\ HasFields(s) /\ Underway(s) /\ ~HasOption(s)
      /\ s.routes = {c \in CyclesOf(s) : Passed(s, c)}
  BY EnumeratingFacts DEF GoBack
<1>2. t = WithNextPath(s, Front(s.next), path)
  BY DEF GoBack, WithNextPath
<1>3. /\ SameTask(t, s) /\ t.next = Front(s.next) /\ t.path = path /\ t.routes = s.routes
  BY <1>1, <1>2, Updates
<1>4. /\ s.path \in Seq(L) /\ s.next \in Seq(P) /\ s.next # <<>>
      /\ Len(s.next) = Len(s.path) + 1 /\ Len(s.path) \in Nat
  BY <1>1, UnderwayFacts DEF Underway, OnPath
<1>5. /\ t.next \in Seq(P) /\ Len(t.next) = Len(s.next) - 1
      /\ \A k \in 1 .. Len(s.path) : t.next[k] = s.next[k]
  <2> HIDE DEF P
  <2>1. /\ Front(s.next) \in Seq(P) /\ Len(Front(s.next)) = Len(s.next) - 1
        /\ \A k \in 1 .. (Len(s.next) - 1) : Front(s.next)[k] = s.next[k]
    BY <1>4, FrontFacts
  <2>2. Len(s.next) - 1 = Len(s.path)
    BY <1>4
  <2>. QED
    BY <1>3, <2>1, <2>2
<1>6. CyclesOf(t) = CyclesOf(s)
  BY <1>3 DEF CyclesOf, SameTask
<1>7. CASE Len(s.path) = 0
  <2>1. t.next = <<>>
    BY <1>4, <1>5, <1>7, EmptySeq
  <2>2. \A c \in CyclesOf(s) : Passed(s, c)
    BY <1>1, <1>7, AllPassed
  <2>3. t.routes = CyclesOf(t)
    BY <1>1, <1>3, <1>6, <2>2
  <2>. QED
    BY <1>1, <1>3, <2>1, <2>3 DEF EnumInv, Underway, SameTask
<1>8. CASE Len(s.path) # 0
  <2>1. Len(s.path) > 0 /\ s.path # <<>>
    BY <1>4, <1>8, EmptySeq
  <2>2. /\ t.path \in Seq(L) /\ Len(t.path) = Len(s.path) - 1
        /\ \A k \in 1 .. (Len(s.path) - 1) : t.path[k] = s.path[k]
    BY <1>3, <1>4, <2>1, FrontFacts
  <2>3. Back(t, s)
    BY <1>3, <1>5, <2>2 DEF Back, SameTask
  <2>4. Underway(t) /\ t.next # <<>>
    BY <1>1, <2>1, <2>3, BackUnderway
  <2>5. \A c \in CyclesOf(s) : Passed(t, c) <=> Passed(s, c)
    BY <1>1, <2>1, <2>3, BackPasses
  <2>6. t.routes = {c \in CyclesOf(t) : Passed(t, c)}
    BY <1>1, <1>3, <1>6, <2>5
  <2>. QED
    BY <1>3, <2>4, <2>6 DEF EnumInv, Underway, SameTask
<1>. QED
  BY <1>7, <1>8

(* From universes to reports. *)
GraphInv ==
    /\ IsFiniteSet(evidence)
    /\ \A universe \in universes : Searchable(universe)
    /\ search # NoSearch => EnumInv(search)
    /\ ReportIsExhaustive

(* No universe, no search and no report yet.                               *)
LEMMA GraphInvHoldsInitially ==
    Init => GraphInv
BY FS_EmptySet DEF Init, StateInit, GraphInv, ReportIsExhaustive

(* Accepted evidence grows by one proof at a time.                         *)
LEMMA EvidenceStaysFinite ==
    ASSUME IsFiniteSet(evidence), StateNext
    PROVE  IsFiniteSet(evidence')
<1>1. evidence' = evidence \/ \E e : evidence' = evidence \cup {e}
  BY DEF StateNext, BeginProof, Verify, PresentNext, TakeWalkStep, AcceptAccount, AcceptSlot,
         Reject, Conclude
<1>2. \A e : IsFiniteSet(evidence \cup {e})
  BY FS_AddElement
<1>. QED
  BY <1>1, <1>2

(* OpenUniverse: the pools come from finite evidence and differ in         *)
(* address.                                                                *)
LEMMA OpenedIsSearchable ==
    ASSUME IsFiniteSet(evidence), OpenUniverse
    PROVE  \A universe \in universes' : universe \in universes \/ Searchable(universe)
<1>1. PICK S \in SUBSET evidence : \E specOf \in [S -> Specs] :
          LET universe == {[spec |-> specOf[e], evidence |-> e] : e \in S}
          IN IsUniverse(universe) /\ universes' = universes \cup {universe}
  BY DEF OpenUniverse
<1>2. PICK specOf \in [S -> Specs] :
          LET universe == {[spec |-> specOf[e], evidence |-> e] : e \in S}
          IN IsUniverse(universe) /\ universes' = universes \cup {universe}
  BY <1>1
<1> DEFINE universe == {[spec |-> specOf[e], evidence |-> e] : e \in S}
           f == [e \in S |-> [spec |-> specOf[e], evidence |-> e]]
<1>3. IsUniverse(universe) /\ universes' = universes \cup {universe}
  BY <1>2
<1>4. \A p \in universe : p.spec \in Specs
  OBVIOUS
<1>5. f \in Surjection(S, universe)
  BY DEF Surjection
<1>6. IsFiniteSet(S)
  BY FS_Subset
<1> HIDE DEF universe, f
<1>7. IsFiniteSet(universe)
  BY <1>5, <1>6, FS_Surjection
<1>. QED
  BY <1>3, <1>4, <1>7 DEF Searchable

(* BeginSearch: on the empty path no cycle is passed and none was found.   *)
LEMMA BeginSearchStarts ==
    ASSUME NEW universe \in universes, Searchable(universe), NEW r, BeginSearch(universe, r)
    PROVE  EnumInv(search')
<1> DEFINE t == search'
<1>1. /\ HasFields(t) /\ t.universe = universe /\ t.hops = r.hops /\ t.base = r.base
      /\ t.path = <<>> /\ t.next = <<1>> /\ t.routes = {}
  BY DEF BeginSearch, HasFields
<1>2. t.hops \in MinRouteHops .. MaxRouteHops
  BY <1>1 DEF BeginSearch
<1>3. /\ Len(t.path) = 0 /\ Len(t.next) = 1 /\ t.next[1] = 1 /\ t.next # <<>>
      /\ t.path \in Seq(LegsOf(t.universe)) /\ t.next \in Seq(Nat \ {0})
  BY <1>1
<1>4. OnPath(t)
  <2>1. 0 <= t.hops
    BY <1>2, HopsAssumption
  <2>. QED
    BY <1>3, <2>1 DEF OnPath
<1>5. ASSUME NEW c \in CyclesOf(t) PROVE ~Passed(t, c)
  <2>1. IsCycle(t.universe, t.base, t.hops, c)
    BY <1>2, CyclesAre DEF CyclesOf
  <2>2. 1 \in 1 .. Len(c)
    BY <1>2, <2>1, LenProperties, HopsAssumption DEF IsCycle
  <2>3. c[1] \in LegsOf(t.universe)
    BY <2>1, <2>2, ElementOfSeq DEF IsCycle
  <2>4. Sortable(Adjacent(t.universe, c[1].tokenIn)) /\ c[1] \in Adjacent(t.universe, c[1].tokenIn)
    BY <1>1, <2>3, AdjacentAreSortable DEF Adjacent
  <2>5. Rank(Adjacent(t.universe, c[1].tokenIn), c[1]) \in Nat
    BY <2>4, RanksDiffer
  <2>6. ~(Place(t, c[1]) < 1)
    BY <2>5 DEF Place
  <2>. QED
    BY <1>3, <2>6 DEF Passed, PassedAt
<1>. QED
  BY <1>1, <1>2, <1>3, <1>4, <1>5 DEF EnumInv

(* Report: the routes of a report are those of a search that came to its   *)
(* end.                                                                    *)
LEMMA ReportIsAllThereIs ==
    ASSUME GraphInv, Report
    PROVE  ReportIsExhaustive'
<1>1. EnumInv(search) /\ search.next = <<>>
  BY DEF GraphInv, Report
<1>2. search.routes = Cycles(search.universe, search.base, search.hops)
  BY <1>1 DEF EnumInv, CyclesOf
<1>3. ASSUME NEW r \in reports' PROVE Routes(r) = Cycles(r.universe, r.base, r.hops)
  <2>1. CASE r \in reports
    BY <2>1 DEF GraphInv, ReportIsExhaustive
  <2>2. CASE r \notin reports
    <3>1. /\ r.universe = search.universe /\ r.base = search.base /\ r.hops = search.hops
          /\ DOMAIN r.results = search.routes
      BY <2>2 DEF Report
    <3>. QED
      BY <1>2, <3>1 DEF Routes
  <2>. QED
    BY <2>1, <2>2
<1>. QED
  BY <1>3 DEF ReportIsExhaustive

(* Every step keeps it, whether it belongs to a proof, a universe or a     *)
(* search.                                                                 *)
LEMMA GraphInvIsInductive ==
    GraphInv /\ [Next]_vars => GraphInv'
<1> SUFFICES ASSUME GraphInv, [Next]_vars PROVE GraphInv'
  OBVIOUS
<1>1. CASE StateNext /\ UNCHANGED <<universes, search, reports>>
  BY <1>1, EvidenceStaysFinite DEF GraphInv, ReportIsExhaustive
<1>2. CASE OpenUniverse
  <2>1. \A universe \in universes' : Searchable(universe)
    BY <1>2, OpenedIsSearchable DEF GraphInv
  <2>2. UNCHANGED <<evidence, search, reports>>
    BY <1>2 DEF OpenUniverse
  <2>. QED
    BY <2>1, <2>2 DEF GraphInv, ReportIsExhaustive
<1>3. ASSUME NEW universe \in universes, NEW r, BeginSearch(universe, r) PROVE GraphInv'
  <2>1. EnumInv(search')
    BY <1>3, BeginSearchStarts DEF GraphInv
  <2>2. UNCHANGED <<evidence, universes, reports>>
    BY <1>3 DEF BeginSearch
  <2>. QED
    BY <2>1, <2>2 DEF GraphInv, ReportIsExhaustive
<1>4. CASE Enumerate
  <2>1. UNCHANGED <<evidence, universes, reports>> /\ search # NoSearch
    BY <1>4 DEF Enumerate, OutOfWork, LookAtUsedPool, CloseCycle, LookAtVisitedToken, GoDeeper,
                GoBack, Look, Enumerating
  <2>2. EnumInv(search)
    BY <2>1 DEF GraphInv
  <2>3. search' = NoSearch \/ EnumInv(search')
    BY <1>4, <2>2, LookAtDeadEndKeeps, CloseCycleKeeps, GoDeeperKeeps, GoBackKeeps
       DEF Enumerate, OutOfWork
  <2>. QED
    BY <2>1, <2>3 DEF GraphInv, ReportIsExhaustive
<1>5. CASE Report
  <2>1. UNCHANGED <<evidence, universes>> /\ search' = NoSearch
    BY <1>5 DEF Report
  <2>. QED
    BY <1>5, <2>1, ReportIsAllThereIs DEF GraphInv
<1>6. CASE UNCHANGED vars
  BY <1>6 DEF vars, GraphInv, ReportIsExhaustive
<1>. QED
  BY <1>1, <1>2, <1>3, <1>4, <1>5, <1>6 DEF Next

(***************************************************************************)
(* A report evaluates every cycle of enumerate_simple_cycles: all routes   *)
(* from the base token back to it within the hops asked for that use no    *)
(* pool and visit no token twice, and nothing else.  No order in           *)
(* which legs are looked at, skipped and gone back on loses a route, and   *)
(* no search that ran out of its limits is reported as if it were done.    *)
(***************************************************************************)
THEOREM ReportsAreExhaustive == Spec => []ReportIsExhaustive
<1>1. Spec => []GraphInv
  BY GraphInvHoldsInitially, GraphInvIsInductive, PTL DEF Spec
<1>2. GraphInv => ReportIsExhaustive
  BY DEF GraphInv
<1>. QED
  BY <1>1, <1>2, PTL

=============================================================================
