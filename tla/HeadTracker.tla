---------------------------- MODULE HeadTracker -----------------------------
(***************************************************************************)
(* The EVM head tracker (head_tracker.py): one recorded stream of block    *)
(* heads, the tree of the heads that were accepted, and the transition     *)
(* that every accepted observation emits.                                  *)
(*                                                                         *)
(* A head is a record [hash, number, parent, time].  Hashes are opaque.    *)
(* Left out: the source sequence stored with a node, which only a caller   *)
(* of current_head reads, and the digests that bind a transition to its    *)
(* observation, for which a transition carries the observation itself.     *)
(***************************************************************************)
EXTENDS Integers, FiniteSets, SequencesExt

CONSTANTS Claims,           \* the heads the recorded source may report
          Streams,          \* (source, kind, finality, visibility) streams
          OwnStream,        \* the stream this tracker is bound to
          MaxSequence,      \* bound: the largest source sequence observed
          MaxTrackedHeads,  \* MAX_TRACKED_HEADS
          Zero,             \* ZERO_BLOCK_HASH
          None              \* Python's None

ASSUME TrackerAssumption ==
  /\ \A c \in Claims : c.hash # Zero /\ c.hash # None /\ c.number \in Nat /\ c.time \in Nat
  /\ OwnStream \in Streams
  /\ MaxSequence \in Nat
  /\ MaxTrackedHeads \in Nat \ {0}
  /\ Zero # None

VARIABLES nodes,         \* _nodes: accepted heads by hash
          currentHash,   \* _current_hash
          lastSequence,  \* _last_sequence, -1 for None
          outcome,       \* what the last apply returned or raised
          root           \* history: the hash the tracker bootstrapped from

vars == <<nodes, currentHash, lastSequence, outcome, root>>

Observations == [stream : Streams, sequence : 0 .. MaxSequence, head : Claims]

-----------------------------------------------------------------------------
(* Checks on one observation, in the order apply makes them.               *)

\* EvmHead.__post_init__: block zero, and only block zero, has the zero parent.
WellFormed(c) == (c.number = 0) <=> (c.parent = Zero)

Tracked == DOMAIN nodes

Admissible_NoConflictCheck(o) ==
  /\ o.stream = OwnStream
  /\ WellFormed(o.head)
  /\ o.sequence > lastSequence

\* The checks every observation passes before the tracker looks at its tree.
Admissible(o) ==
  /\ o.stream = OwnStream
  /\ WellFormed(o.head)
  /\ o.sequence > lastSequence
  /\ o.head.hash \in Tracked => nodes[o.head.hash] = o.head

HasRoom(c) == c.hash \in Tracked \/ Cardinality(Tracked) < MaxTrackedHeads

\* A head whose parent is tracked follows it by one and is not older.
FollowsParent(c) ==
  (c.number > 0 /\ c.parent \in Tracked) =>
    /\ c.number = nodes[c.parent].number + 1
    /\ c.time >= nodes[c.parent].time

-----------------------------------------------------------------------------
(* _paths_to_common_ancestor.                                              *)

Walk_OneStep(h) == IF h \in Tracked THEN <<h>> ELSE <<>>

(***************************************************************************)
(* The hashes visited from h towards the root: h, its parent, and so on    *)
(* for as long as they are tracked and not yet visited.                    *)
(***************************************************************************)
Walk(h) ==
  IF h \notin Tracked THEN <<>>
  ELSE LET limit == 1 .. Cardinality(Tracked)
           up[i \in limit] ==
             IF i = 1 THEN h
             ELSE IF up[i - 1] \in Tracked THEN nodes[up[i - 1]].parent ELSE None
       IN  [i \in {i \in limit : \A j \in 1 .. i :
                      up[j] \in Tracked /\ \A k \in 1 .. j - 1 : up[k] # up[j]} |-> up[i]]

\* The walk ends at a genesis block, above which the code puts the zero hash.
ReachesGenesis(h) == h = Zero \/ \E i \in DOMAIN Walk(h) : nodes[Walk(h)[i]].parent = Zero

Trail(h) == IF ReachesGenesis(h) THEN Append(Walk(h), Zero) ELSE Walk(h)

Positions(h) ==
  {Walk(h)[i] : i \in DOMAIN Walk(h)} \cup (IF ReachesGenesis(h) THEN {Zero} ELSE {})

\* The two walks meet: at the candidate itself, or at one of its ancestors.
Meets(c) == ({c.hash} \cup Positions(c.parent)) \cap Positions(currentHash) # {}

(***************************************************************************)
(* The common ancestor is the first hash of the candidate's walk on the    *)
(* old path; what lies before it on either walk is removed or added.       *)
(***************************************************************************)
ForkAt(c) == SelectInSeq(<<c.hash>> \o Trail(c.parent), LAMBDA h : h \in Positions(currentHash))

Fork_RemovesTipOnly(c) ==
  LET old == Trail(currentHash)
      new == <<c.hash>> \o Trail(c.parent)
      ancestor == new[ForkAt(c)]
  IN  [ancestor |-> ancestor,
       removed |-> SubSeq(old, 1, 1),
       added |-> Reverse(SubSeq(new, 1, ForkAt(c) - 1))]
Fork(c) ==
  LET old == Trail(currentHash)
      new == <<c.hash>> \o Trail(c.parent)
      ancestor == new[ForkAt(c)]
  IN  [ancestor |-> ancestor,
       removed |-> SubSeq(old, 1, SelectInSeq(old, LAMBDA h : h = ancestor) - 1),
       added |-> Reverse(SubSeq(new, 1, ForkAt(c) - 1))]

-----------------------------------------------------------------------------
(* Transitions and what HeadTransition.__post_init__ demands of a reorg.   *)
(* The other four kinds are built in the shape their branch demands.       *)

Transition(kind, o, new, ancestor, removed, added) ==
  [kind |-> kind, observation |-> o, old |-> currentHash, new |-> new,
   ancestor |-> ancestor, removed |-> removed, added |-> added]

ReorgShape(t) ==
  /\ t.removed # <<>> /\ t.removed[1] = t.old
  /\ t.old # t.new
  /\ \/ t.added # <<>> /\ Last(t.added) = t.new /\ t.new # t.ancestor
     \/ t.added = <<>> /\ t.new = t.ancestor
  /\ \A x \in {t.ancestor} \cup ToSet(t.removed) : x \notin ToSet(t.added)
  /\ t.ancestor \notin ToSet(t.removed)

ReorgTransition(o) ==
  LET f == Fork(o.head) IN Transition("reorg", o, o.head.hash, f.ancestor, f.removed, f.added)

Rejected(reason) == [kind |-> "rejected", reason |-> reason]

-----------------------------------------------------------------------------
(* apply: one action per way it ends.                                      *)

\* _nodes[head.block_hash] = head
Store(c) == nodes' = [h \in Tracked \cup {c.hash} |-> IF h = c.hash THEN c ELSE nodes[h]]

Init ==
  /\ nodes = [h \in {} |-> None]
  /\ currentHash = None
  /\ lastSequence = -1
  /\ outcome = [kind |-> "none"]
  /\ root = None

Bootstrap(o) ==
  /\ Admissible(o)
  /\ currentHash = None
  /\ outcome' = Transition("bootstrap", o, o.head.hash, None, <<>>, <<o.head.hash>>)
  /\ Store(o.head)
  /\ currentHash' = o.head.hash
  /\ root' = o.head.hash
  /\ lastSequence' = o.sequence

Duplicate(o) ==
  /\ Admissible(o)
  /\ o.head.hash = currentHash
  /\ outcome' = Transition("duplicate", o, currentHash, currentHash, <<>>, <<>>)
  /\ Store(o.head)
  /\ lastSequence' = o.sequence
  /\ UNCHANGED <<currentHash, root>>

\* The head is not the current one and the tree has no objection to it.
Placeable(o) ==
  /\ Admissible(o)
  /\ currentHash # None /\ o.head.hash # currentHash
  /\ HasRoom(o.head)
  /\ FollowsParent(o.head)

Extend(o) ==
  /\ Placeable(o)
  /\ o.head.parent = currentHash
  /\ outcome' = Transition("extend", o, o.head.hash, currentHash, <<>>, <<o.head.hash>>)
  /\ Store(o.head)
  /\ currentHash' = o.head.hash
  /\ lastSequence' = o.sequence
  /\ UNCHANGED root

Orphan_Retained(o) ==
  /\ Placeable(o)
  /\ o.head.parent # currentHash
  /\ ~Meets(o.head)
  /\ outcome' = Transition("orphan", o, currentHash, None, <<>>, <<>>)
  /\ Store(o.head)
  /\ lastSequence' = o.sequence
  /\ UNCHANGED <<currentHash, root>>

Orphan(o) ==
  /\ Placeable(o)
  /\ o.head.parent # currentHash
  /\ ~Meets(o.head)
  /\ outcome' = Transition("orphan", o, currentHash, None, <<>>, <<>>)
  /\ lastSequence' = o.sequence
  /\ UNCHANGED <<nodes, currentHash, root>>

Reorg(o) ==
  /\ Placeable(o)
  /\ o.head.parent # currentHash
  /\ Meets(o.head)
  /\ ReorgShape(ReorgTransition(o))
  /\ outcome' = ReorgTransition(o)
  /\ Store(o.head)
  /\ currentHash' = o.head.hash
  /\ lastSequence' = o.sequence
  /\ UNCHANGED root

\* A check raised; reasons are tried in the code's order and nothing changes.
Reject(o) ==
  /\ \/ ~Admissible(o) /\ outcome' = Rejected("inadmissible")
     \/ /\ Admissible(o) /\ currentHash # None /\ o.head.hash # currentHash
        /\ \/ ~HasRoom(o.head) /\ outcome' = Rejected("ceiling")
           \/ HasRoom(o.head) /\ ~FollowsParent(o.head) /\ outcome' = Rejected("parent")
     \/ /\ Placeable(o) /\ o.head.parent # currentHash /\ Meets(o.head)
        /\ ~ReorgShape(ReorgTransition(o))
        /\ outcome' = Rejected("shape")
  /\ UNCHANGED <<nodes, currentHash, lastSequence, root>>

Next ==
  \E o \in Observations :
    Bootstrap(o) \/ Duplicate(o) \/ Extend(o) \/ Orphan(o) \/ Reorg(o) \/ Reject(o)

Spec == Init /\ [][Next]_vars

-----------------------------------------------------------------------------
(* Properties.                                                             *)

\* Types of the state.  The current head is always tracked, and a tracker with
\* no current head is empty: apply's RuntimeError and a KeyError in
\* current_head are unreachable.
TypeOK ==
  /\ Tracked \subseteq {c.hash : c \in Claims}
  /\ \A h \in Tracked : nodes[h] \in Claims /\ nodes[h].hash = h
  /\ currentHash \in Tracked \cup {None}
  /\ root \in Tracked \cup {None}
  /\ (currentHash = None) <=> (Tracked = {})
  /\ (root = None) <=> (Tracked = {})
  /\ lastSequence \in -1 .. MaxSequence

(***************************************************************************)
(* "Unknown-parent topology is not retained": every tracked head but the   *)
(* one the tracker started from hangs on a tracked parent, one block below *)
(* it and not younger; only a tracker started at a genesis block holds     *)
(* further genesis blocks.                                                 *)
(***************************************************************************)
Rooted ==
  \A h \in Tracked :
    \/ h = root
    \/ /\ nodes[h].number = 0 /\ nodes[h].parent = Zero
       /\ nodes[root].parent = Zero
    \/ /\ nodes[h].parent \in Tracked
       /\ nodes[h].number = nodes[nodes[h].parent].number + 1
       /\ nodes[h].time >= nodes[nodes[h].parent].time

(***************************************************************************)
(* Accepted heads are never forgotten or rewritten: a block hash keeps the *)
(* number, parent and timestamp it was first accepted with.                *)
(***************************************************************************)
NodesAreImmutable ==
  [][\A h \in Tracked : h \in DOMAIN nodes' /\ nodes'[h] = nodes[h]]_vars

(***************************************************************************)
(* An orphan verdict is honest, and only then given: the head's parent is  *)
(* not tracked, and it is no second genesis of a tree rooted at genesis.   *)
(***************************************************************************)
OrphanIffUnconnected ==
  [][(outcome'.kind \in {"orphan", "reorg"}) =>
       LET c == outcome'.observation.head
       IN  (outcome'.kind = "orphan") <=>
             /\ c.parent \notin Tracked
             /\ ~(c.parent = Zero /\ nodes[root].parent = Zero)
             /\ c.hash # root]_vars

\* The chain from the root to the current head.
CanonicalPath == Reverse(Walk(currentHash))

Canonical == INSTANCE CanonicalChain WITH chain <- CanonicalPath, event <- outcome

(***************************************************************************)
(* A consumer that only applies the emitted removed/added paths holds the  *)
(* tracker's own canonical chain after every call of apply, and a refused  *)
(* or unconnected head never moves it.                                     *)
(***************************************************************************)
ImplementsCanonicalChain == Canonical!Spec

(***************************************************************************)
(* "Known-parent height ... inconsistencies fail closed" for every pair of *)
(* tracked heads, whichever of the two was accepted first.                 *)
(***************************************************************************)
KnownParentsConsistent ==
  \A h \in Tracked :
    nodes[h].parent \in Tracked => nodes[h].number = nodes[nodes[h].parent].number + 1

(***************************************************************************)
(* A head of the tracker's stream that extends the known tree always gets  *)
(* one of the five kinds of transition: building it never raises.          *)
(***************************************************************************)
ConnectedHeadsAreEmitted == outcome # Rejected("shape")
=============================================================================
