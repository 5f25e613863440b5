----------------------------- MODULE TrieProofs -----------------------------
(***************************************************************************)
(* Verification of a Merkle-Patricia proof (verify_mpt_proof, mpt.py).     *)
(*                                                                         *)
(* A node is named by the hash of its encoding, so what a name stands for  *)
(* is fixed for good and no two nodes share a name.  A parent refers to a  *)
(* child by that name or, if the child's encoding is short, embeds it.     *)
(* The caller presents a list of encoded nodes; the verifier walks from    *)
(* the root along the key, one action for each turn of its loop, and at    *)
(* the end the list must be the nodes that it used, in that order.         *)
(*                                                                         *)
(* Encodings are not modelled: a list that names something that is no      *)
(* node, or a malformed one, is refused when it is presented.              *)
(***************************************************************************)
EXTENDS Naturals, Sequences, SequencesExt

CONSTANTS
    Nibbles,       \* digits of a key
    Hashes,        \* names of the nodes there are
    Node,          \* per name: the node
    Short,         \* names of the nodes whose encoding is below 32 bytes
    EmptyRoot,     \* EMPTY_TRIE_ROOT
    Entries,       \* per name: the pairs <<path, value>> the node commits to
    Height,        \* per name: more than that of every node below
    Values,        \* payloads
    MaxProofNodes, \* MAX_PROOF_NODES
    Empty          \* no child, no value

Reference == [to : Hashes, embedded : BOOLEAN]

Branch == [kind : {"branch"}, children : [Nibbles -> Reference \cup {Empty}],
           value : Values \cup {Empty}]
Extension == [kind : {"extension"}, path : Seq(Nibbles), child : Reference \cup {Empty}]
Leaf == [kind : {"leaf"}, path : Seq(Nibbles), value : Values]

(* The pairs below a child, its path lengthened by the way to it. *)
Below(path, ref) ==
    IF ref = Empty THEN {} ELSE {<<path \o e[1], e[2]>> : e \in Entries[ref.to]}

Commits(n) ==
    IF n.kind = "leaf" THEN {<<n.path, n.value>>}
    ELSE IF n.kind = "extension" THEN Below(n.path, n.child)
    ELSE (UNION {Below(<<d>>, n.children[d]) : d \in Nibbles})
           \cup (IF n.value = Empty THEN {} ELSE {<<<<>>, n.value>>})

(* A name determines a node, and a node what it and the nodes under it     *)
(* commit to.                                                              *)
ASSUME TrieAssumption ==
    /\ \A h \in Hashes : Node[h] \in Branch \cup Extension \cup Leaf
    /\ \A h \in Hashes : /\ \A e \in Entries[h] : e[1] \in Seq(Nibbles)
                         /\ Entries[h] = Commits(Node[h])
    /\ EmptyRoot \notin Hashes /\ Empty \notin Values /\ Empty \notin Reference
    /\ MaxProofNodes \in Nat

ChildrenOf(n) ==
    IF n.kind = "leaf" THEN {}
    ELSE IF n.kind = "extension" THEN {n.child} \ {Empty}
    ELSE {n.children[d] : d \in Nibbles} \ {Empty}

(* A name is the hash of an encoding that holds what it has for children,  *)
(* so that no node is below itself.                                        *)
ASSUME HeightAssumption ==
    \A h \in Hashes : /\ Height[h] \in Nat
                      /\ \A ref \in ChildrenOf(Node[h]) : Height[ref.to] < Height[h]

EntriesOf(root) == IF root \in Hashes THEN Entries[root] ELSE {}

VARIABLE walk   \* the verification in progress, NoWalk if there is none

NoWalk == [phase |-> "none"]

-----------------------------------------------------------------------------
(* Presentation. *)

SoundNode(n) ==
    /\ n.kind = "extension" => n.path # <<>> /\ n.child # Empty
    /\ \A ref \in ChildrenOf(n) : ref.embedded => ref.to \in Short

(* A node is checked together with those embedded in it, at any depth:     *)
(* each is longer than those in it, so that the ceiling is not reached.    *)
IsWellShaped(name) ==
    \E inside \in SUBSET Short :
        \A h \in inside \cup {name} :
            /\ SoundNode(Node[h])
            /\ \A ref \in ChildrenOf(Node[h]) : ref.embedded => ref.to \in inside

WellShaped == {h \in Hashes : IsWellShaped(h)}

Presentable(root, list) ==
    IF root = EmptyRoot THEN list = <<>>
    ELSE /\ list # <<>> /\ Len(list) <= MaxProofNodes
         /\ IsInjective(list)
         /\ \A k \in DOMAIN list : list[k] \in WellShaped

Present(root, key, list) ==
    /\ walk = NoWalk
    /\ walk' = [phase |-> IF ~Presentable(root, list) THEN "refused"
                          ELSE IF root = EmptyRoot THEN "verified" ELSE "walking",
                root |-> root, key |-> key, nodes |-> list,
                at |-> [to |-> root, embedded |-> FALSE], remaining |-> key,
                used |-> <<>>, value |-> Empty,
                terminal |-> IF root = EmptyRoot THEN "absent-empty-trie" ELSE "none"]

-----------------------------------------------------------------------------
(* The walk. *)

(* resolve: an embedded node is at hand; one that is referred to by hash   *)
(* must be presented, not met before and, but for the root, not short.     *)
Resolves(w) ==
    /\ w.at # Empty
    /\ \/ w.at.embedded
       \/ /\ w.at.to \in Range(w.nodes) \ Range(w.used)
          /\ w.used = <<>> \/ w.at.to \notin Short

Trail(w) == IF w.at.embedded THEN w.used ELSE Append(w.used, w.at.to)

(* Whatever else was presented is ignored. *)
UsesAll_Subset(used, list) == Range(used) \subseteq Range(list)

UsesAll(used, list) == used = list

Stop(terminal, value) ==
    walk' = [walk EXCEPT !.phase = IF UsesAll(Trail(walk), walk.nodes) THEN "verified"
                                   ELSE "refused",
                         !.used = Trail(walk), !.terminal = terminal, !.value = value]

Descend(ref, rest) ==
    walk' = [walk EXCEPT !.at = ref, !.remaining = rest, !.used = Trail(walk)]

Follows(path, key) == Len(path) <= Len(key) /\ SubSeq(key, 1, Len(path)) = path

After(path, key) == SubSeq(key, Len(path) + 1, Len(key))

Visit(kind) == walk.phase = "walking" /\ Resolves(walk) /\ Node[walk.at.to].kind = kind

AtBranch ==
    LET n == Node[walk.at.to] IN
    /\ Visit("branch")
    /\ \/ walk.remaining = <<>> /\ n.value # Empty /\ Stop("found-branch-value", n.value)
       \/ walk.remaining = <<>> /\ n.value = Empty /\ Stop("absent-branch-value", Empty)
       \/ /\ walk.remaining # <<>> /\ n.children[Head(walk.remaining)] = Empty
          /\ Stop("absent-branch-child", Empty)
       \/ /\ walk.remaining # <<>> /\ n.children[Head(walk.remaining)] # Empty
          /\ Descend(n.children[Head(walk.remaining)], Tail(walk.remaining))

AtExtension ==
    LET n == Node[walk.at.to] IN
    /\ Visit("extension")
    /\ \/ ~Follows(n.path, walk.remaining) /\ Stop("absent-path-divergence", Empty)
       \/ Follows(n.path, walk.remaining) /\ Descend(n.child, After(n.path, walk.remaining))

AtLeaf ==
    LET n == Node[walk.at.to] IN
    /\ Visit("leaf")
    /\ \/ ~Follows(n.path, walk.remaining) /\ Stop("absent-path-divergence", Empty)
       \/ /\ Follows(n.path, walk.remaining) /\ After(n.path, walk.remaining) # <<>>
          /\ Stop("absent-leaf-remainder", Empty)
       \/ /\ Follows(n.path, walk.remaining) /\ After(n.path, walk.remaining) = <<>>
          /\ Stop("found-leaf", n.value)

Unresolved ==
    /\ walk.phase = "walking" /\ ~Resolves(walk)
    /\ walk' = [walk EXCEPT !.phase = "refused"]

WalkStep == AtBranch \/ AtExtension \/ AtLeaf \/ Unresolved

Found(w) == w.terminal \in {"found-leaf", "found-branch-value"}

-----------------------------------------------------------------------------
(* The nodes on the way along a key that are referred to by hash.  The     *)
(* walk has to use at most one node per digit and one more, but embedded   *)
(* nodes may add to it; at a malformed node the way ends.                  *)
Left(key, digits) == SubSeq(key, Len(key) - digits + 1, Len(key))

Beyond(below, ref, digits) ==
    IF ref = Empty THEN <<>>
    ELSE (IF ref.embedded THEN <<>> ELSE <<ref.to>>) \o below[digits][ref.to]

WayBelow(below, h, rest) ==
    LET n == Node[h] IN
    CASE n.kind = "leaf" -> <<>>
      [] n.kind = "extension" ->
           IF n.path # <<>> /\ Follows(n.path, rest)
           THEN Beyond(below, n.child, Len(rest) - Len(n.path)) ELSE <<>>
      [] n.kind = "branch" ->
           IF rest = <<>> THEN <<>> ELSE Beyond(below, n.children[Head(rest)], Len(rest) - 1)

Spine(root, key) ==
    LET below[digits \in 0 .. Len(key)] ==
            [h \in Hashes |-> WayBelow(below, h, Left(key, digits))]
    IN IF root \in Hashes THEN <<root>> \o below[Len(key)][root] ELSE <<>>

(* What can be proved at all: every node on the way is well shaped, is     *)
(* there, and was embedded if it is short.                                 *)
Provable(root, key) ==
    /\ root \in Hashes \cup {EmptyRoot}
    /\ \A k \in DOMAIN Spine(root, key) :
          /\ Spine(root, key)[k] \in WellShaped
          /\ k > 1 => Spine(root, key)[k] \notin Short
    /\ Len(Spine(root, key)) <= MaxProofNodes

(* A proof speaks for one root and key in one way only (mpt.py 219-352):   *)
(* a list is accepted exactly when it is the nodes on the way from the     *)
(* root along the key, each once and in order, with nothing left out,      *)
(* repeated, exchanged, reordered or added.                                *)
OneProofPerKey ==
    /\ walk.phase = "verified" => /\ walk.nodes = Spine(walk.root, walk.key)
                                  /\ Provable(walk.root, walk.key)
    /\ walk.phase = "refused" => \/ walk.nodes # Spine(walk.root, walk.key)
                                 \/ ~Provable(walk.root, walk.key)

(* A verified proof says what the trie holds, of presence and of absence   *)
(* alike (mpt.py 279-349).                                                 *)
VerdictsAreTrue ==
    walk.phase = "verified" =>
        /\ Found(walk) => <<walk.key, walk.value>> \in EntriesOf(walk.root)
        /\ ~Found(walk) => \A e \in EntriesOf(walk.root) : e[1] # walk.key
=============================================================================
