--------------------------- MODULE MCHeadTracker ----------------------------
(* Block trees for model-checking HeadTracker.                             *)
EXTENDS HeadTracker

Block(h, n, p, t) == [hash |-> h, number |-> n, parent |-> p, time |-> t]

(***************************************************************************)
(* Two genesis blocks; a branch a1-a2-a3 and a branch a1-b2-b3.  Then what *)
(* a faulty source may report: a1 with another timestamp, a2's child at    *)
(* the wrong height, a child older than its parent, and a block zero with  *)
(* a parent.                                                               *)
(***************************************************************************)
TreeClaims ==
  {Block("g", 0, Zero, 0), Block("z", 0, Zero, 0),
   Block("a1", 1, "g", 1), Block("a2", 2, "a1", 1), Block("a3", 3, "a2", 1),
   Block("b2", 2, "a1", 1), Block("b3", 3, "b2", 2),
   Block("a1", 1, "g", 0), Block("w", 2, "a2", 2), Block("t", 2, "a1", 0),
   Block("m", 0, "g", 1)}

\* A source that reports a parent of the first block as that block's child.
CyclicClaims == {Block("r", 5, "p", 0), Block("p", 6, "r", 0), Block("q", 6, "r", 0)}
=============================================================================
