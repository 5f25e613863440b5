--------------------------- MODULE CanonicalChain ---------------------------
(***************************************************************************)
(* What a consumer of head transitions relies on, with no block tree: one  *)
(* canonical chain, and events that say exactly how it changed.  Applying  *)
(* `removed' (newest first) and then `added' (oldest first) to the chain   *)
(* one held before an event must give the chain after it.                  *)
(***************************************************************************)
EXTENDS Integers, Sequences, SequencesExt, Functions

CONSTANTS Zero,     \* the zero block hash, the parent of every genesis block
          None      \* no block hash at all

VARIABLES chain,    \* the canonical chain, oldest block first
          event     \* what was last reported about it

Tip(c) == IF c = <<>> THEN None ELSE Last(c)

\* The point at which a chain forks when its first k blocks are kept.
ForkPoint(k) == IF chain = <<>> THEN None ELSE IF k = 0 THEN Zero ELSE chain[k]

Init == chain = <<>> /\ event = [kind |-> "none"]

(***************************************************************************)
(* The chain keeps its first k blocks and gets a new suffix; the event     *)
(* names the old and the new tip, the fork point, and both suffixes.       *)
(***************************************************************************)
Switch ==
  \E k \in 0 .. Len(chain) :
    /\ event'.removed = Reverse(SubSeq(chain, k + 1, Len(chain)))
    /\ chain' = SubSeq(chain, 1, k) \o event'.added
    /\ chain' # chain
    /\ IsInjective(chain')
    /\ event'.old = Tip(chain)
    /\ event'.new = Tip(chain')
    /\ event'.ancestor = ForkPoint(k)

\* A known tip, an unconnected block or a refused input leaves the chain alone.
Hold ==
  /\ event'.kind \in {"duplicate", "orphan", "rejected"}
  /\ event'.kind # "rejected" => event'.old = Tip(chain) /\ event'.new = Tip(chain)
  /\ UNCHANGED chain

Next == Hold \/ (event'.kind \in {"bootstrap", "extend", "reorg"} /\ Switch)

Spec == Init /\ [][Next]_<<chain, event>>
=============================================================================
