------------------------ MODULE MCObservationLedger -------------------------
(* Small ledgers for model-checking ObservationLedger.                     *)
EXTENDS ObservationLedger

CONSTANTS busy, quiet, e1, e2, rare

\* One source with two events at two times, and one that is seldom heard of.
Offered ==
  [source : {busy}, sequence : 0 .. 2, time : {0, 1}, event : {e1, e2}]
    \cup [source : {quiet}, sequence : 0 .. 1, time : {0}, event : {rare}]

Symmetry == Permutations({e1, e2}) \cup Permutations(SegmentIds)
=============================================================================
