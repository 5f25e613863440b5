---------------------------- MODULE MCRiskBudget ----------------------------
(***************************************************************************)
(* A small instance of RiskBudget: three candidates, limits that each      *)
(* requests can meet, exceed by one, and exhaust together, and results     *)
(* from a profit of 1 to a loss beyond every reservable cost.              *)
(***************************************************************************)
EXTENDS RiskBudget, Folds, TLC

MCLimits == [daily |-> 5, single |-> 2, pending |-> 4, concurrent |-> 2, notional |-> 1]

MCResults == -3..1

\* Counting units is summing costs.
ASSUME TotalIsSum ==
  \A S \in SUBSET Ids : \A r \in [S -> Costs] :
    Total(r) = MapThenFoldSet(LAMBDA x, y : x + y, 0, LAMBDA i : r[i],
                              LAMBDA T : CHOOSE i \in T : TRUE, S)

Symmetry == Permutations(Ids)
=============================================================================
