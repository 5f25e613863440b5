-------------------------- MODULE MCRouteOptimizer --------------------------
(***************************************************************************)
(* RouteOptimizer over the arithmetic of ConstantProduct: every route of   *)
(* two hops, and some of three, over a set of small pools, in unsigned     *)
(* 10-bit arithmetic.  The pools are chosen so that routes with and        *)
(* without an edge occur, edges too small for any exact profit, ties,      *)
(* and inputs that the packed reserves or the checked products refuse.     *)
(***************************************************************************)
EXTENDS RouteOptimizer, Sequences

CONSTANT MaxUint

CP == INSTANCE ConstantProduct

Hop(reserveIn, reserveOut, capacity, fee) ==
  [reserveIn |-> reserveIn, reserveOut |-> reserveOut, capacity |-> capacity,
   feeNumerator |-> fee, feeDenominator |-> fee + 1]

\* Deep pools, some of which are full or cannot take the largest inputs.
DeepHops == {Hop(r, s, cap, fee) : r \in {3, 7, 15}, s \in {4, 11, 15}, cap \in {15, 31}, fee \in {2, 5}}

\* Pools so shallow that different inputs tie, at the bound of their interval.
ShallowHops == {Hop(r, s, 31, 1) : r \in {1, 2}, s \in {9, 21}}

SomeHops == {Hop(r, s, 31, 2) : r \in {3, 7}, s \in {4, 11}}

Hops == DeepHops \cup ShallowHops

HopSequences == {<<g, h>> : g, h \in Hops} \cup {<<g, h, k>> : g, h, k \in SomeHops}

ASSUME HopsAreGoverned == \A h \in Hops : CP!IsHop(h)

MCLimits == [input : {1, 12}, intervals : {3, 12, 23}, threshold : {1, 2}]

Inputs == 1..12

\* A route carries its arithmetic, so that TLC evaluates it once.
MCRoutes ==
  {[hops    |-> s,
    maximum |-> [n \in Inputs |-> CP!MaximumSafeInput(s, n)],
    profit  |-> [x \in Inputs |-> CP!RouteOut(s, x) - x],
    quotes  |-> {x \in Inputs : CP!Quotes(s, x)},
    hasEdge |-> CP!Coefficients(s).a > CP!Coefficients(s).b,
    bound   |-> [i \in {j \in Inputs \X Inputs : j[1] <= j[2]} |->
                   CP!GovernedUpper(s, i[1], i[2])]] : s \in HopSequences}

MCEffectiveMaximum(r, requested) == r.maximum[requested]
MCProfit(r, x) == r.profit[x]
MCHasEdge(r) == r.hasEdge
MCBound(r, lower, upper) == r.bound[<<lower, upper>>]

\* The search for the largest safe input returns the largest requested input
\* that quotes, and no smaller input raises (opportunity_graph.py:184-202).
SafeInputIsExact ==
  \A x \in 1..limits.input : x <= Maximum <=> x \in route.quotes
=============================================================================
