--------------------------- MODULE RouteOptimizer ---------------------------
(***************************************************************************)
(* optimize_route (optimizer.py): the best-first branch and bound search   *)
(* for the input of a route with the largest exact profit.                 *)
(*                                                                         *)
(* The arithmetic of a route is a parameter: the profit of an input, the   *)
(* bound of an interval and the largest input that can be quoted.  What    *)
(* the search needs of it is assumed below; MCRouteOptimizer takes it from *)
(* ConstantProduct, where TLC evaluates the assumption.  A step is one     *)
(* turn of a loop of the code.  The route and its limits are chosen once.  *)
(***************************************************************************)
EXTENDS Integers, FiniteSets

CONSTANTS
  Routes,               \* routes to optimize
  LimitSets,            \* OptimizationLimits to optimize them under
  EffectiveMaximum(_, _), \* ConstantProductRoute.maximum_safe_input
  Profit(_, _),         \* gross_profit of quote_exact_in
  HasEdge(_),           \* a > b, of continuous_coefficients
  Bound(_, _, _),       \* _governed_interval_continuous_upper
  Pending               \* not a result

ASSUME LimitsAssumption ==
  LimitSets \subseteq [input : Nat \ {0}, intervals : Nat \ {0}, threshold : Nat \ {0}]

\* Quotes and bounds are integers, the bound of an interval is at least every
\* exact profit in it, and a route without a continuous edge has no profit.  The
\* profit without floors is concave and zero at zero: where an interval has a
\* positive bound, so has every interval that begins where it does.
ASSUME BoundAssumption ==
  \A r \in Routes, l \in LimitSets :
    /\ EffectiveMaximum(r, l.input) \in 0..l.input
    /\ HasEdge(r) \in BOOLEAN
    /\ \A x \in 1..EffectiveMaximum(r, l.input) :
         /\ Profit(r, x) \in Int
         /\ ~HasEdge(r) => Profit(r, x) <= 0
    /\ HasEdge(r) =>
         \A lower, upper \in 1..EffectiveMaximum(r, l.input) : lower <= upper =>
           /\ Bound(r, lower, upper) \in Int
           /\ \A x \in lower..upper : Profit(r, x) <= Bound(r, lower, upper)
           /\ \A x \in lower..upper :
                Bound(r, lower, upper) > 0 => Bound(r, lower, x) > 0

\* OptimizationStatus, and what stands for a result whose constructor raised.
Statuses == {"complete", "no-valid-input", "no-positive-continuous-edge",
             "no-positive-exact-profit", "budget-exhausted", "raised"}

ASSUME PendingAssumption ==
  Pending \notin [status : Statuses, input : Nat, profit : Nat, evaluated : Nat,
                  explored : Nat, pruned : Nat, bound : Nat]

VARIABLES
  route, limits,
  queue,        \* the heap: [bound, lower, upper] of the intervals to explore
  scan,         \* the inputs of the interval being evaluated that are left
  best,         \* best_profit and best_input
  evaluated, explored, pruned,
  started,
  result        \* the OptimizationResult, Pending before the return

task == <<route, limits>>
counters == <<evaluated, explored, pruned>>
vars == <<task, queue, scan, best, counters, started, result>>

Maximum == EffectiveMaximum(route, limits.input)
FullBound == Bound(route, 1, Maximum)
Interval(lower, upper) ==
  [bound |-> Bound(route, lower, upper), lower |-> lower, upper |-> upper]

Nothing == [profit |-> 0, input |-> 0]
NoScan == [next |-> 1, upper |-> 0]
Scanning == scan.next <= scan.upper
Running == started /\ result = Pending /\ ~Scanning

Init ==
  /\ route \in Routes /\ limits \in LimitSets
  /\ queue = {} /\ scan = NoScan /\ best = Nothing
  /\ evaluated = 0 /\ explored = 0 /\ pruned = 0
  /\ started = FALSE /\ result = Pending

CanBeat_MoreOnly(bound, lower) == bound > best.profit

\* _can_interval_beat
CanBeat(bound, lower) ==
  \/ bound > best.profit
  \/ /\ bound = best.profit
     /\ IF best.profit <= 0 \/ best.input = 0 THEN bound > 0 ELSE lower < best.input

Better_LaterTie(profit, input) ==
  profit > best.profit \/ (profit = best.profit /\ profit > 0)

\* The update rule of the evaluation loop: more profit, or as much from less.
Better(profit, input) ==
  \/ profit > best.profit
  \/ /\ profit = best.profit /\ profit > 0
     /\ best.input = 0 \/ input < best.input

\* heapq on (-bound, lower, upper): the largest bound, the lowest interval first.
Precedes(p, q) == p.bound > q.bound \/ (p.bound = q.bound /\ p.lower <= q.lower)
IsTop(p) == p \in queue /\ \A q \in queue : Precedes(p, q)

\* OptimizationResult.__post_init__: counters within the limits, a bound that
\* covers the winner, and what each status allows to be filled in.
Accepted(r) ==
  /\ r.explored <= limits.intervals
  /\ r.evaluated <= r.explored * limits.threshold
  /\ r.pruned <= 2 * r.explored + 1
  /\ r.input <= Maximum
  /\ r.bound >= 0 /\ r.bound >= r.profit
  /\ r.input = 0 => r.profit = 0
  /\ r.status = "complete" => r.input > 0 /\ r.profit > 0
  /\ r.status # "complete" => r.input = 0
  /\ r.status = "budget-exhausted" =>
       Maximum > 0 /\ r.explored = limits.intervals /\ r.bound > 0
  /\ r.status = "no-valid-input" =>
       Maximum = 0 /\ r.evaluated + r.explored + r.pruned + r.bound = 0
  /\ r.status = "no-positive-continuous-edge" =>
       Maximum > 0 /\ r.evaluated + r.explored + r.pruned + r.bound = 0
  /\ r.status = "no-positive-exact-profit" =>
       Maximum > 0 /\ r.evaluated > 0 /\ r.explored > 0 /\ r.bound > 0

\* Constructing the result either returns it or raises.
Return(status, winner, bound) ==
  LET r == [status |-> status, input |-> winner.input, profit |-> winner.profit,
            evaluated |-> evaluated, explored |-> explored, pruned |-> pruned,
            bound |-> IF bound > 0 THEN bound ELSE 0]
  IN result' = IF Accepted(r) THEN r ELSE [r EXCEPT !.status = "raised"]

\* The early returns, and the full interval on the heap.
Start ==
  /\ ~started
  /\ started' = TRUE
  /\ \/ /\ Maximum = 0
        /\ Return("no-valid-input", Nothing, 0)
        /\ UNCHANGED queue
     \/ /\ Maximum > 0 /\ ~HasEdge(route)
        /\ Return("no-positive-continuous-edge", Nothing, 0)
        /\ UNCHANGED queue
     \/ /\ Maximum > 0 /\ HasEdge(route) /\ FullBound <= 0
        /\ Return("no-positive-continuous-edge", Nothing, FullBound)
        /\ UNCHANGED queue
     \/ /\ Maximum > 0 /\ HasEdge(route) /\ FullBound > 0
        /\ queue' = {Interval(1, Maximum)}
        /\ UNCHANGED result
  /\ UNCHANGED <<task, scan, best, counters>>

Exhaust_KeepsBest ==
  /\ Running /\ queue # {}
  /\ explored >= limits.intervals
  /\ Return("budget-exhausted", best, FullBound)
  /\ UNCHANGED <<task, queue, scan, best, counters, started>>

\* The interval budget is spent: whatever was found is dropped.
Exhaust ==
  /\ Running /\ queue # {}
  /\ explored >= limits.intervals
  /\ Return("budget-exhausted", Nothing, FullBound)
  /\ UNCHANGED <<task, queue, scan, best, counters, started>>

Pop(top) ==
  /\ Running
  /\ explored < limits.intervals
  /\ IsTop(top)
  /\ explored' = explored + 1

\* A popped interval that can no longer beat the best is dropped.
Discard(top) ==
  /\ Pop(top)
  /\ ~CanBeat(top.bound, top.lower)
  /\ queue' = queue \ {top}
  /\ pruned' = pruned + 1
  /\ UNCHANGED <<task, scan, best, evaluated, started, result>>

IsSmall(top) == top.upper - top.lower + 1 <= limits.threshold

BeginScan(top) ==
  /\ Pop(top)
  /\ CanBeat(top.bound, top.lower) /\ IsSmall(top)
  /\ queue' = queue \ {top}
  /\ scan' = [next |-> top.lower, upper |-> top.upper]
  /\ UNCHANGED <<task, best, evaluated, pruned, started, result>>

\* The halves have the middle in common.
Split_SharesMiddle(top) ==
  /\ Pop(top)
  /\ CanBeat(top.bound, top.lower) /\ ~IsSmall(top)
  /\ LET middle == (top.lower + top.upper) \div 2
         halves == {Interval(top.lower, middle), Interval(middle, top.upper)}
         kept == {p \in halves : CanBeat(p.bound, p.lower)}
     IN /\ queue' = (queue \ {top}) \cup kept
        /\ pruned' = pruned + Cardinality(halves \ kept)
  /\ UNCHANGED <<task, scan, best, evaluated, started, result>>

\* The halves that can beat the best are pushed, the others pruned.
Split(top) ==
  /\ Pop(top)
  /\ CanBeat(top.bound, top.lower) /\ ~IsSmall(top)
  /\ LET middle == (top.lower + top.upper) \div 2
         halves == {Interval(top.lower, middle), Interval(middle + 1, top.upper)}
         kept == {p \in halves : CanBeat(p.bound, p.lower)}
     IN /\ queue' = (queue \ {top}) \cup kept
        /\ pruned' = pruned + Cardinality(halves \ kept)
  /\ UNCHANGED <<task, scan, best, evaluated, started, result>>

Evaluate_WaitsForBetter ==
  /\ result = Pending /\ Scanning
  /\ Better(Profit(route, scan.next), scan.next)
  /\ best' = [profit |-> Profit(route, scan.next), input |-> scan.next]
  /\ scan' = [scan EXCEPT !.next = @ + 1]
  /\ evaluated' = evaluated + 1
  /\ UNCHANGED <<task, queue, explored, pruned, started, result>>

\* One exact quote.
Evaluate ==
  /\ result = Pending /\ Scanning
  /\ LET profit == Profit(route, scan.next)
     IN best' = IF Better(profit, scan.next)
                THEN [profit |-> profit, input |-> scan.next] ELSE best
  /\ scan' = [scan EXCEPT !.next = @ + 1]
  /\ evaluated' = evaluated + 1
  /\ UNCHANGED <<task, queue, explored, pruned, started, result>>

\* The heap is empty.
Finish ==
  /\ Running /\ queue = {}
  /\ IF best.profit <= 0
     THEN Return("no-positive-exact-profit", Nothing, FullBound)
     ELSE Return("complete", best, FullBound)
  /\ UNCHANGED <<task, queue, scan, best, counters, started>>

Explore == \E top \in queue : Discard(top) \/ BeginScan(top) \/ Split(top)

Next == Start \/ Exhaust \/ Explore \/ Evaluate \/ Finish

Spec == Init /\ [][Next]_vars

\* One call in one thread: the loop runs on until it returns.
FairSpec == Spec /\ WF_vars(Next)

-----------------------------------------------------------------------------
(***************************************************************************)
(* Properties                                                              *)
(***************************************************************************)

IntervalOK(p) ==
  /\ p.lower \in 1..Maximum /\ p.upper \in p.lower..Maximum
  /\ p.bound = Bound(route, p.lower, p.upper)

\* The state has its types: intervals lie within the inputs that quote, and
\* carry their bound.
TypeOK ==
  /\ \A p \in queue : IntervalOK(p)
  /\ scan.next \in Nat \ {0} /\ scan.upper \in 0..Maximum
  /\ best.profit \in Nat /\ best.input \in 0..Maximum
  /\ evaluated \in Nat /\ explored \in 0..limits.intervals /\ pruned \in Nat
  /\ started \in BOOLEAN
  /\ queue # {} => started /\ HasEdge(route) /\ FullBound > 0

\* An input that would replace the best so far is still to come: it is left in
\* the scanned interval or in one on the heap.  No prune loses the optimum, ties
\* to smaller inputs included (optimizer.py:267-279, 375-406).
NothingBetterIsLost ==
  (started /\ result = Pending) =>
    \A x \in 1..Maximum : Better(Profit(route, x), x) =>
      \/ x \in scan.next..scan.upper
      \/ \E p \in queue : x \in p.lower..p.upper

\* A "complete" result is the smallest input with the largest exact profit, and
\* each "no-..." result means that no input is profitable; "budget-exhausted"
\* alone may leave profit behind (F3_ACCEPTANCE.md "bounded deterministic exact
\* optimization with smaller-input tie-breaking").
ResultIsExact ==
  result # Pending =>
    /\ result.status = "complete" =>
         /\ result.input \in 1..Maximum /\ result.profit = Profit(route, result.input)
         /\ \A x \in 1..Maximum :
              /\ Profit(route, x) <= result.profit
              /\ Profit(route, x) = result.profit => result.input <= x
    /\ result.status \in {"no-valid-input", "no-positive-continuous-edge",
                          "no-positive-exact-profit"} =>
         \A x \in 1..Maximum : Profit(route, x) <= 0

\* The counters and bounds the search ends with always pass the checks of the
\* result it constructs: optimize_route never raises at its return
\* (optimizer.py:117-186).
ResultIsAccepted == result # Pending => result.status # "raised"

\* Intervals shrink at every split and no input is in two of them: as many
\* intervals as there are nodes in a binary tree over the inputs are always
\* enough for an answer, however the bounds turn out (optimizer.py:359-371,
\* 392-406).
EnoughIntervalsSuffice ==
  result # Pending /\ limits.intervals >= 2 * Maximum - 1
    => result.status # "budget-exhausted"

\* Every turn of the loops makes progress: the search ends at the latest when its
\* interval budget does (optimizer.py:358-408).
SearchEnds == <>(result # Pending)
=============================================================================
