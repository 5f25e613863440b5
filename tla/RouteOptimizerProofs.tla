------------------------ MODULE RouteOptimizerProofs ------------------------
(***************************************************************************)
(* Proofs about RouteOptimizer, for every route arithmetic whose interval  *)
(* bound is at least every exact profit of the interval (BoundAssumption), *)
(* and for all limits; and, in the second half, that the arithmetic of     *)
(* ConstantProduct is such an arithmetic, for every route and word width   *)
(* (ArithmeticServesTheSearch).                                            *)
(*                                                                         *)
(* ResultIsExact speaks of the last state only.  What carries it there is  *)
(* NothingBetterIsLost: as the heap empties it says that no input is       *)
(* better than the best.  That in turn needs the best to be a real quote   *)
(* and the intervals to carry their bounds.                                *)
(*                                                                         *)
(* ResultIsAccepted needs the accounts of the loop (CountersOK) and that   *)
(* the search never ends without having evaluated an input (ProgressOK).   *)
(*                                                                         *)
(* EnoughIntervalsSuffice needs that no split repeats an earlier one: the  *)
(* cuts that splits have made are counted (CutsOK).                        *)
(***************************************************************************)
EXTENDS RouteOptimizer, ConstantProduct, FiniteSetTheorems, WellFoundedInduction, TLAPS

TaskOK == route \in Routes /\ limits \in LimitSets

QueueOK ==
  /\ \A p \in queue : IntervalOK(p)
  /\ queue # {} => started /\ HasEdge(route)

ScanOK ==
  /\ scan.next \in Nat \ {0} /\ scan.upper \in 0..Maximum
  /\ scan = [next |-> scan.next, upper |-> scan.upper]
  /\ Scanning => started

\* The best so far is nothing yet, or an input with its exact, positive profit.
BestOK ==
  \/ best = Nothing
  \/ /\ best.input \in 1..Maximum
     /\ best.profit = Profit(route, best.input)
     /\ best.profit > 0

Fresh == ~started => result = Pending /\ queue = {} /\ ~Scanning /\ best = Nothing

SearchInv ==
  /\ TaskOK /\ QueueOK /\ ScanOK /\ BestOK /\ Fresh
  /\ NothingBetterIsLost /\ ResultIsExact

-----------------------------------------------------------------------------
(* The task never changes, and its arithmetic is as assumed *)

\* What the task's figures are: a profit is an integer, never positive on a route without
\* an edge, and at most the bound of any interval that holds its input.
LEMMA Arithmetic ==
  ASSUME TaskOK
  PROVE  /\ Maximum \in Nat
         /\ limits.threshold \in Nat
         /\ \A x \in 1..Maximum :
              Profit(route, x) \in Int /\ (~HasEdge(route) => Profit(route, x) <= 0)
         /\ HasEdge(route) =>
              \A lower, upper \in 1..Maximum : lower <= upper =>
                /\ Bound(route, lower, upper) \in Int
                /\ \A x \in lower..upper : Profit(route, x) <= Bound(route, lower, upper)
                /\ \A x \in lower..upper :
                     Bound(route, lower, upper) > 0 => Bound(route, lower, x) > 0
<1>1. limits.input \in Nat /\ limits.threshold \in Nat
    BY LimitsAssumption DEF TaskOK
<1>2. Maximum \in 0..limits.input
    BY BoundAssumption DEF TaskOK, Maximum
<1> QED BY <1>1, <1>2, BoundAssumption DEF TaskOK, Maximum

\* The best candidate so far is Nothing exactly when it has no input.
LEMMA BestTyped ==
  ASSUME TaskOK, BestOK
  PROVE  /\ best.profit \in Nat /\ best.input \in 0..Maximum
         /\ best.input = 0 <=> best = Nothing
         /\ best.profit > 0 <=> best # Nothing
  BY Arithmetic DEF BestOK, Nothing

\* An interval that cannot beat the best holds no better input.
LEMMA UnbeatableHoldsNothingBetter ==
  ASSUME TaskOK, BestOK, HasEdge(route),
         NEW lower \in 1..Maximum, NEW upper \in lower..Maximum,
         ~CanBeat(Bound(route, lower, upper), lower),
         NEW x \in lower..upper
  PROVE  ~Better(Profit(route, x), x)
<1>1. /\ Maximum \in Nat /\ x \in 1..Maximum /\ upper \in 1..Maximum /\ lower <= upper
    BY Arithmetic
<1>2. /\ Profit(route, x) \in Int /\ Bound(route, lower, upper) \in Int
      /\ Profit(route, x) <= Bound(route, lower, upper)
    BY <1>1, Arithmetic
<1> QED BY <1>1, <1>2, BestTyped DEF CanBeat, Better

\* What is better after an improvement was better before it.
LEMMA BetterShrinks ==
  ASSUME TaskOK, BestOK, NEW y \in 1..Maximum, Better(Profit(route, y), y),
         best' = [profit |-> Profit(route, y), input |-> y],
         NEW x \in 1..Maximum, Better(Profit(route, x), x)'
         , UNCHANGED task
  PROVE  Better(Profit(route, x), x) /\ x # y
<1>1. Profit(route, x) \in Int /\ Profit(route, y) \in Int /\ x \in Nat /\ y \in Nat
    BY Arithmetic
<1>2. best'.profit = Profit(route, y) /\ best'.input = y /\ Profit(route', x) = Profit(route, x)
    BY DEF task
<1>3. \/ Profit(route, x) > Profit(route, y)
      \/ Profit(route, x) = Profit(route, y) /\ Profit(route, x) > 0 /\ (y = 0 \/ x < y)
    BY <1>2 DEF Better
<1> QED BY <1>1, <1>3, BestTyped DEF Better

-----------------------------------------------------------------------------
(* The inductive invariant *)

\* Before the search starts there is no interval, no scan and no candidate.
LEMMA SearchInvInitially == Init => SearchInv
<1> SUFFICES ASSUME Init PROVE SearchInv
    OBVIOUS
<1>1. TaskOK
    BY DEF Init, TaskOK
<1>2. QueueOK /\ ScanOK /\ BestOK /\ Fresh
    BY <1>1, Arithmetic DEF Init, QueueOK, ScanOK, BestOK, Fresh, NoScan, Scanning
<1>3. NothingBetterIsLost /\ ResultIsExact
    BY DEF Init, NothingBetterIsLost, ResultIsExact
<1> QED BY <1>1, <1>2, <1>3 DEF SearchInv

\* What a step that keeps the task leaves alone.
LEMMA TaskKept ==
  ASSUME UNCHANGED task, TaskOK
  PROVE  TaskOK' /\ Maximum' = Maximum
  BY DEF task, TaskOK, Maximum

\* A returned result is the record that was asked for, or raised.
LEMMA ReturnedResult ==
  ASSUME NEW status, NEW winner, NEW bound, Return(status, winner, bound)
  PROVE  \/ /\ result'.status = status
            /\ result'.input = winner.input /\ result'.profit = winner.profit
         \/ result'.status = "raised"
  BY DEF Return

\* The first interval covers every input, so nothing is lost.
LEMMA StartPreserves == ASSUME SearchInv, Start PROVE SearchInv'
<1> USE DEF SearchInv
<1>1. UNCHANGED task /\ scan' = scan /\ best' = best /\ started'
    BY DEF Start
<1>2. TaskOK' /\ Maximum' = Maximum /\ route' = route
    BY <1>1, TaskKept DEF task
<1>3. ~started /\ result = Pending /\ queue = {} /\ ~Scanning /\ best = Nothing
    BY DEF Start, Fresh
<1>4. ScanOK' /\ BestOK' /\ Fresh'
    BY <1>1, <1>2 DEF ScanOK, BestOK, Fresh, Scanning
<1>5. Maximum \in Nat
    BY Arithmetic
<1>6. CASE Maximum = 0 /\ Return("no-valid-input", Nothing, 0) /\ UNCHANGED queue
  <2>1. result'.status \in {"no-valid-input", "raised"}
      BY <1>6, ReturnedResult
  <2>2. ResultIsExact' /\ NothingBetterIsLost' /\ QueueOK'
      BY <1>2, <1>3, <1>6, <2>1 DEF ResultIsExact, NothingBetterIsLost, QueueOK
  <2> QED BY <1>2, <1>4, <2>2
<1>7. CASE /\ Maximum > 0 /\ ~HasEdge(route) /\ UNCHANGED queue
           /\ Return("no-positive-continuous-edge", Nothing, 0)
  <2>1. result'.status \in {"no-positive-continuous-edge", "raised"}
      BY <1>7, ReturnedResult
  <2>2. \A x \in 1..Maximum : Profit(route, x) <= 0
      BY <1>7, Arithmetic
  <2>3. ResultIsExact'
      BY <1>2, <2>1, <2>2 DEF ResultIsExact
  <2>4. NothingBetterIsLost' /\ QueueOK'
    <3>1. \A x \in 1..Maximum : Profit(route, x) \in Int
        BY Arithmetic
    <3>2. \A x \in 1..Maximum : ~Better(Profit(route, x), x)'
        BY <1>1, <1>2, <1>3, <2>2, <3>1 DEF Better, Nothing
    <3> QED BY <1>2, <1>3, <1>7, <3>2 DEF NothingBetterIsLost, QueueOK
  <2> QED BY <1>2, <1>4, <2>3, <2>4
<1>8. CASE /\ Maximum > 0 /\ HasEdge(route) /\ FullBound <= 0 /\ UNCHANGED queue
           /\ Return("no-positive-continuous-edge", Nothing, FullBound)
  <2>1. result'.status \in {"no-positive-continuous-edge", "raised"}
      BY <1>8, ReturnedResult
  <2>2. /\ FullBound \in Int
        /\ \A x \in 1..Maximum : Profit(route, x) \in Int /\ Profit(route, x) <= FullBound
      BY <1>5, <1>8, Arithmetic DEF FullBound
  <2>3. \A x \in 1..Maximum : Profit(route, x) <= 0
      BY <1>8, <2>2
  <2>4. ResultIsExact'
      BY <1>2, <2>1, <2>3 DEF ResultIsExact
  <2>5. \A x \in 1..Maximum : ~Better(Profit(route, x), x)'
      BY <1>1, <1>2, <1>3, <2>2, <2>3 DEF Better, Nothing
  <2>6. NothingBetterIsLost' /\ QueueOK'
      BY <1>2, <1>3, <1>8, <2>5 DEF NothingBetterIsLost, QueueOK
  <2> QED BY <1>2, <1>4, <2>4, <2>6
<1>9. CASE /\ Maximum > 0 /\ HasEdge(route) /\ FullBound > 0
           /\ queue' = {Interval(1, Maximum)} /\ UNCHANGED result
  <2>1. QueueOK'
      BY <1>1, <1>2, <1>5, <1>9 DEF QueueOK, IntervalOK, Interval
  <2>2. NothingBetterIsLost'
      BY <1>2, <1>5, <1>9 DEF NothingBetterIsLost, Interval
  <2>3. ResultIsExact'
      BY <1>3, <1>9 DEF ResultIsExact
  <2> QED BY <1>2, <1>4, <2>1, <2>2, <2>3
<1> QED BY <1>6, <1>7, <1>8, <1>9 DEF Start

\* Running out of evaluations ends the search without an answer.
LEMMA ExhaustPreserves == ASSUME SearchInv, Exhaust PROVE SearchInv'
<1> USE DEF SearchInv
<1>1. UNCHANGED <<route, limits, queue, scan, best, started>>
    BY DEF Exhaust, task
<1>2. TaskOK' /\ Maximum' = Maximum
    BY <1>1, TaskKept DEF task
<1>3. result'.status \in {"budget-exhausted", "raised"}
    BY ReturnedResult DEF Exhaust
<1>4. ResultIsExact'
    BY <1>3 DEF ResultIsExact
<1>5. started
    BY DEF Exhaust, Running
<1>6. QueueOK' /\ ScanOK' /\ BestOK' /\ Fresh'
    BY <1>1, <1>2, <1>5 DEF QueueOK, IntervalOK, ScanOK, BestOK, Fresh, Scanning
<1>7. \A x : Better(Profit(route, x), x)' <=> Better(Profit(route, x), x)
    BY <1>1 DEF Better
<1>8. NothingBetterIsLost'
    BY <1>1, <1>2, <1>5, <1>7 DEF NothingBetterIsLost, Exhaust, Running
<1> QED BY <1>2, <1>4, <1>6, <1>8

\* With no interval left, the candidate beats every input.
LEMMA FinishPreserves == ASSUME SearchInv, Finish PROVE SearchInv'
<1> USE DEF SearchInv
<1>1. UNCHANGED <<route, limits, queue, scan, best, started>>
    BY DEF Finish, task
<1>2. TaskOK' /\ Maximum' = Maximum
    BY <1>1, TaskKept DEF task
<1>3. started /\ result = Pending /\ queue = {} /\ ~Scanning
    BY DEF Finish, Running
<1>4. \A x \in 1..Maximum : ~Better(Profit(route, x), x)
  <2>1. scan.next..scan.upper = {}
      BY <1>3, Arithmetic DEF Scanning, ScanOK
  <2> QED BY <1>3, <2>1 DEF NothingBetterIsLost
<1>5. /\ \A x \in 1..Maximum : Profit(route, x) \in Int
      /\ best.profit \in Nat /\ best.input \in Nat
      /\ Maximum \in Nat
    BY Arithmetic, BestTyped
<1>6. \A x \in 1..Maximum :
        /\ Profit(route, x) <= best.profit
        /\ Profit(route, x) = best.profit /\ best.profit > 0 => best.input <= x
    BY <1>4, <1>5 DEF Better
<1>7. ResultIsExact'
  <2>1. CASE best.profit <= 0
    <3>1. result'.status \in {"no-positive-exact-profit", "raised"}
        BY <2>1, ReturnedResult DEF Finish
    <3>2. \A x \in 1..Maximum : Profit(route, x) <= 0
        BY <1>5, <1>6, <2>1
    <3> QED BY <1>1, <1>2, <3>1, <3>2 DEF ResultIsExact
  <2>2. CASE best.profit > 0
    <3>1. \/ result'.status = "complete" /\ result'.input = best.input
               /\ result'.profit = best.profit
          \/ result'.status = "raised"
        BY <2>2, <1>5, ReturnedResult DEF Finish
    <3>2. best.input \in 1..Maximum /\ best.profit = Profit(route, best.input)
        BY <2>2, BestTyped DEF BestOK
    <3> QED BY <1>1, <1>2, <1>6, <2>2, <3>1, <3>2 DEF ResultIsExact
  <2> QED BY <2>1, <2>2, <1>5
<1>8. QueueOK' /\ ScanOK' /\ BestOK' /\ Fresh'
    BY <1>1, <1>2, <1>3 DEF QueueOK, IntervalOK, ScanOK, BestOK, Fresh, Scanning
<1>9. NothingBetterIsLost'
    BY <1>1, <1>2, <1>4 DEF NothingBetterIsLost, Better
<1> QED BY <1>2, <1>7, <1>8, <1>9

\* An interval on the heap is well formed and no scan is going on when it is
\* popped, so every better input is on the heap.
LEMMA PoppedState ==
  ASSUME SearchInv, NEW top \in queue, Pop(top)
  PROVE  /\ started /\ result = Pending /\ ~Scanning /\ HasEdge(route)
         /\ top.lower \in 1..Maximum /\ top.upper \in top.lower..Maximum
         /\ top.bound = Bound(route, top.lower, top.upper)
         /\ \A x \in 1..Maximum : Better(Profit(route, x), x) =>
              \E p \in queue : x \in p.lower..p.upper
<1> USE DEF SearchInv
<1>1. started /\ result = Pending /\ ~Scanning
    BY DEF Pop, Running
<1>2. scan.next..scan.upper = {}
    BY <1>1, Arithmetic DEF Scanning, ScanOK
<1> QED BY <1>1, <1>2 DEF QueueOK, IntervalOK, NothingBetterIsLost

\* A discarded interval holds nothing better than the candidate.
LEMMA DiscardPreserves == ASSUME SearchInv, NEW top \in queue, Discard(top) PROVE SearchInv'
<1> USE DEF SearchInv
<1>1. UNCHANGED <<route, limits, scan, best, started, result>> /\ queue' = queue \ {top}
    BY DEF Discard, task
<1>2. TaskOK' /\ Maximum' = Maximum
    BY <1>1, TaskKept DEF task
<1>3. Pop(top) /\ ~CanBeat(top.bound, top.lower)
    BY DEF Discard
<1>4. QueueOK' /\ ScanOK' /\ BestOK' /\ Fresh' /\ ResultIsExact'
    BY <1>1, <1>2, <1>3, PoppedState
       DEF QueueOK, IntervalOK, ScanOK, BestOK, Fresh, ResultIsExact, Scanning
<1>5. NothingBetterIsLost'
  <2> SUFFICES ASSUME NEW x \in 1..Maximum, Better(Profit(route, x), x)
               PROVE  \E p \in queue' : x \in p.lower..p.upper
      BY <1>1, <1>2 DEF NothingBetterIsLost, Better
  <2>1. PICK p \in queue : x \in p.lower..p.upper
      BY <1>3, PoppedState
  <2>2. p # top
      BY <1>3, <2>1, PoppedState, UnbeatableHoldsNothingBetter
  <2> QED BY <1>1, <2>1, <2>2
<1> QED BY <1>2, <1>4, <1>5

\* An interval small enough moves whole from the queue to the scan.
LEMMA BeginScanPreserves == ASSUME SearchInv, NEW top \in queue, BeginScan(top) PROVE SearchInv'
<1> USE DEF SearchInv
<1>1. /\ UNCHANGED <<route, limits, best, started, result>> /\ queue' = queue \ {top}
      /\ scan' = [next |-> top.lower, upper |-> top.upper]
    BY DEF BeginScan, task
<1>2. TaskOK' /\ Maximum' = Maximum
    BY <1>1, TaskKept DEF task
<1>3. Pop(top)
    BY DEF BeginScan
<1>4. /\ started /\ result = Pending
      /\ top.lower \in 1..Maximum /\ top.upper \in top.lower..Maximum /\ Maximum \in Nat
    BY <1>3, PoppedState, Arithmetic
<1>5. QueueOK' /\ ScanOK' /\ BestOK' /\ Fresh' /\ ResultIsExact'
    BY <1>1, <1>2, <1>4
       DEF QueueOK, IntervalOK, ScanOK, BestOK, Fresh, ResultIsExact, Scanning
<1>6. NothingBetterIsLost'
  <2> SUFFICES ASSUME NEW x \in 1..Maximum, Better(Profit(route, x), x)
               PROVE  x \in scan'.next..scan'.upper \/ \E p \in queue' : x \in p.lower..p.upper
      BY <1>1, <1>2 DEF NothingBetterIsLost, Better
  <2>1. PICK p \in queue : x \in p.lower..p.upper
      BY <1>3, PoppedState
  <2> QED BY <1>1, <2>1
<1> QED BY <1>2, <1>5, <1>6

\* The two halves cover the interval, and a half dropped holds nothing better.
LEMMA SplitPreserves == ASSUME SearchInv, NEW top \in queue, Split(top) PROVE SearchInv'
<1> USE DEF SearchInv
<1> DEFINE middle == (top.lower + top.upper) \div 2
           low == Interval(top.lower, middle)
           high == Interval(middle + 1, top.upper)
           kept == {p \in {low, high} : CanBeat(p.bound, p.lower)}
<1>1. UNCHANGED <<route, limits, scan, best, started, result>>
      /\ queue' = (queue \ {top}) \cup kept
    BY DEF Split, task
<1>2. TaskOK' /\ Maximum' = Maximum
    BY <1>1, TaskKept DEF task
<1>3. Pop(top) /\ ~IsSmall(top)
    BY DEF Split
<1>4. /\ started /\ result = Pending /\ ~Scanning /\ HasEdge(route)
      /\ top.lower \in 1..Maximum /\ top.upper \in top.lower..Maximum /\ Maximum \in Nat
      /\ \A x \in 1..Maximum : Better(Profit(route, x), x) =>
           \E p \in queue : x \in p.lower..p.upper
    BY <1>3, PoppedState, Arithmetic
<1>5. top.lower < top.upper
  <2>1. limits.threshold \in Nat \ {0}
      BY LimitsAssumption DEF TaskOK
  <2> QED BY <1>3, <1>4, <2>1 DEF IsSmall
<1>6. /\ middle \in top.lower..top.upper /\ middle < top.upper /\ middle \in Nat
    BY <1>4, <1>5
<1>7. /\ low.lower = top.lower /\ low.upper = middle /\ low.bound = Bound(route, top.lower, middle)
      /\ high.lower = middle + 1 /\ high.upper = top.upper
      /\ high.bound = Bound(route, middle + 1, top.upper)
    BY DEF Interval
<1> HIDE DEF middle, low, high
<1>8. IntervalOK(low) /\ IntervalOK(high)
    BY <1>4, <1>6, <1>7 DEF IntervalOK
<1>9. QueueOK'
  <2>1. \A p \in queue' : p \in queue \/ p = low \/ p = high
      BY <1>1
  <2>2. \A p \in queue' : IntervalOK(p)
      BY <1>8, <2>1 DEF QueueOK
  <2>3. \A p : IntervalOK(p)' <=> IntervalOK(p)
      BY <1>1, <1>2 DEF IntervalOK
  <2> QED BY <1>1, <1>4, <2>2, <2>3 DEF QueueOK
<1>10. ScanOK' /\ BestOK' /\ Fresh' /\ ResultIsExact'
    BY <1>1, <1>2, <1>4 DEF ScanOK, BestOK, Fresh, ResultIsExact, Scanning
<1>11. NothingBetterIsLost'
  <2> SUFFICES ASSUME NEW x \in 1..Maximum, Better(Profit(route, x), x)
               PROVE  \E p \in queue' : x \in p.lower..p.upper
      BY <1>1, <1>2 DEF NothingBetterIsLost, Better
  <2>1. PICK p \in queue : x \in p.lower..p.upper
      BY <1>4
  <2>2. CASE p # top
      BY <1>1, <2>1, <2>2
  <2>3. CASE p = top /\ x <= middle
    <3>1. x \in low.lower..low.upper
        BY <2>1, <2>3, <1>4, <1>6, <1>7
    <3>2. CanBeat(low.bound, low.lower)
        BY <3>1, <1>4, <1>8, UnbeatableHoldsNothingBetter DEF IntervalOK
    <3> QED BY <1>1, <3>1, <3>2
  <2>4. CASE p = top /\ x > middle
    <3>1. x \in high.lower..high.upper
        BY <2>1, <2>4, <1>4, <1>6, <1>7
    <3>2. CanBeat(high.bound, high.lower)
        BY <3>1, <1>4, <1>8, UnbeatableHoldsNothingBetter DEF IntervalOK
    <3> QED BY <1>1, <3>1, <3>2
  <2> QED BY <2>2, <2>3, <2>4, <1>6
<1> QED BY <1>2, <1>9, <1>10, <1>11

\* The evaluated input leaves the scan once the candidate is at least as good.
LEMMA EvaluatePreserves == ASSUME SearchInv, Evaluate PROVE SearchInv'
<1> USE DEF SearchInv
<1> DEFINE y == scan.next
<1>1. /\ UNCHANGED <<route, limits, queue, started, result>>
      /\ scan' = [scan EXCEPT !.next = @ + 1]
      /\ result = Pending /\ Scanning
      /\ best' = IF Better(Profit(route, y), y)
                 THEN [profit |-> Profit(route, y), input |-> y] ELSE best
    BY DEF Evaluate, task
<1>2. TaskOK' /\ Maximum' = Maximum
    BY <1>1, TaskKept DEF task
<1>3. y \in 1..Maximum /\ Maximum \in Nat /\ Profit(route, y) \in Int /\ started
    BY <1>1, Arithmetic DEF ScanOK, Scanning
<1>4. scan'.next = y + 1 /\ scan'.upper = scan.upper
      /\ scan' = [next |-> scan'.next, upper |-> scan'.upper]
    BY <1>1 DEF ScanOK
<1>5. QueueOK' /\ ScanOK' /\ Fresh' /\ ResultIsExact'
    BY <1>1, <1>2, <1>3, <1>4
       DEF QueueOK, IntervalOK, ScanOK, Fresh, ResultIsExact, Scanning
<1>6. CASE Better(Profit(route, y), y)
  <2>1. best' = [profit |-> Profit(route, y), input |-> y]
      BY <1>1, <1>6
  <2>2. BestOK'
    <3>1. Profit(route, y) > 0
        BY <1>3, <1>6, BestTyped DEF Better
    <3> QED BY <1>1, <1>2, <1>3, <2>1, <3>1 DEF BestOK
  <2>3. NothingBetterIsLost'
    <3> SUFFICES ASSUME NEW x \in 1..Maximum, Better(Profit(route, x), x)'
                 PROVE  x \in scan'.next..scan'.upper \/ \E p \in queue : x \in p.lower..p.upper
        BY <1>1, <1>2 DEF NothingBetterIsLost
    <3>1. Better(Profit(route, x), x) /\ x # y
        BY <1>1, <1>3, <1>6, <2>1, BetterShrinks DEF task
    <3>2. x \in scan.next..scan.upper \/ \E p \in queue : x \in p.lower..p.upper
        BY <1>1, <1>3, <3>1 DEF NothingBetterIsLost
    <3> QED BY <1>3, <1>4, <3>1, <3>2 DEF ScanOK
  <2> QED BY <1>2, <1>5, <2>2, <2>3
<1>7. CASE ~Better(Profit(route, y), y)
  <2>1. best' = best
      BY <1>1, <1>7
  <2>2. BestOK'
      BY <1>1, <1>2, <2>1 DEF BestOK
  <2>3. NothingBetterIsLost'
    <3> SUFFICES ASSUME NEW x \in 1..Maximum, Better(Profit(route, x), x)
                 PROVE  x \in scan'.next..scan'.upper \/ \E p \in queue : x \in p.lower..p.upper
        BY <1>1, <1>2, <2>1 DEF NothingBetterIsLost, Better
    <3>1. x # y
        BY <1>7
    <3>2. x \in scan.next..scan.upper \/ \E p \in queue : x \in p.lower..p.upper
        BY <1>1, <1>3 DEF NothingBetterIsLost
    <3> QED BY <1>3, <1>4, <3>1, <3>2 DEF ScanOK
  <2> QED BY <1>2, <1>5, <2>2, <2>3
<1> QED BY <1>6, <1>7

\* Every step of the search keeps the invariant.
LEMMA SearchInvPreserved == SearchInv /\ [Next]_vars => SearchInv'
<1> SUFFICES ASSUME SearchInv, [Next]_vars PROVE SearchInv'
    OBVIOUS
<1>1. CASE Explore
    BY <1>1, DiscardPreserves, BeginScanPreserves, SplitPreserves DEF Explore
<1>2. CASE UNCHANGED vars
  <2>1. UNCHANGED <<route, limits, queue, scan, best, started, result>>
      BY <1>2 DEF vars, task
  <2> QED BY <2>1 DEF SearchInv, TaskOK, QueueOK, IntervalOK, ScanOK, BestOK, Fresh,
             NothingBetterIsLost, ResultIsExact, Scanning, Maximum, Better
<1> QED BY <1>1, <1>2, StartPreserves, ExhaustPreserves, EvaluatePreserves, FinishPreserves
        DEF Next

\* The invariant holds in every reachable state.
LEMMA SearchInvAlways == Spec => []SearchInv
  BY SearchInvInitially, SearchInvPreserved, PTL DEF Spec

-----------------------------------------------------------------------------
(* The accounts of the search, from which the result is accepted *)

\* The inputs of the scanned interval that are still to be quoted.
Unevaluated == IF Scanning THEN scan.upper - scan.next + 1 ELSE 0

\* Every popped interval pays for at most threshold quotes and two prunes.
CountersOK ==
  /\ evaluated \in Nat /\ explored \in 0..limits.intervals /\ pruned \in Nat
  /\ evaluated + Unevaluated <= explored * limits.threshold
  /\ pruned <= 2 * explored
  /\ ~started => evaluated = 0 /\ explored = 0 /\ pruned = 0

\* Until an input has been quoted nothing is best, every interval on the heap can
\* beat nothing, and one is left.
ProgressOK ==
  /\ \A p \in queue : p.bound > 0
  /\ evaluated = 0 => best = Nothing
  /\ started /\ result = Pending =>
       /\ Maximum > 0 /\ HasEdge(route) /\ FullBound > 0
       /\ evaluated = 0 => queue # {} \/ Scanning

ReturnInv == SearchInv /\ CountersOK /\ ProgressOK /\ ResultIsAccepted

\* What the accounts say of the counters: they are integers in their ranges.
LEMMA CountersTyped ==
  ASSUME ReturnInv
  PROVE  /\ limits.threshold \in Nat \ {0} /\ limits.intervals \in Nat \ {0}
         /\ Unevaluated \in Nat /\ explored * limits.threshold \in Nat
         /\ evaluated \in Nat /\ explored \in Nat /\ pruned \in Nat
         /\ explored <= limits.intervals
         /\ evaluated <= explored * limits.threshold /\ pruned <= 2 * explored + 1
         /\ evaluated > 0 => explored > 0
<1>1. limits.threshold \in Nat \ {0} /\ limits.intervals \in Nat \ {0}
    BY LimitsAssumption DEF ReturnInv, SearchInv, TaskOK
<1>2. Unevaluated \in Nat
  <2>1. scan.next \in Nat /\ scan.upper \in Nat
      BY Arithmetic DEF ReturnInv, SearchInv, ScanOK
  <2> QED BY <2>1 DEF Unevaluated, Scanning
<1>3. /\ evaluated \in Nat /\ explored \in Nat /\ pruned \in Nat
      /\ explored <= limits.intervals /\ pruned <= 2 * explored
      /\ evaluated + Unevaluated <= explored * limits.threshold
    BY <1>1 DEF ReturnInv, CountersOK
<1>4. explored * limits.threshold \in Nat
    BY <1>1, <1>3
<1>5. evaluated <= explored * limits.threshold
    BY <1>2, <1>3, <1>4
<1>6. explored = 0 => explored * limits.threshold = 0
    BY <1>1
<1> QED BY <1>1, <1>2, <1>3, <1>4, <1>5, <1>6

\* What is best is worth no more than the bound of the full interval.
LEMMA BestWithinBound ==
  ASSUME SearchInv, Maximum > 0, HasEdge(route)
  PROVE  FullBound \in Int /\ (best.profit <= FullBound \/ FullBound < 0)
<1>1. TaskOK /\ BestOK /\ Maximum \in Nat
    BY Arithmetic DEF SearchInv
<1>2. FullBound \in Int /\ \A x \in 1..Maximum : Profit(route, x) <= FullBound
    BY <1>1, Arithmetic DEF FullBound
<1> QED BY <1>1, <1>2 DEF BestOK, Nothing

\* What Return makes of a status, a winner and a bound.
Outcome(status, winner, bound) ==
  [status |-> status, input |-> winner.input, profit |-> winner.profit,
   evaluated |-> evaluated, explored |-> explored, pruned |-> pruned,
   bound |-> IF bound > 0 THEN bound ELSE 0]

\* An outcome that passes the checks is returned: the search has ended, and not raised.
LEMMA AcceptedReturn ==
  ASSUME ReturnInv, NEW status \in Statuses, status # "raised",
         NEW winner, winner.input \in Nat, winner.profit \in Nat,
         NEW bound \in Int,
         Accepted(Outcome(status, winner, bound)),
         Return(status, winner, bound)
  PROVE  ResultIsAccepted' /\ result' # Pending
<1>1. result' = Outcome(status, winner, bound)
    BY Zenon DEF Return, Outcome
<1>2. Outcome(status, winner, bound).status = status
    BY DEF Outcome
<1>3. Outcome(status, winner, bound)
        \in [status : Statuses, input : Nat, profit : Nat, evaluated : Nat,
             explored : Nat, pruned : Nat, bound : Nat]
    BY CountersTyped DEF Outcome
<1> QED BY <1>1, <1>2, <1>3, PendingAssumption DEF ResultIsAccepted

\* The fields of an outcome.
LEMMA OutcomeFields ==
  ASSUME NEW status, NEW winner, NEW bound
  PROVE  LET r == Outcome(status, winner, bound) IN
         /\ r.status = status /\ r.input = winner.input /\ r.profit = winner.profit
         /\ r.evaluated = evaluated /\ r.explored = explored /\ r.pruned = pruned
         /\ r.bound = IF bound > 0 THEN bound ELSE 0
  BY DEF Outcome

\* Before the first step every account is empty.
LEMMA ReturnInvInitially == Init => ReturnInv
<1> SUFFICES ASSUME Init PROVE ReturnInv
    OBVIOUS
<1>1. SearchInv
    BY SearchInvInitially
<1>2. limits.threshold \in Nat /\ limits.intervals \in Nat
    BY <1>1, LimitsAssumption DEF SearchInv, TaskOK
<1>3. Unevaluated = 0
    BY DEF Init, Unevaluated, Scanning, NoScan
<1> QED BY <1>1, <1>2, <1>3 DEF Init, ReturnInv, CountersOK, ProgressOK, ResultIsAccepted

\* The early returns are made with empty counters, and the first interval is positive.
LEMMA StartReturns == ASSUME ReturnInv, Start PROVE ReturnInv'
<1>1. SearchInv /\ SearchInv' /\ TaskOK /\ Maximum \in Nat
    BY StartPreserves, Arithmetic DEF ReturnInv, SearchInv
<1>2. UNCHANGED <<route, limits, scan, best, evaluated, explored, pruned>> /\ started' /\ ~started
    BY DEF Start, task, counters
<1>3. /\ evaluated = 0 /\ explored = 0 /\ pruned = 0
      /\ result = Pending /\ queue = {} /\ ~Scanning /\ best = Nothing
    BY <1>1, <1>2 DEF ReturnInv, CountersOK, SearchInv, Fresh
<1>4. /\ limits.threshold \in Nat /\ limits.intervals \in Nat
      /\ Maximum' = Maximum /\ FullBound' = FullBound /\ Scanning' = Scanning
    BY <1>1, <1>2, CountersTyped DEF Maximum, FullBound, Scanning
<1>5. CountersOK'
    BY <1>2, <1>3, <1>4 DEF CountersOK, Unevaluated
<1>6. ASSUME NEW status \in {"no-valid-input", "no-positive-continuous-edge"},
             NEW bound \in Int, bound <= 0,
             status = "no-valid-input" <=> Maximum = 0,
             Return(status, Nothing, bound), UNCHANGED queue
      PROVE  ReturnInv'
  <2>1. Nothing.input = 0 /\ Nothing.profit = 0
      BY DEF Nothing
  <2>2. Accepted(Outcome(status, Nothing, bound))
      BY <1>1, <1>3, <1>4, <1>6, <2>1, OutcomeFields DEF Accepted
  <2>3. ResultIsAccepted' /\ result' # Pending
    <3>1. status \in Statuses /\ status # "raised"
        BY DEF Statuses
    <3> QED BY <1>6, <2>1, <2>2, <3>1, AcceptedReturn
  <2> QED BY <1>1, <1>2, <1>3, <1>5, <1>6, <2>3 DEF ReturnInv, ProgressOK
<1>7. CASE Maximum = 0 /\ Return("no-valid-input", Nothing, 0) /\ UNCHANGED queue
    BY <1>6, <1>7
<1>8. CASE /\ Maximum > 0 /\ ~HasEdge(route) /\ UNCHANGED queue
           /\ Return("no-positive-continuous-edge", Nothing, 0)
    BY <1>6, <1>8
<1>9. CASE /\ Maximum > 0 /\ HasEdge(route) /\ FullBound <= 0 /\ UNCHANGED queue
           /\ Return("no-positive-continuous-edge", Nothing, FullBound)
  <2>1. FullBound \in Int
      BY <1>1, <1>9, Arithmetic DEF FullBound
  <2> QED BY <1>6, <1>9, <2>1
<1>10. CASE /\ Maximum > 0 /\ HasEdge(route) /\ FullBound > 0
            /\ queue' = {Interval(1, Maximum)} /\ UNCHANGED result
  <2>1. \A p \in queue' : p.bound > 0
      BY <1>10 DEF Interval, FullBound
  <2>2. ProgressOK'
      BY <1>2, <1>3, <1>4, <1>10, <2>1 DEF ProgressOK
  <2>3. ResultIsAccepted'
      BY <1>3, <1>10 DEF ResultIsAccepted
  <2> QED BY <1>1, <1>5, <2>2, <2>3 DEF ReturnInv
<1> QED BY <1>7, <1>8, <1>9, <1>10 DEF Start

\* The budget runs out with exactly as many intervals explored as it allows.
LEMMA ExhaustReturns == ASSUME ReturnInv, Exhaust PROVE ReturnInv'
<1>1. SearchInv /\ SearchInv' /\ Maximum \in Nat
    BY ExhaustPreserves, Arithmetic DEF ReturnInv, SearchInv
<1>2. /\ UNCHANGED <<route, limits, queue, scan, best, evaluated, explored, pruned, started>>
      /\ started /\ result = Pending /\ explored >= limits.intervals
      /\ Return("budget-exhausted", Nothing, FullBound)
    BY DEF Exhaust, Running, task, counters
<1>3. Maximum > 0 /\ FullBound > 0 /\ HasEdge(route)
    BY <1>2 DEF ReturnInv, ProgressOK
<1>4. FullBound \in Int
    BY <1>1, <1>3, Arithmetic DEF FullBound, SearchInv
<1>5. Nothing.input = 0 /\ Nothing.profit = 0
    BY DEF Nothing
<1>6. Accepted(Outcome("budget-exhausted", Nothing, FullBound))
    BY <1>1, <1>2, <1>3, <1>4, <1>5, CountersTyped, OutcomeFields DEF Accepted
<1>7. ResultIsAccepted' /\ result' # Pending
  <2>1. "budget-exhausted" \in Statuses
      BY DEF Statuses
  <2> QED BY <1>2, <1>4, <1>5, <1>6, <2>1, AcceptedReturn
<1>8. Scanning' = Scanning /\ Unevaluated' = Unevaluated
    BY <1>2 DEF Scanning, Unevaluated
<1> QED BY <1>1, <1>2, <1>7, <1>8 DEF ReturnInv, CountersOK, ProgressOK

\* A search that ends has quoted an input, so both of its answers can be given.
LEMMA FinishReturns == ASSUME ReturnInv, Finish PROVE ReturnInv'
<1>1. SearchInv /\ SearchInv' /\ TaskOK /\ BestOK /\ Maximum \in Nat
    BY FinishPreserves, Arithmetic DEF ReturnInv, SearchInv
<1>2. /\ UNCHANGED <<route, limits, queue, scan, best, evaluated, explored, pruned, started>>
      /\ started /\ result = Pending /\ queue = {} /\ ~Scanning
    BY DEF Finish, Running, task, counters
<1>3. Maximum > 0 /\ FullBound > 0 /\ HasEdge(route) /\ evaluated # 0
    BY <1>2 DEF ReturnInv, ProgressOK
<1>4. FullBound \in Int /\ best.profit <= FullBound
    BY <1>1, <1>3, BestWithinBound, Arithmetic DEF FullBound
<1>5. Nothing.input = 0 /\ Nothing.profit = 0
    BY DEF Nothing
<1>6. evaluated \in Nat /\ evaluated > 0 /\ explored > 0
    BY <1>3, CountersTyped
<1>7. ResultIsAccepted' /\ result' # Pending
  <2>1. CASE best.profit <= 0
    <3>1. Accepted(Outcome("no-positive-exact-profit", Nothing, FullBound))
        BY <1>1, <1>3, <1>4, <1>5, <1>6, CountersTyped, OutcomeFields DEF Accepted
    <3>2. "no-positive-exact-profit" \in Statuses
        BY DEF Statuses
    <3> QED BY <1>4, <1>5, <2>1, <3>1, <3>2, AcceptedReturn DEF Finish
  <2>2. CASE best.profit > 0
    <3>1. best.input \in Nat /\ best.input > 0 /\ best.input <= Maximum /\ best.profit \in Nat
        BY <1>1, <2>2, BestTyped DEF Nothing
    <3>2. Accepted(Outcome("complete", best, FullBound))
        BY <1>1, <1>3, <1>4, <1>6, <2>2, <3>1, CountersTyped, OutcomeFields DEF Accepted
    <3>3. "complete" \in Statuses
        BY DEF Statuses
    <3> QED BY <1>4, <2>2, <3>1, <3>2, <3>3, AcceptedReturn DEF Finish
  <2>3. best.profit \in Nat
      BY <1>1, BestTyped
  <2> QED BY <2>1, <2>2, <2>3
<1>8. Scanning' = Scanning /\ Unevaluated' = Unevaluated
    BY <1>2 DEF Scanning, Unevaluated
<1> QED BY <1>1, <1>2, <1>7, <1>8 DEF ReturnInv, CountersOK, ProgressOK

\* A popped interval pays for work on threshold inputs and for two prunes.
LEMMA PoppedAccount ==
  ASSUME ReturnInv, NEW top \in queue, Pop(top),
         UNCHANGED <<task, evaluated, started, result>>,
         NEW work \in Nat, work <= limits.threshold, Unevaluated' = work,
         pruned' \in Nat, pruned' <= pruned + 2
  PROVE  CountersOK' /\ ResultIsAccepted'
<1>1. /\ explored' = explored + 1 /\ explored < limits.intervals
      /\ started /\ result = Pending /\ ~Scanning /\ limits' = limits
    BY DEF Pop, Running, task
<1>2. /\ limits.threshold \in Nat /\ limits.intervals \in Nat
      /\ evaluated \in Nat /\ explored \in Nat /\ pruned \in Nat
      /\ evaluated <= explored * limits.threshold /\ explored * limits.threshold \in Nat
    BY CountersTyped
<1>3. pruned <= 2 * explored
    BY DEF ReturnInv, CountersOK
<1>4. (explored + 1) * limits.threshold = explored * limits.threshold + limits.threshold
    BY <1>2
<1>5. evaluated + work <= (explored + 1) * limits.threshold
    BY <1>2, <1>4
<1>6. pruned' <= 2 * (explored + 1)
    BY <1>2, <1>3
<1> QED BY <1>1, <1>2, <1>5, <1>6 DEF CountersOK, ResultIsAccepted

\* A discarded interval pays for its own prune; something was evaluated to discard it.
LEMMA DiscardReturns == ASSUME ReturnInv, NEW top \in queue, Discard(top) PROVE ReturnInv'
<1>1. SearchInv /\ SearchInv'
    BY DiscardPreserves DEF ReturnInv
<1>2. /\ UNCHANGED <<route, limits, task, scan, best, evaluated, started, result>>
      /\ Pop(top) /\ ~CanBeat(top.bound, top.lower)
      /\ queue' = queue \ {top} /\ pruned' = pruned + 1
    BY DEF Discard, task
<1>3. ~Scanning /\ ~Scanning' /\ Unevaluated' = 0 /\ Maximum' = Maximum /\ FullBound' = FullBound
    BY <1>2 DEF Pop, Running, Scanning, Unevaluated, Maximum, FullBound
<1>4. CountersOK' /\ ResultIsAccepted'
    BY <1>2, <1>3, CountersTyped, PoppedAccount
<1>5. evaluated # 0
  <2>1. top.bound > 0 /\ (evaluated = 0 => best = Nothing)
      BY DEF ReturnInv, ProgressOK
  <2> QED BY <1>2, <2>1 DEF CanBeat, Nothing
<1>6. ProgressOK'
    BY <1>2, <1>3, <1>5 DEF ReturnInv, ProgressOK
<1> QED BY <1>1, <1>4, <1>6 DEF ReturnInv

\* A small interval pays for the quotes of all its inputs.
LEMMA BeginScanReturns == ASSUME ReturnInv, NEW top \in queue, BeginScan(top) PROVE ReturnInv'
<1>1. SearchInv /\ SearchInv' /\ TaskOK /\ Maximum \in Nat
    BY BeginScanPreserves, Arithmetic DEF ReturnInv, SearchInv
<1>2. /\ UNCHANGED <<route, limits, task, best, evaluated, pruned, started, result>>
      /\ Pop(top) /\ IsSmall(top) /\ queue' = queue \ {top}
      /\ scan'.next = top.lower /\ scan'.upper = top.upper
    BY DEF BeginScan, task
<1>3. top.lower \in Nat /\ top.upper \in Nat /\ top.lower <= top.upper
    BY <1>1, <1>2, PoppedState
<1>4. /\ Scanning' /\ Unevaluated' = top.upper - top.lower + 1
      /\ Maximum' = Maximum /\ FullBound' = FullBound
    BY <1>2, <1>3 DEF Scanning, Unevaluated, Maximum, FullBound
<1>5. top.upper - top.lower + 1 \in Nat /\ top.upper - top.lower + 1 <= limits.threshold
    BY <1>2, <1>3 DEF IsSmall
<1>6. CountersOK' /\ ResultIsAccepted'
    BY <1>2, <1>4, <1>5, CountersTyped, PoppedAccount
<1>7. ProgressOK'
    BY <1>2, <1>4 DEF ReturnInv, ProgressOK
<1> QED BY <1>1, <1>6, <1>7 DEF ReturnInv

\* At most the two halves are pruned, and before anything was quoted the lower
\* half is not: its bound is positive as that of the interval was.
LEMMA SplitReturns == ASSUME ReturnInv, NEW top \in queue, Split(top) PROVE ReturnInv'
<1> DEFINE middle == (top.lower + top.upper) \div 2
           low == Interval(top.lower, middle)
           high == Interval(middle + 1, top.upper)
           halves == {low, high}
           kept == {p \in halves : CanBeat(p.bound, p.lower)}
<1>1. SearchInv /\ SearchInv' /\ TaskOK /\ BestOK /\ Maximum \in Nat
    BY SplitPreserves, Arithmetic DEF ReturnInv, SearchInv
<1>2. /\ UNCHANGED <<route, limits, task, scan, best, evaluated, started, result>>
      /\ Pop(top) /\ ~IsSmall(top)
      /\ queue' = (queue \ {top}) \cup kept
      /\ pruned' = pruned + Cardinality(halves \ kept)
    BY DEF Split, task
<1>3. Cardinality(halves \ kept) \in 0..2
  <2> HIDE DEF low, high, kept
  <2>1. IsFiniteSet(halves) /\ Cardinality(halves) <= 2 /\ Cardinality(halves) \in Nat
    <3>1. IsFiniteSet({low}) /\ Cardinality({low}) = 1
        BY FS_Singleton
    <3>2. halves = {low} \cup {high}
        OBVIOUS
    <3>3. IsFiniteSet({low} \cup {high})
        BY <3>1, FS_AddElement
    <3>4. /\ high \in {low} => Cardinality({low} \cup {high}) = 1
          /\ high \notin {low} => Cardinality({low} \cup {high}) = 2
        BY <3>1, FS_AddElement
    <3> QED BY <3>2, <3>3, <3>4
  <2>2. halves \ kept \subseteq halves
      OBVIOUS
  <2> HIDE DEF halves
  <2>3. /\ IsFiniteSet(halves \ kept) /\ Cardinality(halves \ kept) <= Cardinality(halves)
        /\ Cardinality(halves \ kept) \in Nat
      BY <2>1, <2>2, FS_Subset, FS_CardinalityType
  <2> QED BY <2>1, <2>3
<1>4. /\ started /\ result = Pending /\ ~Scanning /\ HasEdge(route)
      /\ top.lower \in 1..Maximum /\ top.upper \in top.lower..Maximum
      /\ top.bound = Bound(route, top.lower, top.upper)
    BY <1>1, <1>2, PoppedState
<1>5. middle \in top.lower..top.upper
    BY <1>1, <1>4
<1>6. ~Scanning' /\ Unevaluated' = 0 /\ Maximum' = Maximum /\ FullBound' = FullBound
    BY <1>2, <1>4 DEF Scanning, Unevaluated, Maximum, FullBound
<1>7. CountersOK' /\ ResultIsAccepted'
  <2>1. pruned' \in Nat /\ pruned' <= pruned + 2
      BY <1>2, <1>3, CountersTyped
  <2> QED BY <1>2, <1>6, <2>1, CountersTyped, PoppedAccount
<1>8. \A p \in kept : p.bound > 0
  <2>1. best.profit \in Nat
      BY <1>1, BestTyped
  <2>2. low.bound \in Int /\ high.bound \in Int
    <3>1. top.lower < top.upper
      <4>1. limits.threshold \in Nat \ {0}
          BY CountersTyped
      <4> QED BY <1>1, <1>2, <1>4, <4>1 DEF IsSmall
    <3>2. middle \in 1..Maximum /\ middle + 1 \in 1..Maximum /\ middle + 1 <= top.upper
        BY <1>1, <1>4, <3>1
    <3> QED BY <1>1, <1>4, <1>5, <3>2, Arithmetic DEF Interval
  <2> HIDE DEF low, high
  <2> QED BY <2>1, <2>2 DEF CanBeat
<1>9. evaluated = 0 => low \in kept
  <2> SUFFICES ASSUME evaluated = 0 PROVE low \in kept
      OBVIOUS
  <2>1. best = Nothing /\ top.bound > 0
      BY DEF ReturnInv, ProgressOK
  <2>2. Bound(route, top.lower, middle) > 0
    <3> HIDE DEF middle
    <3> QED BY <1>1, <1>4, <1>5, <2>1, Arithmetic
  <2>3. low.bound > 0
      BY <2>2 DEF Interval
  <2> HIDE DEF low
  <2> QED BY <2>1, <2>3 DEF CanBeat, Nothing
<1>10. ProgressOK'
  <2> HIDE DEF kept, low
  <2> QED BY <1>2, <1>4, <1>6, <1>8, <1>9 DEF ReturnInv, ProgressOK
<1> QED BY <1>1, <1>7, <1>10 DEF ReturnInv

\* A quote uses up one input of the scan.
LEMMA EvaluateReturns == ASSUME ReturnInv, Evaluate PROVE ReturnInv'
<1>1. SearchInv /\ SearchInv' /\ ScanOK /\ Maximum \in Nat
    BY EvaluatePreserves, Arithmetic DEF ReturnInv, SearchInv
<1>2. /\ UNCHANGED <<route, limits, queue, explored, pruned, started, result>>
      /\ scan' = [scan EXCEPT !.next = @ + 1] /\ evaluated' = evaluated + 1
      /\ result = Pending /\ Scanning
    BY DEF Evaluate, task
<1>3. scan'.next = scan.next + 1 /\ scan'.upper = scan.upper
    BY <1>1, <1>2 DEF ScanOK
<1>4. /\ scan.next \in Nat /\ scan.upper \in Nat
      /\ Maximum' = Maximum /\ FullBound' = FullBound
    BY <1>1, <1>2 DEF ScanOK, Maximum, FullBound
<1>5. Unevaluated' = Unevaluated - 1 /\ Unevaluated \in Nat
    BY <1>2, <1>3, <1>4 DEF Unevaluated, Scanning
<1>6. evaluated \in Nat
    BY CountersTyped
<1>7. CountersOK'
  <2>1. evaluated' + Unevaluated' = evaluated + Unevaluated
      BY <1>2, <1>5, <1>6
  <2>2. started
      BY <1>1, <1>2 DEF ScanOK
  <2> QED BY <1>2, <1>6, <2>1, <2>2 DEF ReturnInv, CountersOK
<1>8. ProgressOK' /\ ResultIsAccepted'
    BY <1>2, <1>4, <1>6 DEF ReturnInv, ProgressOK, ResultIsAccepted
<1> QED BY <1>1, <1>7, <1>8 DEF ReturnInv

\* Every step of the search keeps the accounts.
LEMMA ReturnInvPreserved == ReturnInv /\ [Next]_vars => ReturnInv'
<1> SUFFICES ASSUME ReturnInv, [Next]_vars PROVE ReturnInv'
    OBVIOUS
<1>1. CASE Explore
    BY <1>1, DiscardReturns, BeginScanReturns, SplitReturns DEF Explore
<1>2. CASE UNCHANGED vars
  <2>1. SearchInv'
      BY <1>2, SearchInvPreserved DEF ReturnInv
  <2> QED BY <1>2, <2>1 DEF ReturnInv, CountersOK, ProgressOK, ResultIsAccepted, Unevaluated,
             Scanning, Maximum, FullBound, vars, task, counters
<1> QED BY <1>1, <1>2, StartReturns, ExhaustReturns, EvaluateReturns, FinishReturns DEF Next

-----------------------------------------------------------------------------
(* The cuts: every split parts two inputs that no earlier split has parted *)

Apart(p, q) == p.upper < q.lower \/ q.upper < p.lower

\* Each cut c parts the inputs c and c + 1; no interval on the heap holds both.
Uncut(p, cuts) == \A c \in cuts : c < p.lower \/ p.upper <= c

\* An interval explored or to be explored is the first one or half of a cut one.
CutsCover(cuts) ==
  /\ cuts \subseteq 1..(Maximum - 1)
  /\ explored + Cardinality(queue) <= 2 * Cardinality(cuts) + 1
  /\ \A p \in queue : Uncut(p, cuts)

CutsOK ==
  /\ explored \in Nat /\ (~started => explored = 0)
  /\ IsFiniteSet(queue)
  /\ \A p, q \in queue : p # q => Apart(p, q)
  /\ \E cuts \in SUBSET Nat : CutsCover(cuts)

BudgetInv == SearchInv /\ CutsOK /\ EnoughIntervalsSuffice

\* There are fewer places to cut than inputs.
LEMMA CutsAreFew ==
  ASSUME NEW n \in Nat \ {0}, NEW cuts, cuts \subseteq 1..(n - 1)
  PROVE  IsFiniteSet(cuts) /\ Cardinality(cuts) \in Nat /\ Cardinality(cuts) <= n - 1
<1>1. IsFiniteSet(1..(n - 1)) /\ Cardinality(1..(n - 1)) = n - 1
    BY FS_Interval
<1> QED BY <1>1, FS_Subset, FS_CardinalityType

\* Before the first step nothing is cut.
LEMMA BudgetInvInitially == Init => BudgetInv
<1> SUFFICES ASSUME Init PROVE BudgetInv
    OBVIOUS
<1>1. queue = {} /\ explored = 0 /\ result = Pending
    BY DEF Init
<1>2. CutsCover({})
    BY <1>1, FS_EmptySet DEF CutsCover
<1>3. CutsOK
    BY <1>1, <1>2, FS_EmptySet DEF CutsOK
<1> QED BY <1>1, <1>3, SearchInvInitially DEF BudgetInv, EnoughIntervalsSuffice

\* The cuts say nothing of the scan and of the candidate.
LEMMA CutsKept ==
  ASSUME CutsOK, UNCHANGED <<route, limits, queue, explored>>, started => started'
  PROVE  CutsOK'
<1>1. \A cuts : CutsCover(cuts)' <=> CutsCover(cuts)
    BY DEF CutsCover, Maximum
<1> QED BY <1>1 DEF CutsOK

\* The first interval is the one that no cut has made.
LEMMA StartCuts == ASSUME BudgetInv, Start PROVE CutsOK' /\ EnoughIntervalsSuffice'
<1>1. SearchInv /\ CutsOK
    BY DEF BudgetInv
<1>2. UNCHANGED <<route, limits, explored>> /\ started' /\ ~started
    BY DEF Start, task, counters
<1>3. queue = {} /\ result = Pending /\ explored = 0
    BY <1>1, <1>2 DEF SearchInv, Fresh, CutsOK
<1>4. CASE queue' = {Interval(1, Maximum)} /\ UNCHANGED result
  <2> DEFINE full == Interval(1, Maximum)
  <2> HIDE DEF full
  <2>1. queue' = {full} /\ IsFiniteSet({full}) /\ Cardinality({full}) = 1
      BY <1>4, FS_Singleton DEF full
  <2>2. CutsCover({})'
      BY <1>2, <1>3, <2>1, FS_EmptySet DEF CutsCover, Uncut
  <2>3. CutsOK'
      BY <1>2, <1>3, <2>1, <2>2 DEF CutsOK
  <2> QED BY <1>3, <1>4, <2>3 DEF EnoughIntervalsSuffice
<1>5. ASSUME NEW status \in {"no-valid-input", "no-positive-continuous-edge"}, NEW bound,
             Return(status, Nothing, bound), UNCHANGED queue
      PROVE  CutsOK' /\ EnoughIntervalsSuffice'
  <2>1. result'.status # "budget-exhausted"
      BY <1>5, ReturnedResult
  <2> QED BY <1>1, <1>2, <1>5, <2>1, CutsKept DEF EnoughIntervalsSuffice
<1> QED BY <1>4, <1>5 DEF Start

\* With a bound for every node there are more intervals than cuts can make.
LEMMA ExhaustCuts == ASSUME BudgetInv, Exhaust PROVE CutsOK' /\ EnoughIntervalsSuffice'
<1>1. SearchInv /\ CutsOK
    BY DEF BudgetInv
<1>2. /\ UNCHANGED <<route, limits, queue, explored, started>>
      /\ queue # {} /\ explored >= limits.intervals
    BY DEF Exhaust, task, counters
<1>3. Maximum \in Nat \ {0} /\ limits.intervals \in Nat
  <2>1. \A p \in queue : p.lower \in 1..Maximum
      BY <1>1 DEF SearchInv, QueueOK, IntervalOK
  <2>2. Maximum \in Nat /\ limits.intervals \in Nat
      BY <1>1, Arithmetic, LimitsAssumption DEF SearchInv, TaskOK
  <2> QED BY <1>2, <2>1, <2>2
<1>4. PICK cuts : CutsCover(cuts)
    BY <1>1 DEF CutsOK
<1>5. Cardinality(cuts) \in Nat /\ Cardinality(cuts) <= Maximum - 1
    BY <1>3, <1>4, CutsAreFew DEF CutsCover
<1>6. Cardinality(queue) \in Nat /\ Cardinality(queue) >= 1 /\ explored \in Nat
    BY <1>1, <1>2, FS_EmptySet, FS_CardinalityType DEF CutsOK
<1>7. explored + Cardinality(queue) <= 2 * Cardinality(cuts) + 1
    BY <1>4 DEF CutsCover
<1>8. limits.intervals < 2 * Maximum - 1
    BY <1>2, <1>3, <1>5, <1>6, <1>7
<1>9. limits' = limits /\ Maximum' = Maximum
    BY <1>2 DEF Maximum
<1>10. EnoughIntervalsSuffice'
    BY <1>3, <1>8, <1>9 DEF EnoughIntervalsSuffice
<1> QED BY <1>1, <1>2, <1>10, CutsKept

\* The answers at the end are not about the budget.
LEMMA FinishCuts == ASSUME BudgetInv, Finish PROVE CutsOK' /\ EnoughIntervalsSuffice'
<1>1. SearchInv /\ CutsOK
    BY DEF BudgetInv
<1>2. UNCHANGED <<route, limits, queue, explored, started>>
    BY DEF Finish, task, counters
<1>3. result'.status # "budget-exhausted"
    BY ReturnedResult DEF Finish
<1> QED BY <1>1, <1>2, <1>3, CutsKept DEF EnoughIntervalsSuffice

\* An interval that leaves the heap uncut has been counted as it is explored.
LEMMA PoppedCuts ==
  ASSUME BudgetInv, NEW top \in queue, Pop(top),
         UNCHANGED <<route, limits, started, result>>, queue' = queue \ {top}
  PROVE  CutsOK' /\ EnoughIntervalsSuffice'
<1>1. SearchInv /\ CutsOK /\ started /\ result = Pending /\ explored' = explored + 1
    BY DEF BudgetInv, Pop, Running
<1>2. /\ IsFiniteSet(queue') /\ Cardinality(queue') = Cardinality(queue) - 1
      /\ Cardinality(queue) \in Nat /\ explored \in Nat
    BY <1>1, FS_RemoveElement, FS_CardinalityType DEF CutsOK
<1>3. PICK cuts \in SUBSET Nat : CutsCover(cuts)
    BY <1>1 DEF CutsOK
<1>4. Maximum' = Maximum
    BY DEF Maximum
<1>5. CutsCover(cuts)'
  <2>1. explored' + Cardinality(queue') = explored + Cardinality(queue)
      BY <1>1, <1>2
  <2> QED BY <1>3, <1>4, <2>1 DEF CutsCover
<1>6. CutsOK'
    BY <1>1, <1>2, <1>5 DEF CutsOK
<1> QED BY <1>1, <1>6 DEF EnoughIntervalsSuffice

\* A split makes a new cut, in the interval that it takes off the heap and in no other.
LEMMA SplitCuts ==
  ASSUME BudgetInv, NEW top \in queue, Split(top)
  PROVE  CutsOK' /\ EnoughIntervalsSuffice'
<1> DEFINE middle == (top.lower + top.upper) \div 2
           low == Interval(top.lower, middle)
           high == Interval(middle + 1, top.upper)
           kept == {p \in {low, high} : CanBeat(p.bound, p.lower)}
           rest == queue \ {top}
<1>1. /\ SearchInv /\ CutsOK /\ Pop(top) /\ ~IsSmall(top) /\ queue' = rest \cup kept
      /\ UNCHANGED <<route, limits, started, result>>
    BY DEF BudgetInv, Split, task
<1>2. started /\ result = Pending /\ explored' = explored + 1 /\ explored \in Nat
    BY <1>1 DEF Pop, Running, CutsOK
<1>3. /\ top.lower \in 1..Maximum /\ top.upper \in top.lower..Maximum /\ Maximum \in Nat
      /\ limits.threshold \in Nat \ {0}
    BY <1>1, PoppedState, Arithmetic, LimitsAssumption DEF SearchInv, TaskOK
<1>4. top.lower <= middle /\ middle < top.upper /\ middle \in 1..(Maximum - 1)
  <2>1. top.lower < top.upper
      BY <1>1, <1>3 DEF IsSmall
  <2> QED BY <1>3, <2>1
<1>5. /\ low.lower = top.lower /\ low.upper = middle
      /\ high.lower = middle + 1 /\ high.upper = top.upper
    BY DEF Interval
<1>6. /\ kept \subseteq {low, high}
      /\ \A p \in queue : p.lower \in Nat /\ p.upper \in Nat /\ p.lower <= p.upper
    BY <1>1, <1>3 DEF SearchInv, QueueOK, IntervalOK
<1> HIDE DEF middle, low, high, kept
<1>7. IsFiniteSet(queue') /\ Cardinality(queue') <= Cardinality(queue) + 1
      /\ Cardinality(queue) \in Nat /\ Cardinality(queue') \in Nat
  <2>1. /\ IsFiniteSet(rest) /\ Cardinality(rest) = Cardinality(queue) - 1
        /\ Cardinality(queue) \in Nat
      BY <1>1, FS_RemoveElement, FS_CardinalityType DEF CutsOK
  <2> DEFINE one == rest \cup {low}
             both == one \cup {high}
  <2> HIDE DEF rest
  <2>2. IsFiniteSet(one) /\ Cardinality(one) \in {Cardinality(rest), Cardinality(rest) + 1}
      BY <2>1, FS_AddElement
  <2> HIDE DEF one
  <2>3. IsFiniteSet(both) /\ Cardinality(both) \in {Cardinality(one), Cardinality(one) + 1}
      BY <2>2, FS_AddElement
  <2>4. queue' \subseteq both
      BY <1>1, <1>6 DEF one
  <2> HIDE DEF both
  <2>5. IsFiniteSet(queue') /\ Cardinality(queue') <= Cardinality(both)
      BY <2>3, <2>4, FS_Subset
  <2>6. Cardinality(queue') \in Nat
      BY <2>5, FS_CardinalityType
  <2> QED BY <2>1, <2>2, <2>3, <2>5, <2>6
<1>8. \A q \in rest : Apart(q, top)
    BY <1>1 DEF CutsOK
<1>9. \A q \in rest : Apart(q, low) /\ Apart(q, high) /\ Apart(low, q) /\ Apart(high, q)
    BY <1>3, <1>4, <1>5, <1>6, <1>8 DEF Apart
<1>10. Apart(low, high) /\ Apart(high, low)
    BY <1>3, <1>4, <1>5 DEF Apart
<1>11. \A p, q \in queue' : p # q => Apart(p, q)
  <2> SUFFICES ASSUME NEW p \in queue', NEW q \in queue', p # q PROVE Apart(p, q)
      OBVIOUS
  <2>1. /\ p \in rest \/ p = low \/ p = high
        /\ q \in rest \/ q = low \/ q = high
      BY <1>1, <1>6
  <2>2. p \in rest /\ q \in rest => Apart(p, q)
      BY <1>1 DEF CutsOK
  <2> HIDE DEF rest
  <2> QED BY <1>9, <1>10, <2>1, <2>2
<1>12. PICK cuts \in SUBSET Nat : CutsCover(cuts)
    BY <1>1 DEF CutsOK
<1> DEFINE more == cuts \cup {middle}
<1>13. middle \notin cuts /\ cuts \subseteq 1..(Maximum - 1)
    BY <1>3, <1>4, <1>12 DEF CutsCover, Uncut
<1>14. IsFiniteSet(cuts) /\ Cardinality(cuts) \in Nat
  <2>1. Maximum \in Nat \ {0}
      BY <1>3
  <2> QED BY <1>13, <2>1, CutsAreFew
<1>15. Cardinality(more) = Cardinality(cuts) + 1
    BY <1>13, <1>14, FS_AddElement
<1>16. \A p \in queue' : Uncut(p, more)
  <2>1. \A p \in queue : Uncut(p, cuts)
      BY <1>12 DEF CutsCover
  <2>2. ASSUME NEW q \in rest PROVE Uncut(q, more)
    <3>1. Uncut(q, cuts)
        BY <2>1
    <3>2. middle < q.lower \/ q.upper <= middle
        BY <1>3, <1>4, <1>6, <1>8 DEF Apart
    <3> QED BY <3>1, <3>2 DEF Uncut
  <2>3. Uncut(low, more) /\ Uncut(high, more)
    <3>1. \A c \in cuts : c \in Nat /\ (c < top.lower \/ top.upper <= c)
        BY <2>1 DEF Uncut
    <3> QED BY <1>3, <1>4, <1>5, <3>1 DEF Uncut
  <2> HIDE DEF more
  <2> QED BY <1>1, <1>6, <2>2, <2>3
<1>17. CutsCover(more)'
  <2>1. Maximum' = Maximum
      BY <1>1 DEF Maximum
  <2>2. explored + Cardinality(queue) <= 2 * Cardinality(cuts) + 1
      BY <1>12 DEF CutsCover
  <2>3. more \subseteq 1..(Maximum - 1)
      BY <1>4, <1>13
  <2>4. explored' + Cardinality(queue') <= 2 * Cardinality(more) + 1
      BY <1>2, <1>7, <1>14, <1>15, <2>2
  <2> HIDE DEF more
  <2> QED BY <1>16, <2>1, <2>3, <2>4 DEF CutsCover
<1>18. more \in SUBSET Nat
    BY <1>4
<1>19. CutsOK'
  <2> HIDE DEF more
  <2> QED BY <1>1, <1>2, <1>7, <1>11, <1>17, <1>18 DEF CutsOK
<1> QED BY <1>1, <1>2, <1>19 DEF EnoughIntervalsSuffice

\* Every step of the search keeps the account of its cuts.
LEMMA BudgetInvPreserved == BudgetInv /\ [Next]_vars => BudgetInv'
<1> SUFFICES ASSUME BudgetInv, [Next]_vars PROVE CutsOK' /\ EnoughIntervalsSuffice'
    BY SearchInvPreserved DEF BudgetInv
<1>1. CASE Explore
  <2>1. PICK top \in queue : Discard(top) \/ BeginScan(top) \/ Split(top)
      BY <1>1 DEF Explore
  <2>2. CASE Discard(top)
      BY <2>2, PoppedCuts DEF Discard, task
  <2>3. CASE BeginScan(top)
      BY <2>3, PoppedCuts DEF BeginScan, task
  <2> QED BY <2>1, <2>2, <2>3, SplitCuts
<1>2. CASE Evaluate \/ UNCHANGED vars
  <2>1. UNCHANGED <<route, limits, queue, explored, started, result>>
      BY <1>2 DEF Evaluate, vars, task, counters
  <2>2. EnoughIntervalsSuffice'
      BY <2>1 DEF BudgetInv, EnoughIntervalsSuffice, Maximum
  <2> QED BY <2>1, <2>2, CutsKept DEF BudgetInv
<1> QED BY <1>1, <1>2, StartCuts, ExhaustCuts, FinishCuts DEF Next

-----------------------------------------------------------------------------
(* Theorems *)

\* Pruning is safe under any bound that dominates the exact profit: while the
\* search runs, every input that would replace the best is still to be
\* evaluated (optimize_route, _can_interval_beat).
THEOREM PruningIsSafe == Spec => []NothingBetterIsLost
<1>1. SearchInv => NothingBetterIsLost
    BY DEF SearchInv
<1> QED BY <1>1, SearchInvAlways, PTL

\* A complete result is the smallest most profitable input, and a result that
\* says no input is profitable is right (optimize_route).
THEOREM ResultsAreExact == Spec => []ResultIsExact
<1>1. SearchInv => ResultIsExact
    BY DEF SearchInv
<1> QED BY <1>1, SearchInvAlways, PTL

\* The constructor of the result never refuses what the search hands it: the
\* counters stay within the limits and the tree bound, the bound covers the
\* winner, and a search that finds nothing has quoted something
\* (OptimizationResult.__post_init__).
THEOREM ResultsAreAccepted == Spec => []ResultIsAccepted
<1>1. ReturnInv => ResultIsAccepted
    BY DEF ReturnInv
<1> QED BY <1>1, ReturnInvInitially, ReturnInvPreserved, PTL DEF Spec

\* Whatever the bounds of the intervals turn out to be, a budget of one interval
\* for each node of a binary tree over the inputs never runs out: no split
\* repeats a cut and nothing is explored twice (optimize_route).
THEOREM EnoughIntervalsAlwaysSuffice == Spec => []EnoughIntervalsSuffice
<1>1. Spec => []BudgetInv
    BY BudgetInvInitially, BudgetInvPreserved, PTL DEF Spec
<1>2. BudgetInv => EnoughIntervalsSuffice
    BY DEF BudgetInv
<1> QED BY <1>1, <1>2, PTL

-----------------------------------------------------------------------------
(* Recursive functions: what the library's theorems leave to do by hand *)

\* A nonempty set of naturals has a least element: the library's well-founded order on Nat,
\* and what induction over naturals is proved from here.
LEMMA LeastNatural ==
  ASSUME NEW S, S \subseteq Nat, S # {}
  PROVE  \E m \in S : \A n \in S : m <= n
<1>1. PICK m \in S : \A n \in S : ~(<<n, m>> \in OpToRel(<, Nat))
    BY NatLessThanWellFounded, WFMin
<1>2. \A n \in S : ~(n < m)
    BY <1>1 DEF OpToRel
<1> QED BY <1>2

\* Induction over a set of naturals: its least counterexample would have a predecessor in it.
LEMMA Induction ==
  ASSUME NEW S, 0 \in S, \A n \in Nat : n \in S => n + 1 \in S
  PROVE  Nat \subseteq S
<1> SUFFICES ASSUME NEW k \in Nat, k \notin S PROVE FALSE
    OBVIOUS
<1> DEFINE T == Nat \ S
<1>1. T \subseteq Nat /\ T # {}
    OBVIOUS
<1>2. PICK m \in T : \A n \in T : m <= n
    BY <1>1, LeastNatural
<1>3. m \in Nat /\ m # 0 /\ m - 1 \in Nat
    BY <1>2
<1>4. m - 1 \notin T
    BY <1>2, <1>3
<1> QED BY <1>2, <1>3, <1>4

\* A function that each argument of rank 0 is given a value of, and each other
\* argument a value from that of an argument of smaller rank.
WellRanked(D, V, N, rank, base, prior, step) ==
  /\ N \in Nat
  /\ \A x \in D :
       /\ rank[x] \in 0..N
       /\ rank[x] = 0 => base[x] \in V
       /\ rank[x] # 0 => /\ prior[x] \in D /\ rank[prior[x]] < rank[x]
                         /\ \A v \in V : step[x][v] \in V

Follow(g, x, rank, base, prior, step) ==
  g[x] = IF rank[x] = 0 THEN base[x] ELSE step[x][g[prior[x]]]

Unfolds(g, D, V, rank, base, prior, step) ==
  g \in [D -> V] /\ \A x \in D : Follow(g, x, rank, base, prior, step)

\* Such a function exists: the values of rank up to k extend to those of rank k + 1.  The
\* CHOOSE of a recursive definition then picks one, which is how each is unfolded below.
LEMMA RecursionExists ==
  ASSUME NEW D, NEW V, NEW N, NEW rank, NEW base, NEW prior, NEW step,
         WellRanked(D, V, N, rank, base, prior, step)
  PROVE  \E g : Unfolds(g, D, V, rank, base, prior, step)
<1> DEFINE UpTo(k) == {x \in D : rank[x] <= k}
           Good == {k \in Nat : \E g : Unfolds(g, UpTo(k), V, rank, base, prior, step)}
<1>1. 0 \in Good
  <2> DEFINE g == [x \in UpTo(0) |-> base[x]]
  <2>1. \A x \in UpTo(0) : rank[x] = 0 /\ base[x] \in V
      BY DEF WellRanked
  <2>2. Unfolds(g, UpTo(0), V, rank, base, prior, step)
      BY <2>1 DEF Unfolds, Follow
  <2> QED BY <2>2
<1>2. ASSUME NEW k \in Nat, k \in Good PROVE k + 1 \in Good
  <2>1. PICK f : Unfolds(f, UpTo(k), V, rank, base, prior, step)
      BY <1>2
  <2> DEFINE g == [x \in UpTo(k + 1) |-> IF x \in UpTo(k) THEN f[x] ELSE step[x][f[prior[x]]]]
  <2>2. ASSUME NEW x \in UpTo(k + 1), x \notin UpTo(k)
        PROVE  rank[x] # 0 /\ prior[x] \in UpTo(k)
      BY <2>2 DEF WellRanked
  <2>3. ASSUME NEW x \in UpTo(k), rank[x] # 0 PROVE prior[x] \in UpTo(k)
      BY <2>3 DEF WellRanked
  <2>4. UpTo(k) \subseteq UpTo(k + 1) /\ UpTo(k + 1) \subseteq D
      BY DEF WellRanked
  <2>a. \A x \in UpTo(k) : f[x] \in V /\ Follow(f, x, rank, base, prior, step)
      BY <2>1 DEF Unfolds
  <2>b. \A x \in D : rank[x] # 0 => \A v \in V : step[x][v] \in V
      BY DEF WellRanked
  <2> HIDE DEF UpTo
  <2>5. ASSUME NEW x \in UpTo(k + 1) PROVE g[x] \in V /\ Follow(g, x, rank, base, prior, step)
    <3>1. CASE x \in UpTo(k)
      <4>1. rank[x] # 0 => prior[x] \in UpTo(k) /\ g[prior[x]] = f[prior[x]]
          BY <2>3, <2>4, <3>1
      <4> QED BY <2>a, <2>4, <3>1, <4>1 DEF Follow
    <3>2. CASE x \notin UpTo(k)
      <4>1. rank[x] # 0 /\ prior[x] \in UpTo(k) /\ g[prior[x]] = f[prior[x]]
          BY <2>2, <2>4, <3>2
      <4>2. step[x][f[prior[x]]] \in V
          BY <2>a, <2>b, <2>4, <4>1
      <4>3. g[x] = step[x][f[prior[x]]]
          BY <3>2
      <4> QED BY <4>1, <4>2, <4>3 DEF Follow
    <3> QED BY <3>1, <3>2
  <2>6. g \in [UpTo(k + 1) -> V]
      BY <2>5
  <2> HIDE DEF g
  <2>7. Unfolds(g, UpTo(k + 1), V, rank, base, prior, step)
      BY <2>5, <2>6 DEF Unfolds
  <2> QED BY <2>7
<1>3. N \in Good
  <2> HIDE DEF Good
  <2>1. \A n \in Nat : n \in Good => n + 1 \in Good
      BY <1>2
  <2>2. Nat \subseteq Good
      BY <1>1, <2>1, Induction
  <2> QED BY <2>2 DEF WellRanked
<1>4. UpTo(N) = D
    BY DEF WellRanked
<1> QED BY <1>3, <1>4

-----------------------------------------------------------------------------
(* Products, quotients and their rounding *)

\* Products of naturals stay naturals and keep their order.
LEMMA Products ==
  ASSUME NEW a \in Nat, NEW b \in Nat
  PROVE  /\ a * b \in Nat /\ a * b = b * a
         /\ \A c \in Nat : a <= c => a * b <= c * b
BY Z3

\* Products of integers, regrouped.
LEMMA Associates ==
  ASSUME NEW a \in Int, NEW b \in Int, NEW c \in Int
  PROVE  a * (b * c) = (a * b) * c /\ a * b \in Int
BY Z3

\* The floor of a quotient.
LEMMA DivFacts ==
  ASSUME NEW n \in Int, NEW d \in Nat \ {0}
  PROVE  /\ n \div d \in Int
         /\ \A q \in Int : q <= n \div d <=> q * d <= n
         /\ n >= 0 => n \div d \in Nat
<1> DEFINE f == n \div d
           m == n % d
<1>1. f \in Int /\ m \in 0..(d - 1) /\ n = d * f + m
    BY Z3
<1> HIDE DEF f, m
<1>2. ASSUME NEW q \in Int, q <= f PROVE q * d <= n
  <2>1. PICK k \in Nat : f = q + k
    <3>1. f - q \in Nat /\ f = q + (f - q)
        BY <1>1, <1>2
    <3> QED BY <3>1
  <2>2. d * f = q * d + k * d /\ k * d >= 0
      BY <2>1, Z3
  <2>3. q * d \in Int /\ k * d \in Int /\ d * f \in Int
      BY <2>1, <1>1
  <2> QED BY <1>1, <2>2, <2>3
<1>3. ASSUME NEW q \in Int, q * d <= n PROVE q <= f
  <2> SUFFICES ASSUME f + 1 <= q PROVE FALSE
      BY <1>1
  <2>1. PICK k \in Nat : q = f + 1 + k
    <3>1. q - (f + 1) \in Nat /\ q = f + 1 + (q - (f + 1))
        BY <1>1
    <3> QED BY <3>1
  <2>2. q * d = d * f + d + k * d /\ k * d >= 0
      BY <2>1, <1>1, Z3
  <2>3. q * d \in Int /\ k * d \in Int /\ d * f \in Int
      BY <2>1, <1>1
  <2> QED BY <1>1, <1>3, <2>2, <2>3
<1>4. n >= 0 => f \in Nat
  <2>1. 0 * d = 0
      OBVIOUS
  <2> QED BY <1>1, <1>3, <2>1
<1> QED BY <1>1, <1>2, <1>3, <1>4 DEF f

\* The ceiling of a quotient is at least every integer that its floor is.
LEMMA CeilFacts ==
  ASSUME NEW n \in Int, NEW d \in Nat \ {0}
  PROVE  /\ CeilDiv(n, d) \in Int
         /\ \A q \in Int : q * d <= n => q <= CeilDiv(n, d)
         /\ CeilDiv(n, d) > 0 <=> n > 0
<1>1. /\ (-n) \div d \in Int
      /\ \A q \in Int : q <= (-n) \div d <=> q * d <= -n
    BY DivFacts
<1> DEFINE f == (-n) \div d
<1>2. f \in Int /\ CeilDiv(n, d) = -f /\ f * d <= -n
    BY <1>1 DEF CeilDiv
<1>3. \A q \in Int : q <= f <=> q * d <= -n
    BY <1>1
<1> HIDE DEF f
<1>4. ASSUME NEW q \in Int, q * d <= n PROVE q <= -f
  <2> SUFFICES ASSUME 1 - f <= q PROVE FALSE
      BY <1>2
  <2>1. PICK k \in Nat : q = 1 - f + k
    <3>1. q - (1 - f) \in Nat /\ q = 1 - f + (q - (1 - f))
        BY <1>2
    <3> QED BY <3>1
  <2>2. q * d = d - f * d + k * d /\ k * d >= 0
      BY <2>1, <1>2, Z3
  <2>3. f * d \in Int /\ k * d \in Int
      BY <1>2, <2>1
  <2> QED BY <1>2, <1>4, <2>2, <2>3
<1>5. -f > 0 <=> n > 0
  <2>1. 0 * d = 0 /\ 0 <= f <=> 0 * d <= -n
      BY <1>3
  <2> QED BY <1>2, <2>1
<1> QED BY <1>2, <1>4, <1>5

-----------------------------------------------------------------------------
(* A hop *)

Amounts == Nat \cup {Raises}

\* Minimum returns a least element of a set of naturals.
LEMMA MinimumIsLeast ==
  ASSUME NEW S, S \subseteq Nat, S # {}
  PROVE  Minimum(S) \in S /\ \A n \in S : Minimum(S) <= n
<1>1. \E m \in S : \A n \in S : m <= n
    BY LeastNatural
<1> QED BY <1>1 DEF Minimum

\* The maximum of a hop is a natural or raises, and a hop that takes anything at all pays
\* out no more than a word holds (maximum_safe_input).
LEMMA HopCapacity ==
  ASSUME NEW h, IsHop(h)
  PROVE  /\ HopMaximum(h) \in Amounts
         /\ HopMaximum(h) >= 1 => h.reserveOut <= MaxUint
<1> DEFINE I == h.reserveIn
           R == h.reserveOut
           F == h.feeNumerator
           D == h.feeDenominator
           A == h.capacity - I
           B == MaxUint \div F
           C == (MaxUint - I * D) \div F
           E == (MaxUint \div R) \div F
           S == {A, B, C, E}
<1>1. I \in Nat /\ R \in Nat \ {0} /\ F \in Nat \ {0} /\ D \in Nat /\ A \in Nat /\ MaxUint \in Nat
    BY WidthAssumption DEF IsHop
<1>2. I * D \in Nat
    BY <1>1, Products
<1>3. CASE I * D > MaxUint
    BY <1>3 DEF HopMaximum, Raises, Amounts
<1>4. CASE ~(I * D > MaxUint)
  <2>1. HopMaximum(h) = Minimum(S)
      BY <1>4 DEF HopMaximum
  <2>2. MaxUint - I * D \in Nat
      BY <1>1, <1>2, <1>4
  <2>3. MaxUint \div R \in Nat
      BY <1>1, DivFacts
  <2>4. B \in Nat
      BY <1>1, DivFacts
  <2>5. C \in Nat
    <3> DEFINE n == MaxUint - I * D
    <3>1. n \in Int /\ n >= 0 /\ F \in Nat \ {0}
        BY <1>1, <2>2
    <3> HIDE DEF n
    <3>2. n \div F \in Nat
        BY <3>1, DivFacts
    <3> QED BY <3>2 DEF n
  <2>6. E \in Nat
      BY <1>1, <2>3, DivFacts
  <2> DEFINE m == Minimum(S)
             G == MaxUint \div R
  <2>7. m \in S /\ m <= E
    <3>1. S \subseteq Nat /\ S # {} /\ E \in S
        BY <1>1, <2>4, <2>5, <2>6
    <3> HIDE DEF S
    <3> QED BY <3>1, MinimumIsLeast
  <2>8. m \in Nat
      BY <1>1, <2>4, <2>5, <2>6, <2>7
  <2>9. ASSUME m >= 1 PROVE R <= MaxUint
    <3>1. E >= 1 /\ E = G \div F /\ G \in Nat
        BY <2>3, <2>6, <2>7, <2>8, <2>9
    <3> HIDE DEF E, G, m
    <3>2. 1 * F <= G
        BY <1>1, <2>6, <3>1, DivFacts
    <3>3. 1 <= G
        BY <1>1, <3>1, <3>2
    <3>4. 1 * R <= MaxUint
        BY <1>1, <3>1, <3>3, DivFacts DEF G
    <3> QED BY <1>1, <3>4
  <2> HIDE DEF m, S
  <2> QED BY <2>1, <2>8, <2>9 DEF m, Amounts
<1> QED BY <1>3, <1>4

\* What a hop returns, without the division.
LEMMA HopFacts ==
  ASSUME NEW h, IsHop(h), NEW amount \in Amounts
  PROVE  LET out == HopOut(h, amount)
             taken == amount * h.feeNumerator
             weight == h.reserveIn * h.feeDenominator + taken
         IN /\ out \in Amounts
            /\ out # Raises <=> amount # Raises /\ amount <= HopMaximum(h)
            /\ out # Raises =>
                 /\ amount \in Nat /\ taken \in Nat /\ weight \in Nat \ {0}
                 /\ out \in Nat /\ out <= h.reserveOut
                 /\ out * weight <= taken * h.reserveOut
                 /\ \A q \in Nat : q * weight <= taken * h.reserveOut => q <= out
<1> DEFINE I == h.reserveIn
           R == h.reserveOut
           F == h.feeNumerator
           D == h.feeDenominator
           T == amount * F
           W == I * D + T
           out == HopOut(h, amount)
<1>1. /\ I \in Nat \ {0} /\ R \in Nat \ {0} /\ F \in Nat \ {0} /\ D \in Nat \ {0}
      /\ HopMaximum(h) \in Amounts
    BY HopCapacity DEF IsHop
<1>2. CASE amount = Raises \/ amount > HopMaximum(h)
  <2>1. out = Raises
      BY <1>2 DEF HopOut
  <2>2. ~(amount # Raises /\ amount <= HopMaximum(h))
      BY <1>1, <1>2 DEF Amounts, Raises
  <2> QED BY <2>1, <2>2 DEF Amounts
<1>3. CASE ~(amount = Raises \/ amount > HopMaximum(h))
  <2>1. amount \in Nat
      BY <1>3 DEF Amounts
  <2>2. T \in Nat
      BY <1>1, <2>1, Products
  <2>3. I * D \in Nat \ {0}
      BY <1>1, Z3
  <2>4. W \in Nat \ {0}
      BY <2>2, <2>3
  <2>5. T * R \in Nat /\ out = (T * R) \div W
      BY <1>1, <1>3, <2>2, Products DEF HopOut
  <2> HIDE DEF out
  <2>6. out \in Nat /\ \A q \in Int : q <= out <=> q * W <= T * R
    <3> DEFINE n == T * R
    <3>1. n \in Int /\ n >= 0
        BY <2>5
    <3> HIDE DEF n, W
    <3>2. n \div W \in Nat /\ \A q \in Int : q <= n \div W <=> q * W <= n
        BY <2>4, <3>1, DivFacts
    <3> QED BY <2>5, <3>2 DEF n
  <2>7. out * W <= T * R
      BY <2>6
  <2>8. out <= R
    <3> SUFFICES ASSUME R + 1 <= out PROVE FALSE
        BY <1>1, <2>6
    <3>1. (R + 1) * W <= T * R
        BY <1>1, <2>6
    <3>2. (R + 1) * W = R * W + W /\ R * W = R * (I * D) + T * R /\ R * (I * D) >= 0
      <4> DEFINE J == I * D
      <4>1. J \in Nat /\ W = J + T
          BY <2>3
      <4> HIDE DEF J, W, T
      <4> QED BY <1>1, <2>2, <2>4, <4>1, Z3 DEF J
    <3>3. R * (I * D) \in Int /\ R * W \in Int
        BY <1>1, <2>3, <2>4
    <3> QED BY <2>4, <2>5, <3>1, <3>2, <3>3
  <2>9. out # Raises /\ out \in Amounts /\ amount # Raises /\ amount <= HopMaximum(h)
      BY <1>1, <1>3, <2>1, <2>6 DEF Raises, Amounts
  <2>10. \A q \in Nat : q * W <= T * R => q <= out
      BY <2>6
  <2> QED BY <2>1, <2>2, <2>4, <2>6, <2>7, <2>8, <2>9, <2>10 DEF out
<1> QED BY <1>2, <1>3

\* What a larger input can pay for, a smaller one can, and for no more.
LEMMA HopMonotone ==
  ASSUME NEW h, IsHop(h), NEW a \in Nat, NEW b \in Nat, a <= b, HopOut(h, b) # Raises
  PROVE  HopOut(h, a) # Raises /\ HopOut(h, a) <= HopOut(h, b)
<1> DEFINE I == h.reserveIn
           R == h.reserveOut
           F == h.feeNumerator
           D == h.feeDenominator
           s == a * F
           t == b * F
           J == I * D
           o == HopOut(h, a)
           p == HopOut(h, b)
<1>1. R \in Nat /\ F \in Nat /\ I \in Nat /\ D \in Nat /\ a \in Amounts /\ b \in Amounts
      /\ HopMaximum(h) \in Amounts
    BY HopCapacity DEF IsHop, Amounts
<1>2. a # Raises /\ a <= HopMaximum(h)
  <2>1. b <= HopMaximum(h)
      BY <1>1, HopFacts
  <2> QED BY <1>1, <2>1 DEF Raises, Amounts
<1>3. o # Raises
    BY <1>1, <1>2, HopFacts
<1>4. o \in Nat /\ o <= R /\ o * (J + s) <= s * R
    BY <1>1, <1>3, HopFacts
<1>5. s \in Nat /\ t \in Nat /\ s <= t /\ J \in Nat
    BY <1>1, Products
<1>6. p \in Nat /\ \A q \in Nat : q * (J + t) <= t * R => q <= p
    BY <1>1, HopFacts
<1> HIDE DEF o, p, s, t, J
<1>7. o * (J + t) <= t * R
  <2>1. PICK e \in Nat : t = s + e
    <3>1. t - s \in Nat /\ t = s + (t - s)
        BY <1>5
    <3> QED BY <3>1
  <2>2. PICK d \in Nat : R = o + d
    <3>1. R - o \in Nat /\ R = o + (R - o)
        BY <1>1, <1>4
    <3> QED BY <3>1
  <2>3. o * (J + t) = o * (J + s) + o * e
      BY <1>4, <1>5, <2>1, Z3
  <2>4. t * R = s * R + e * o + e * d
      BY <1>1, <1>4, <1>5, <2>1, <2>2, Z3
  <2>5. e * d \in Nat /\ o * e = e * o /\ o * e \in Nat /\ s * R \in Nat /\ o * (J + s) \in Nat
      BY <1>1, <1>4, <1>5, <2>1, <2>2, Products
  <2> QED BY <1>4, <2>3, <2>4, <2>5
<1>8. o <= p
    BY <1>4, <1>6, <1>7
<1> QED BY <1>3, <1>8 DEF o, p

-----------------------------------------------------------------------------
(* A route: larger inputs pay for more *)

\* Induction over an initial segment.
LEMMA InductionUpto ==
  ASSUME NEW N \in Nat, NEW S, 0 \in S, \A n \in 1..N : n - 1 \in S => n \in S
  PROVE  0..N \subseteq S
<1> DEFINE T == {n \in Nat : n <= N => n \in S}
<1>1. 0 \in T
    OBVIOUS
<1>2. ASSUME NEW n \in Nat, n \in T PROVE n + 1 \in T
  <2>1. CASE n + 1 <= N
    <3>1. n + 1 \in 1..N /\ (n + 1) - 1 = n /\ n \in S
        BY <1>2, <2>1
    <3>2. n + 1 \in S
        BY <3>1
    <3> QED BY <3>2
  <2>2. CASE ~(n + 1 <= N)
      BY <2>2
  <2> QED BY <2>1, <2>2
<1>3. Nat \subseteq T
  <2> HIDE DEF T
  <2> QED BY <1>1, <1>2, Induction
<1> QED BY <1>3

HopsOnly(path) == Len(path) \in Nat /\ \A n \in 1..Len(path) : IsHop(path[n])

\* The amounts on the way of an input along a route.
Course(g, path, amount) ==
  /\ g \in [0..Len(path) -> Amounts]
  /\ g[0] = amount
  /\ \A n \in 1..Len(path) : g[n] = HopOut(path[n], g[n - 1])

\* The output of a route is the end of a course: each hop is fed what the one before it
\* returned (ConstantProductRoute.quote_exact_in).
LEMMA RouteUnfolds ==
  ASSUME NEW path, HopsOnly(path), NEW amount \in Amounts
  PROVE  \E g : Course(g, path, amount) /\ RouteOut(path, amount) = g[Len(path)]
<1> DEFINE N == Len(path)
           D == 0..N
           rank == [n \in D |-> n]
           base == [n \in D |-> amount]
           prior == [n \in D |-> n - 1]
           step == [n \in D |-> [v \in Amounts |-> HopOut(path[n], v)]]
           solves(f) == f = [n \in D |-> IF n = 0 THEN amount ELSE HopOut(path[n], f[n - 1])]
<1>1. WellRanked(D, Amounts, N, rank, base, prior, step)
  <2>1. ASSUME NEW n \in D, n # 0, NEW v \in Amounts PROVE step[n][v] \in Amounts
    <3>1. step[n][v] = HopOut(path[n], v) /\ IsHop(path[n])
        BY <2>1 DEF HopsOnly
    <3> QED BY <3>1, HopFacts
  <2>2. N \in Nat /\ \A n \in D : /\ rank[n] \in 0..N /\ base[n] \in Amounts
                                  /\ rank[n] # 0 => prior[n] \in D /\ rank[prior[n]] < rank[n]
      BY DEF HopsOnly
  <2>3. \A n \in D : rank[n] = n
      OBVIOUS
  <2> HIDE DEF rank, base, prior, step, D
  <2> QED BY <2>1, <2>2, <2>3 DEF WellRanked
<1>2. PICK g : Unfolds(g, D, Amounts, rank, base, prior, step)
  <2> HIDE DEF D, N, rank, base, prior, step
  <2> QED BY <1>1, RecursionExists
<1>3. /\ g \in [D -> Amounts]
      /\ \A n \in D : g[n] = IF n = 0 THEN amount ELSE HopOut(path[n], g[n - 1])
  <2>1. g \in [D -> Amounts] /\ \A n \in D : Follow(g, n, rank, base, prior, step)
      BY <1>2 DEF Unfolds
  <2>2. ASSUME NEW n \in D PROVE g[n] = IF n = 0 THEN amount ELSE HopOut(path[n], g[n - 1])
    <3>1. rank[n] = n /\ base[n] = amount /\ prior[n] = n - 1
        OBVIOUS
    <3>2. n # 0 => g[n - 1] \in Amounts
        BY <2>1 DEF HopsOnly
    <3>3. n # 0 => step[n][g[n - 1]] = HopOut(path[n], g[n - 1])
        BY <3>2
    <3> HIDE DEF rank, base, prior, step, D
    <3> QED BY <2>1, <3>1, <3>3 DEF Follow
  <2> QED BY <2>1, <2>2
<1>4. solves(g)
    BY <1>3
<1>5. RouteOut(path, amount) = (CHOOSE f : solves(f))[N]
    BY DEF RouteOut
<1> HIDE DEF solves
<1>6. PICK f : solves(f) /\ RouteOut(path, amount) = f[N]
    BY <1>4, <1>5
<1>7. f = [n \in D |-> IF n = 0 THEN amount ELSE HopOut(path[n], f[n - 1])]
    BY <1>6 DEF solves
<1>8. N \in Nat /\ f[0] = amount /\ \A n \in 1..N : f[n] = HopOut(path[n], f[n - 1])
    BY <1>7 DEF HopsOnly
<1>9. \A n \in D : f[n] \in Amounts
  <2> DEFINE S == {n \in D : f[n] \in Amounts}
  <2>1. 0 \in S
      BY <1>8
  <2>2. ASSUME NEW n \in 1..N, n - 1 \in S PROVE n \in S
    <3>1. IsHop(path[n]) /\ f[n - 1] \in Amounts
        BY <2>2 DEF HopsOnly
    <3>2. HopOut(path[n], f[n - 1]) \in Amounts
        BY <3>1, HopFacts
    <3> QED BY <1>8, <3>2
  <2> HIDE DEF S
  <2>3. 0..N \subseteq S
      BY <1>8, <2>1, <2>2, InductionUpto
  <2> QED BY <2>3 DEF S
<1>10. Course(f, path, amount)
    BY <1>7, <1>8, <1>9 DEF Course
<1> QED BY <1>6, <1>10

\* What is refused on the way is refused.
LEMMA CourseGoesOn ==
  ASSUME NEW path, HopsOnly(path), NEW amount \in Amounts, NEW g, Course(g, path, amount),
         g[Len(path)] # Raises
  PROVE  \A n \in 0..Len(path) : g[n] \in Nat
<1> DEFINE N == Len(path)
           S == {k \in 0..N : g[N - k] \in Nat}
<1>1. N \in Nat /\ \A n \in 0..N : g[n] \in Amounts
    BY DEF HopsOnly, Course
<1>2. 0 \in S
    BY <1>1 DEF Amounts
<1>3. ASSUME NEW k \in 1..N, k - 1 \in S PROVE k \in S
  <2> DEFINE n == N - (k - 1)
  <2>1. n \in 1..N /\ n - 1 = N - k /\ g[n] \in Nat
      BY <1>1, <1>3
  <2>2. g[n] = HopOut(path[n], g[n - 1]) /\ IsHop(path[n]) /\ g[n - 1] \in Amounts
      BY <1>1, <2>1 DEF Course, HopsOnly
  <2>3. g[n] # Raises
      BY <2>1 DEF Raises
  <2>4. g[n - 1] \in Nat
      BY <2>2, <2>3, HopFacts
  <2> QED BY <1>1, <2>1, <2>4
<1>4. 0..N \subseteq S
  <2> HIDE DEF S
  <2> QED BY <1>1, <1>2, <1>3, InductionUpto
<1>5. ASSUME NEW n \in 0..N PROVE g[n] \in Nat
  <2>1. N - n \in 0..N /\ N - (N - n) = n
      BY <1>1
  <2> QED BY <1>4, <2>1
<1> QED BY <1>5

\* Smaller inputs quote where larger ones do.
LEMMA RouteMonotone ==
  ASSUME NEW path, HopsOnly(path), NEW a \in Nat, NEW b \in Nat, a <= b, Quotes(path, b)
  PROVE  Quotes(path, a) /\ RouteOut(path, a) <= RouteOut(path, b)
<1>1. a \in Amounts /\ b \in Amounts
    BY DEF Amounts
<1>2. PICK f : Course(f, path, a) /\ RouteOut(path, a) = f[Len(path)]
    BY <1>1, RouteUnfolds
<1>3. PICK g : Course(g, path, b) /\ RouteOut(path, b) = g[Len(path)]
    BY <1>1, RouteUnfolds
<1>4. \A n \in 0..Len(path) : g[n] \in Nat
    BY <1>1, <1>3, CourseGoesOn DEF Quotes
<1> DEFINE N == Len(path)
           S == {n \in 0..N : f[n] \in Nat /\ f[n] <= g[n]}
<1>5. N \in Nat /\ 0 \in S
    BY <1>2, <1>3 DEF HopsOnly, Course
<1>6. ASSUME NEW n \in 1..N, n - 1 \in S PROVE n \in S
  <2>1. f[n - 1] \in Nat /\ f[n - 1] <= g[n - 1] /\ g[n - 1] \in Nat /\ g[n] \in Nat
      BY <1>4, <1>5, <1>6
  <2>2. /\ f[n] = HopOut(path[n], f[n - 1]) /\ g[n] = HopOut(path[n], g[n - 1])
        /\ IsHop(path[n]) /\ f[n] \in Amounts
      BY <1>2, <1>3, <1>5 DEF Course, HopsOnly
  <2>3. HopOut(path[n], g[n - 1]) # Raises
      BY <2>1, <2>2 DEF Raises
  <2>4. f[n] # Raises /\ f[n] <= g[n]
      BY <2>1, <2>2, <2>3, HopMonotone
  <2> QED BY <2>2, <2>4 DEF Amounts
<1>7. 0..N \subseteq S
  <2> HIDE DEF S
  <2> QED BY <1>5, <1>6, InductionUpto
<1> QED BY <1>2, <1>3, <1>5, <1>7 DEF Quotes, Raises

-----------------------------------------------------------------------------
(* A route: its composition without the floors *)

CoefficientSet == [a : Nat \ {0}, b : Nat \ {0}, c : Nat]

\* Coefficients of hops stay naturals, A and B above zero.
LEMMA ComposeTyped ==
  ASSUME NEW h, IsHop(h), NEW k \in CoefficientSet
  PROVE  Compose(k, h) \in CoefficientSet
<1> DEFINE A == h.feeNumerator * h.reserveOut
           B == h.feeDenominator * h.reserveIn
<1>1. /\ h.feeNumerator \in Nat \ {0} /\ h.reserveOut \in Nat \ {0}
      /\ h.feeDenominator \in Nat \ {0} /\ h.reserveIn \in Nat \ {0}
      /\ k.a \in Nat \ {0} /\ k.b \in Nat \ {0} /\ k.c \in Nat
    BY DEF IsHop, CoefficientSet
<1>2. \A m, n \in Nat \ {0} : m * n \in Nat \ {0}
    BY Z3
<1>3. A \in Nat \ {0} /\ B \in Nat \ {0} /\ h.feeNumerator * k.a \in Nat \ {0}
    BY <1>1, <1>2
<1> HIDE DEF A, B
<1>4. A * k.a \in Nat \ {0} /\ B * k.b \in Nat \ {0}
    BY <1>1, <1>2, <1>3
<1>5. B * k.c \in Nat
    BY <1>1, <1>3, Products
<1>6. B * k.c + h.feeNumerator * k.a \in Nat
    BY <1>3, <1>5
<1> DEFINE a == A * k.a
           b == B * k.b
           c == B * k.c + h.feeNumerator * k.a
<1>7. Compose(k, h) = [a |-> a, b |-> b, c |-> c]
    BY DEF Compose, A, B
<1>8. a \in Nat \ {0} /\ b \in Nat \ {0} /\ c \in Nat
    BY <1>4, <1>6
<1> HIDE DEF a, b, c
<1> QED BY <1>7, <1>8 DEF CoefficientSet

\* The coefficients after each hop.
Composed(e, path) ==
  /\ e \in [0..Len(path) -> CoefficientSet]
  /\ e[0] = [a |-> 1, b |-> 1, c |-> 0]
  /\ \A n \in 1..Len(path) : e[n] = Compose(e[n - 1], path[n])

\* The coefficients of a route are those of its hops, composed in turn.
LEMMA CoefficientsUnfold ==
  ASSUME NEW path, HopsOnly(path)
  PROVE  \E e : Composed(e, path) /\ Coefficients(path) = e[Len(path)]
<1> DEFINE N == Len(path)
           D == 0..N
           one == [a |-> 1, b |-> 1, c |-> 0]
           rank == [n \in D |-> n]
           base == [n \in D |-> one]
           prior == [n \in D |-> n - 1]
           step == [n \in D |-> [k \in CoefficientSet |-> Compose(k, path[n])]]
           solves(f) == f = [n \in D |-> IF n = 0 THEN one ELSE Compose(f[n - 1], path[n])]
<1>0. one \in CoefficientSet
    BY DEF CoefficientSet
<1>1. WellRanked(D, CoefficientSet, N, rank, base, prior, step)
  <2>1. ASSUME NEW n \in D, n # 0, NEW k \in CoefficientSet PROVE step[n][k] \in CoefficientSet
    <3>1. step[n][k] = Compose(k, path[n]) /\ IsHop(path[n])
        BY <2>1 DEF HopsOnly
    <3> QED BY <3>1, ComposeTyped
  <2>2. N \in Nat /\ \A n \in D : /\ rank[n] \in 0..N /\ base[n] \in CoefficientSet
                                  /\ rank[n] # 0 => prior[n] \in D /\ rank[prior[n]] < rank[n]
    <3> HIDE DEF one
    <3> QED BY <1>0 DEF HopsOnly
  <2>3. \A n \in D : rank[n] = n
      OBVIOUS
  <2> HIDE DEF rank, base, prior, step, D
  <2> QED BY <2>1, <2>2, <2>3 DEF WellRanked
<1>2. PICK g : Unfolds(g, D, CoefficientSet, rank, base, prior, step)
  <2> HIDE DEF D, N, rank, base, prior, step
  <2> QED BY <1>1, RecursionExists
<1>3. /\ g \in [D -> CoefficientSet]
      /\ \A n \in D : g[n] = IF n = 0 THEN one ELSE Compose(g[n - 1], path[n])
  <2>1. g \in [D -> CoefficientSet] /\ \A n \in D : Follow(g, n, rank, base, prior, step)
      BY <1>2 DEF Unfolds
  <2>2. ASSUME NEW n \in D PROVE g[n] = IF n = 0 THEN one ELSE Compose(g[n - 1], path[n])
    <3>1. rank[n] = n /\ base[n] = one /\ prior[n] = n - 1
        OBVIOUS
    <3>2. n # 0 => g[n - 1] \in CoefficientSet
        BY <2>1 DEF HopsOnly
    <3>3. n # 0 => step[n][g[n - 1]] = Compose(g[n - 1], path[n])
        BY <3>2
    <3> HIDE DEF rank, base, prior, step, D, one
    <3> QED BY <2>1, <3>1, <3>3 DEF Follow
  <2> QED BY <2>1, <2>2
<1>4. solves(g)
  <2> HIDE DEF one
  <2> QED BY <1>3
<1>5. Coefficients(path) = (CHOOSE f : solves(f))[N]
    BY DEF Coefficients
<1> HIDE DEF solves
<1>6. PICK e : solves(e) /\ Coefficients(path) = e[N]
    BY <1>4, <1>5
<1>7. e = [n \in D |-> IF n = 0 THEN one ELSE Compose(e[n - 1], path[n])]
    BY <1>6 DEF solves
<1>8. N \in Nat /\ e[0] = one /\ \A n \in 1..N : e[n] = Compose(e[n - 1], path[n])
  <2> HIDE DEF one
  <2> QED BY <1>7 DEF HopsOnly
<1>9. \A n \in D : e[n] \in CoefficientSet
  <2> DEFINE S == {n \in D : e[n] \in CoefficientSet}
  <2> HIDE DEF one
  <2>1. 0 \in S
      BY <1>0, <1>8
  <2>2. ASSUME NEW n \in 1..N, n - 1 \in S PROVE n \in S
    <3>1. IsHop(path[n]) /\ e[n - 1] \in CoefficientSet
        BY <2>2 DEF HopsOnly
    <3>2. Compose(e[n - 1], path[n]) \in CoefficientSet
        BY <3>1, ComposeTyped
    <3> QED BY <1>8, <3>2
  <2> HIDE DEF S
  <2>3. 0..N \subseteq S
      BY <1>8, <2>1, <2>2, InductionUpto
  <2> QED BY <2>3 DEF S
<1>10. Composed(e, path)
    BY <1>7, <1>8, <1>9 DEF Composed
<1> QED BY <1>6, <1>10

\* What comes out is at most what would without the floors.
LEMMA HopBelow ==
  ASSUME NEW h, IsHop(h), NEW k \in CoefficientSet, NEW x \in Nat, NEW amount \in Nat,
         HopOut(h, amount) # Raises,
         amount * (k.b + k.c * x) <= k.a * x
  PROVE  HopOut(h, amount) * (Compose(k, h).b + Compose(k, h).c * x) <= Compose(k, h).a * x
<1> DEFINE I == h.reserveIn
           R == h.reserveOut
           F == h.feeNumerator
           D == h.feeDenominator
           J == I * D
           o == HopOut(h, amount)
           A == k.a
           B == k.b
           C == k.c
           W == B + C * x
           X == A * x
           T == amount * F
<1>1. /\ I \in Nat /\ R \in Nat /\ F \in Nat /\ D \in Nat /\ amount \in Amounts
      /\ A \in Nat /\ B \in Nat /\ C \in Nat
    BY DEF IsHop, Amounts, CoefficientSet
<1>2. o \in Nat /\ o <= R /\ o * (J + T) <= T * R /\ T \in Nat
    BY <1>1, HopFacts
<1>3. J \in Nat /\ W \in Nat /\ X \in Nat /\ C * x \in Nat
    BY <1>1, Products
<1>4. amount * W <= X
    OBVIOUS
<1>5. /\ Compose(k, h).a = (F * R) * A
      /\ Compose(k, h).b = (D * I) * B
      /\ Compose(k, h).c = (D * I) * C + F * A
    BY DEF Compose
<1>6. /\ (F * R) * A * x = F * R * X
      /\ (D * I) * B + ((D * I) * C + F * A) * x = J * W + F * X
  <2>1. (F * R) * A * x = F * R * (A * x)
      BY <1>1, Z3
  <2>2. D * I = I * D
      BY <1>1, Products
  <2>a. \A p, q, r, t \in Nat : p * (q + r) = p * q + p * r /\ (p * q + r) * t = p * (q * t) + r * t
      BY Z3
  <2>b. F * A \in Nat /\ (F * A) * x = F * (A * x)
      BY <1>1, Products, Associates
  <2>3. J * W = J * B + J * (C * x) /\ (J * C + F * A) * x = J * (C * x) + F * (A * x)
    <3> HIDE DEF J
    <3> QED BY <1>1, <1>3, <2>a, <2>b
  <2> HIDE DEF J, W, X
  <2> QED BY <1>1, <1>3, <2>1, <2>2, <2>3, Z3 DEF X, J
<1> HIDE DEF o, J, W, X, T
<1>7. PICK d \in Nat : R = o + d
  <2>1. R - o \in Nat /\ R = o + (R - o)
      BY <1>1, <1>2
  <2> QED BY <2>1
<1>8. o * J <= T * d
  <2>1. o * (J + T) = o * J + o * T /\ T * R = T * o + T * d /\ o * T = T * o
      BY <1>2, <1>3, <1>7, Z3
  <2>2. o * J \in Nat /\ o * T \in Nat /\ T * d \in Nat
      BY <1>2, <1>3, <1>7, Products
  <2> QED BY <1>2, <2>1, <2>2
<1>9. o * J * W <= F * d * X
  <2>1. (o * J) * W <= (T * d) * W
    <3>1. o * J \in Nat /\ T * d \in Nat
        BY <1>2, <1>3, <1>7, Products
    <3> QED BY <1>3, <1>8, <3>1, Products
  <2>2. (T * d) * W = (amount * W) * (F * d)
      BY <1>1, <1>2, <1>3, <1>7, Z3 DEF T
  <2>3. (amount * W) * (F * d) <= X * (F * d)
    <3>1. amount * W \in Nat /\ F * d \in Nat
        BY <1>1, <1>3, <1>7, Products
    <3> QED BY <1>3, <1>4, <3>1, Products
  <2>4. X * (F * d) = F * d * X
      BY <1>1, <1>3, <1>7, Z3
  <2>5. (T * d) * W \in Nat /\ (o * J) * W \in Nat /\ X * (F * d) \in Nat
    <3>1. o * J \in Nat /\ T * d \in Nat /\ F * d \in Nat
        BY <1>1, <1>2, <1>3, <1>7, Products
    <3> QED BY <1>3, <3>1, Products
  <2> QED BY <2>1, <2>2, <2>3, <2>4, <2>5
<1>10. o * (J * W + F * X) <= F * R * X
  <2>1. o * (J * W + F * X) = o * J * W + F * o * X
      BY <1>1, <1>2, <1>3, Z3
  <2>2. F * R * X = F * o * X + F * d * X
      BY <1>1, <1>2, <1>3, <1>7, Z3
  <2>3. o * J * W \in Nat /\ F * o * X \in Nat /\ F * d * X \in Nat
    <3>1. o * J \in Nat /\ F * o \in Nat /\ F * d \in Nat
        BY <1>1, <1>2, <1>3, <1>7, Products
    <3> QED BY <1>3, <3>1, Products
  <2> QED BY <1>9, <2>1, <2>2, <2>3
<1> QED BY <1>5, <1>6, <1>10 DEF o

\* A route returns no more than its composition without the floors, and less than
\* overflows.
LEMMA RouteFacts ==
  ASSUME NEW path, HopsOnly(path), NEW x \in Nat, Quotes(path, x)
  PROVE  LET k == Coefficients(path) IN
         /\ k \in CoefficientSet
         /\ RouteOut(path, x) \in Nat
         /\ RouteOut(path, x) * (k.b + k.c * x) <= k.a * x
         /\ RouteOut(path, x) <= x \/ RouteOut(path, x) <= MaxUint
<1>1. x \in Amounts
    BY DEF Amounts
<1>2. PICK g : Course(g, path, x) /\ RouteOut(path, x) = g[Len(path)]
    BY <1>1, RouteUnfolds
<1>3. PICK e : Composed(e, path) /\ Coefficients(path) = e[Len(path)]
    BY CoefficientsUnfold
<1>4. \A n \in 0..Len(path) : g[n] \in Nat
    BY <1>1, <1>2, CourseGoesOn DEF Quotes
<1> DEFINE N == Len(path)
           S == {n \in 0..N : /\ g[n] * (e[n].b + e[n].c * x) <= e[n].a * x
                              /\ g[n] <= x \/ g[n] <= MaxUint}
<1>5. N \in Nat /\ MaxUint \in Nat
    BY WidthAssumption DEF HopsOnly
<1>6. 0 \in S
  <2>1. g[0] = x /\ e[0].a = 1 /\ e[0].b = 1 /\ e[0].c = 0
      BY <1>2, <1>3 DEF Course, Composed
  <2>2. x * (1 + 0 * x) <= 1 * x
      OBVIOUS
  <2> QED BY <1>5, <2>1, <2>2
<1>7. ASSUME NEW n \in 1..N, n - 1 \in S PROVE n \in S
  <2>a. n \in 0..N /\ n - 1 \in 0..N
      BY <1>5
  <2>b. g[n] = HopOut(path[n], g[n - 1]) /\ e[n] = Compose(e[n - 1], path[n]) /\ IsHop(path[n])
      BY <1>2, <1>3, <1>7 DEF Course, Composed, HopsOnly
  <2>c. g[n - 1] \in Nat /\ g[n] \in Nat /\ e[n - 1] \in CoefficientSet
      BY <1>3, <1>4, <2>a DEF Composed
  <2>1. /\ g[n - 1] \in Nat /\ g[n] \in Nat /\ e[n - 1] \in CoefficientSet /\ IsHop(path[n])
        /\ g[n] = HopOut(path[n], g[n - 1]) /\ e[n] = Compose(e[n - 1], path[n])
        /\ g[n - 1] * (e[n - 1].b + e[n - 1].c * x) <= e[n - 1].a * x
      BY <1>7, <2>b, <2>c
  <2> DEFINE h == path[n]
             k == e[n - 1]
             amount == g[n - 1]
             o == g[n]
  <2>2. /\ amount \in Nat /\ o \in Nat /\ k \in CoefficientSet /\ IsHop(h)
        /\ o = HopOut(h, amount) /\ e[n] = Compose(k, h)
        /\ amount * (k.b + k.c * x) <= k.a * x
      BY <2>1
  <2> HIDE DEF h, k, amount, o
  <2>3. HopOut(h, amount) # Raises /\ amount \in Amounts
      BY <2>2 DEF Raises, Amounts
  <2>4. o * (Compose(k, h).b + Compose(k, h).c * x) <= Compose(k, h).a * x
      BY <2>2, <2>3, HopBelow
  <2>5. o <= MaxUint
    <3>1. /\ amount <= HopMaximum(h) /\ HopMaximum(h) \in Amounts /\ o <= h.reserveOut
          /\ h.reserveOut \in Nat
        BY <2>2, <2>3, HopFacts, HopCapacity DEF IsHop
    <3>2. CASE amount >= 1
      <4>1. HopMaximum(h) >= 1
          BY <2>2, <3>1, <3>2 DEF Amounts, Raises
      <4>2. h.reserveOut <= MaxUint
          BY <2>2, <4>1, HopCapacity
      <4> QED BY <1>5, <2>2, <3>1, <4>2
    <3>3. CASE amount = 0
      <4>1. /\ 0 * h.feeNumerator = 0 /\ 0 * h.reserveOut = 0
          BY <2>2 DEF IsHop
      <4> DEFINE w == h.reserveIn * h.feeDenominator + amount * h.feeNumerator
      <4>2. w \in Nat \ {0} /\ o * w <= (amount * h.feeNumerator) * h.reserveOut
          BY <2>2, <2>3, HopFacts
      <4>3. o * w <= 0
          BY <3>3, <4>1, <4>2
      <4> HIDE DEF w
      <4>4. o = 0
          BY <2>2, <4>2, <4>3, Z3
      <4> QED BY <1>5, <4>4
    <3> QED BY <2>2, <3>2, <3>3
  <2> QED BY <2>2, <2>4, <2>5 DEF o
<1>8. 0..N \subseteq S
  <2> HIDE DEF S
  <2> QED BY <1>5, <1>6, <1>7, InductionUpto
<1>9. N \in S /\ e[N] \in CoefficientSet /\ g[N] \in Nat
    BY <1>3, <1>4, <1>5, <1>8 DEF Composed
<1> QED BY <1>2, <1>3, <1>9

-----------------------------------------------------------------------------
(* The largest safe input *)

\* The pairs that the search for the safe input goes through, and how.
Middle(i) == (i[1] + i[2] + 1) \div 2
Narrowed(path, i) ==
  IF Quotes(path, Middle(i)) THEN <<Middle(i), i[2]>> ELSE <<i[1], Middle(i) - 1>>
Width(i) == IF i[1] < i[2] THEN i[2] - i[1] ELSE 0

\* The middle of a bracket lies above its lower end: each turn of the search gets on.
LEMMA MiddleFacts ==
  ASSUME NEW R \in Nat, NEW i \in (1..R) \X (0..R), i[1] < i[2]
  PROVE  Middle(i) \in (i[1] + 1)..i[2] /\ i[1] \in 1..R /\ i[2] \in 0..R
<1> DEFINE a == i[1]
           b == i[2]
           m == (a + b + 1) \div 2
<1>1. a \in 1..R /\ b \in 0..R /\ a < b
    OBVIOUS
<1> HIDE DEF a, b
<1>2. m \in (a + 1)..b
    BY <1>1
<1> QED BY <1>1, <1>2 DEF a, b, Middle

\* A turn narrows the bracket, to the half in which the largest input that quotes is.
LEMMA NarrowedFacts ==
  ASSUME NEW path, NEW R \in Nat, NEW i \in (1..R) \X (0..R), i[1] < i[2]
  PROVE  LET j == Narrowed(path, i) IN
         /\ j \in (1..R) \X (0..R) /\ Width(j) < Width(i) /\ j[1] <= j[2]
         /\ \/ Quotes(path, Middle(i)) /\ j[1] = Middle(i) /\ j[2] = i[2]
            \/ ~Quotes(path, Middle(i)) /\ j[1] = i[1] /\ j[2] = Middle(i) - 1
<1> DEFINE m == Middle(i)
           j == Narrowed(path, i)
<1>1. m \in (i[1] + 1)..i[2] /\ i[1] \in 1..R /\ i[2] \in 0..R
    BY MiddleFacts
<1> HIDE DEF m
<1>2. CASE Quotes(path, m)
  <2>1. j = <<m, i[2]>>
      BY <1>2 DEF Narrowed, m
  <2>2. j[1] = m /\ j[2] = i[2]
      BY <2>1
  <2> HIDE DEF j
  <2> QED BY <1>1, <1>2, <2>1, <2>2 DEF Width, j, m
<1>3. CASE ~Quotes(path, m)
  <2>1. j = <<i[1], m - 1>>
      BY <1>3 DEF Narrowed, m
  <2>2. j[1] = i[1] /\ j[2] = m - 1
      BY <2>1
  <2> HIDE DEF j
  <2> QED BY <1>1, <1>3, <2>1, <2>2 DEF Width, j, m
<1> QED BY <1>2, <1>3

\* The binary search is a function that follows Narrowed down to a bracket of one input.
LEMMA SearchUnfolds ==
  ASSUME NEW path, NEW R \in Nat \ {0}
  PROVE  \E f : /\ \A i \in (1..R) \X (0..R) :
                      f[i] = IF i[1] >= i[2] THEN i[1] ELSE f[Narrowed(path, i)]
                /\ MaximumSafeInput(path, R) = IF Quotes(path, 1) THEN f[<<1, R>>] ELSE 0
<1> DEFINE D == (1..R) \X (0..R)
           V == 0..R
           rank == [i \in D |-> Width(i)]
           base == [i \in D |-> i[1]]
           prior == [i \in D |-> Narrowed(path, i)]
           step == [i \in D |-> [v \in V |-> v]]
           solves(f) == f = [i \in D |->
                              LET middle == (i[1] + i[2] + 1) \div 2 IN
                              IF i[1] >= i[2] THEN i[1]
                              ELSE IF Quotes(path, middle) THEN f[<<middle, i[2]>>]
                              ELSE f[<<i[1], middle - 1>>]]
<1>1. ASSUME NEW i \in D
      PROVE  /\ i[1] \in V /\ Width(i) \in 0..R /\ (Width(i) = 0 <=> i[1] >= i[2])
             /\ Width(i) # 0 => Narrowed(path, i) \in D /\ Width(Narrowed(path, i)) < Width(i)
  <2>1. i[1] \in 1..R /\ i[2] \in 0..R
      OBVIOUS
  <2>2. i[1] < i[2] => Narrowed(path, i) \in D /\ Width(Narrowed(path, i)) < Width(i)
      BY NarrowedFacts
  <2> QED BY <2>1, <2>2 DEF Width
<1>2. WellRanked(D, V, R, rank, base, prior, step)
  <2>1. \A i \in D : rank[i] = Width(i) /\ base[i] = i[1] /\ prior[i] = Narrowed(path, i)
                     /\ \A v \in V : step[i][v] = v
      OBVIOUS
  <2> HIDE DEF rank, base, prior, step, D
  <2> QED BY <1>1, <2>1 DEF WellRanked
<1>3. PICK g : Unfolds(g, D, V, rank, base, prior, step)
  <2> HIDE DEF D, V, rank, base, prior, step
  <2> QED BY <1>2, RecursionExists
<1>4. g \in [D -> V] /\ \A i \in D : g[i] = IF i[1] >= i[2] THEN i[1] ELSE g[Narrowed(path, i)]
  <2>1. g \in [D -> V] /\ \A i \in D : Follow(g, i, rank, base, prior, step)
      BY <1>3 DEF Unfolds
  <2>2. ASSUME NEW i \in D
        PROVE  g[i] = IF i[1] >= i[2] THEN i[1] ELSE g[Narrowed(path, i)]
    <3>1. rank[i] = Width(i) /\ base[i] = i[1] /\ prior[i] = Narrowed(path, i)
          /\ \A v \in V : step[i][v] = v
        OBVIOUS
    <3> HIDE DEF rank, base, prior, step, D
    <3>2. Width(i) # 0 => g[Narrowed(path, i)] \in V
        BY <1>1, <2>1
    <3> QED BY <1>1, <2>1, <3>1, <3>2 DEF Follow
  <2> QED BY <2>1, <2>2
<1>5. ASSUME NEW f, NEW i \in D
      PROVE  (LET middle == (i[1] + i[2] + 1) \div 2 IN
              IF i[1] >= i[2] THEN i[1]
              ELSE IF Quotes(path, middle) THEN f[<<middle, i[2]>>] ELSE f[<<i[1], middle - 1>>])
             = IF i[1] >= i[2] THEN i[1] ELSE f[Narrowed(path, i)]
    BY Zenon DEF Narrowed, Middle
<1>6. solves(g)
    BY <1>4, <1>5, Zenon
<1>7. MaximumSafeInput(path, R) = IF Quotes(path, 1) THEN (CHOOSE f : solves(f))[<<1, R>>] ELSE 0
    BY DEF MaximumSafeInput
<1> HIDE DEF solves
<1>8. PICK f : solves(f) /\ MaximumSafeInput(path, R) = IF Quotes(path, 1) THEN f[<<1, R>>] ELSE 0
    BY <1>6, <1>7
<1>9. \A i \in D : f[i] = IF i[1] >= i[2] THEN i[1] ELSE f[Narrowed(path, i)]
    BY <1>5, <1>8, Zenon DEF solves
<1> QED BY <1>8, <1>9

\* The binary search returns the largest input that quotes, and all smaller ones do
\* (opportunity_graph.py:184-202): SafeInputIsExact for every route and width.
THEOREM SafeInputIsLargest ==
  ASSUME NEW path, HopsOnly(path), NEW requested \in Nat \ {0}
  PROVE  /\ MaximumSafeInput(path, requested) \in 0..requested
         /\ \A x \in 1..requested :
              x <= MaximumSafeInput(path, requested) <=> Quotes(path, x)
<1> DEFINE R == requested
           D == (1..R) \X (0..R)
           q(x) == Quotes(path, x)
           Bracket(i) == i[1] <= i[2] /\ q(i[1]) /\ \A x \in (i[2] + 1)..R : ~q(x)
           Largest(m) == m \in 1..R /\ q(m) /\ \A x \in (m + 1)..R : ~q(x)
<1>1. \A a, b \in Nat : a <= b /\ q(b) => q(a)
    BY RouteMonotone
<1>2. PICK f : /\ \A i \in D : f[i] = IF i[1] >= i[2] THEN i[1] ELSE f[Narrowed(path, i)]
               /\ MaximumSafeInput(path, R) = IF q(1) THEN f[<<1, R>>] ELSE 0
    BY SearchUnfolds
<1> DEFINE S == {k \in 0..R : \A i \in D : Width(i) <= k /\ Bracket(i) => Largest(f[i])}
<1>3. ASSUME NEW i \in D, Bracket(i), ~(i[1] < i[2]) PROVE Largest(f[i])
  <2>1. i[1] \in 1..R /\ i[2] \in 0..R /\ i[1] = i[2] /\ f[i] = i[1]
      BY <1>2, <1>3
  <2> QED BY <1>3, <2>1
<1>4. ASSUME NEW i \in D, Bracket(i), i[1] < i[2]
      PROVE  LET j == Narrowed(path, i) IN
             j \in D /\ Bracket(j) /\ Width(j) < Width(i) /\ f[i] = f[j]
  <2> DEFINE j == Narrowed(path, i)
             m == Middle(i)
  <2>1. /\ j \in D /\ Width(j) < Width(i) /\ j[1] <= j[2]
        /\ \/ q(m) /\ j[1] = m /\ j[2] = i[2]
           \/ ~q(m) /\ j[1] = i[1] /\ j[2] = m - 1
      BY <1>4, NarrowedFacts
  <2>2. m \in (i[1] + 1)..i[2] /\ i[1] \in 1..R /\ i[2] \in 0..R
      BY <1>4, MiddleFacts
  <2>3. f[i] = f[j]
      BY <1>2, <1>4, <2>2
  <2> HIDE DEF j, m, q
  <2>4. CASE q(m) /\ j[1] = m /\ j[2] = i[2]
      BY <1>4, <2>1, <2>3, <2>4 DEF j
  <2>5. CASE ~q(m) /\ j[1] = i[1] /\ j[2] = m - 1
    <3>1. \A x \in m..R : ~q(x)
        BY <1>1, <2>2, <2>5
    <3>2. (m - 1) + 1 = m
        BY <2>2
    <3> QED BY <1>4, <2>1, <2>3, <2>5, <3>1, <3>2 DEF j
  <2> QED BY <2>1, <2>4, <2>5
<1> HIDE DEF q, Bracket, Largest
<1>5. \A i \in D : Width(i) \in 0..R /\ (i[1] < i[2] => Width(i) # 0)
    BY DEF Width
<1>6. 0 \in S
  <2>1. ASSUME NEW i \in D, Width(i) <= 0, Bracket(i) PROVE Largest(f[i])
    <3>1. ~(i[1] < i[2])
        BY <1>5, <2>1
    <3> QED BY <1>3, <2>1, <3>1
  <2> QED BY <2>1
<1>7. ASSUME NEW k \in 1..R, k - 1 \in S PROVE k \in S
  <2>1. ASSUME NEW i \in D, Width(i) <= k, Bracket(i) PROVE Largest(f[i])
    <3>1. CASE ~(i[1] < i[2])
        BY <1>3, <2>1, <3>1
    <3>2. CASE i[1] < i[2]
      <4> DEFINE j == Narrowed(path, i)
      <4>1. j \in D /\ Bracket(j) /\ Width(j) < Width(i) /\ f[i] = f[j]
          BY <1>4, <2>1, <3>2
      <4> HIDE DEF j
      <4>2. Width(j) <= k - 1
          BY <1>5, <2>1, <4>1
      <4>3. Largest(f[j])
          BY <1>7, <4>1, <4>2
      <4> QED BY <4>1, <4>3
    <3> QED BY <3>1, <3>2
  <2> QED BY <2>1
<1>8. 0..R \subseteq S
  <2> HIDE DEF S
  <2> QED BY <1>6, <1>7, InductionUpto
<1>9. CASE q(1)
  <2> DEFINE i == <<1, R>>
             m == MaximumSafeInput(path, R)
  <2>1. i \in D /\ i[1] = 1 /\ i[2] = R
      OBVIOUS
  <2>2. Bracket(i)
    <3> HIDE DEF i
    <3> QED BY <1>9, <2>1 DEF Bracket
  <2>3. Width(i) <= R /\ R \in S
      BY <1>5, <1>8, <2>1
  <2>4. m = f[i]
      BY <1>2, <1>9
  <2> HIDE DEF i, m
  <2>5. Largest(m)
      BY <2>1, <2>2, <2>3, <2>4
  <2>6. m \in 1..R /\ q(m) /\ \A x \in (m + 1)..R : ~q(x)
      BY <2>5 DEF Largest
  <2>7. ASSUME NEW x \in 1..R PROVE x <= m <=> q(x)
    <3>1. x <= m => q(x)
        BY <1>1, <2>6
    <3>2. ~(x <= m) => ~q(x)
        BY <2>6
    <3> QED BY <3>1, <3>2
  <2> QED BY <2>6, <2>7 DEF m, q
<1>10. CASE ~q(1)
  <2>1. MaximumSafeInput(path, R) = 0
      BY <1>2, <1>10
  <2>2. \A x \in 1..R : ~q(x)
      BY <1>1, <1>10
  <2> QED BY <2>1, <2>2 DEF q
<1> QED BY <1>9, <1>10

-----------------------------------------------------------------------------
(* The integer square root *)

\* The argument of math.isqrt loses two binary digits at a time.
LEMMA Quarter ==
  ASSUME NEW m \in Nat
  PROVE  m \div 4 \in Nat /\ 4 * (m \div 4) <= m /\ (m # 0 => m \div 4 < m)
OBVIOUS

NextDigit(m, r) == IF (2 * r + 1) * (2 * r + 1) <= m THEN 2 * r + 1 ELSE 2 * r

\* One more binary digit of a root that is not too large is not too large.
LEMMA NextDigitFacts ==
  ASSUME NEW m \in Nat, NEW r \in Nat, r * r <= m \div 4
  PROVE  NextDigit(m, r) \in Nat /\ NextDigit(m, r) * NextDigit(m, r) <= m
<1>1. (2 * r) * (2 * r) = 4 * (r * r) /\ r * r \in Nat
    BY Z3
<1>2. (2 * r) * (2 * r) <= m
    BY <1>1, Quarter
<1> QED BY <1>2 DEF NextDigit

\* The root that is computed is not above the real one.
LEMMA ISqrtIsBelow ==
  ASSUME NEW n \in Nat
  PROVE  ISqrt(n) \in Nat /\ ISqrt(n) * ISqrt(n) <= n
<1> DEFINE D == 0..n
           rank == [m \in D |-> m]
           base == [m \in D |-> 0]
           prior == [m \in D |-> m \div 4]
           step == [m \in D |-> [r \in Nat |-> NextDigit(m, r)]]
           solves(f) == f = [m \in D |-> LET doubled == 2 * f[m \div 4] IN
                               IF m = 0 THEN 0
                               ELSE IF (doubled + 1) * (doubled + 1) <= m
                               THEN doubled + 1 ELSE doubled]
<1>1. ASSUME NEW m \in D, m # 0 PROVE m \div 4 \in D /\ m \div 4 < m
    BY <1>1, Quarter
<1>2. ASSUME NEW m, NEW r \in Nat PROVE NextDigit(m, r) \in Nat
    BY DEF NextDigit
<1>3. WellRanked(D, Nat, n, rank, base, prior, step)
  <2>1. \A m \in D : rank[m] = m /\ base[m] = 0 /\ prior[m] = m \div 4
                     /\ \A r \in Nat : step[m][r] = NextDigit(m, r)
      OBVIOUS
  <2>2. \A m \in D : m \in 0..n
      OBVIOUS
  <2> HIDE DEF rank, base, prior, step, D
  <2> QED BY <1>1, <1>2, <2>1, <2>2 DEF WellRanked
<1>4. PICK g : Unfolds(g, D, Nat, rank, base, prior, step)
  <2> HIDE DEF D, rank, base, prior, step
  <2> QED BY <1>3, RecursionExists
<1>5. g \in [D -> Nat] /\ \A m \in D : g[m] = IF m = 0 THEN 0 ELSE NextDigit(m, g[m \div 4])
  <2>1. g \in [D -> Nat] /\ \A m \in D : Follow(g, m, rank, base, prior, step)
      BY <1>4 DEF Unfolds
  <2>2. ASSUME NEW m \in D PROVE g[m] = IF m = 0 THEN 0 ELSE NextDigit(m, g[m \div 4])
    <3>1. rank[m] = m /\ base[m] = 0 /\ prior[m] = m \div 4
          /\ \A r \in Nat : step[m][r] = NextDigit(m, r)
        OBVIOUS
    <3> HIDE DEF rank, base, prior, step, D
    <3>2. m # 0 => g[m \div 4] \in Nat
        BY <1>1, <2>1
    <3> QED BY <2>1, <3>1, <3>2 DEF Follow
  <2> QED BY <2>1, <2>2
<1>6. solves(g)
    BY <1>5, Zenon DEF NextDigit
<1>7. ISqrt(n) = (CHOOSE f : solves(f))[n]
    BY DEF ISqrt
<1> HIDE DEF solves
<1>8. PICK f : solves(f) /\ ISqrt(n) = f[n]
    BY <1>6, <1>7
<1>9. \A m \in D : f[m] = IF m = 0 THEN 0 ELSE NextDigit(m, f[m \div 4])
    BY <1>8, Zenon DEF solves, NextDigit
<1> DEFINE Root(m) == f[m] \in Nat /\ f[m] * f[m] <= m
           S == {k \in 0..n : \A m \in 0..k : Root(m)}
<1>10. 0 \in S
  <2>1. f[0] = 0
      BY <1>9
  <2>2. Root(0)
      BY <2>1
  <2> HIDE DEF Root
  <2> QED BY <2>2
<1>11. ASSUME NEW k \in 1..n, k - 1 \in S PROVE k \in S
  <2>1. k \div 4 \in 0..(k - 1) /\ k \in D /\ k \in Nat
    <3>1. k \in D /\ k # 0 /\ k \in Nat
        OBVIOUS
    <3> QED BY <1>1, <3>1, Quarter
  <2>2. f[k \div 4] \in Nat /\ f[k \div 4] * f[k \div 4] <= k \div 4
      BY <1>11, <2>1
  <2>3. f[k] = NextDigit(k, f[k \div 4])
      BY <1>9, <2>1
  <2>4. Root(k)
      BY <2>1, <2>2, <2>3, NextDigitFacts
  <2> HIDE DEF Root
  <2> QED BY <1>11, <2>4
<1>12. 0..n \subseteq S
  <2> HIDE DEF S
  <2> QED BY <1>10, <1>11, InductionUpto
<1>13. n \in S /\ n \in 0..n
    BY <1>12
<1> QED BY <1>8, <1>13

-----------------------------------------------------------------------------
(* The bound of an interval: its ends *)

Weight(k, x) == k.b + k.c * x

\* The profit at x, times its weight, without the floor.
Gain(k, x) == (k.a - Weight(k, x)) * x

\* The denominator of the profit without floors is above zero and grows with the input.
LEMMA WeightFacts ==
  ASSUME NEW k \in CoefficientSet, NEW x \in Nat
  PROVE  /\ k.a \in Nat \ {0} /\ k.b \in Nat \ {0} /\ k.c \in Nat
         /\ Weight(k, x) \in Nat \ {0} /\ Weight(k, x) = k.b + k.c * x
         /\ Gain(k, x) \in Int
         /\ \A y \in Nat : x <= y => Weight(k, x) <= Weight(k, y)
<1>1. k.a \in Nat \ {0} /\ k.b \in Nat \ {0} /\ k.c \in Nat
    BY DEF CoefficientSet
<1>2. k.c * x \in Nat /\ \A y \in Nat : x <= y => k.c * x <= k.c * y /\ k.c * y \in Nat
    BY <1>1, Products
<1>3. Weight(k, x) \in Nat \ {0}
    BY <1>1, <1>2 DEF Weight
<1>4. Gain(k, x) \in Int
    BY <1>1, <1>3, Associates DEF Gain
<1>5. \A y \in Nat : x <= y => Weight(k, x) <= Weight(k, y)
    BY <1>1, <1>2 DEF Weight
<1> QED BY <1>1, <1>3, <1>4, <1>5 DEF Weight

\* A factor above zero cancels from an inequality.
LEMMA CancelFactor ==
  ASSUME NEW p \in Int, NEW q \in Int, NEW w \in Nat \ {0}, p * w <= q * w
  PROVE  p <= q
<1> SUFFICES ASSUME q + 1 <= p PROVE FALSE
    OBVIOUS
<1>1. PICK d \in Nat : p = q + 1 + d
  <2>1. p - (q + 1) \in Nat /\ p = q + 1 + (p - (q + 1))
      OBVIOUS
  <2> QED BY <2>1
<1>2. p * w = q * w + w + d * w /\ d * w >= 0
    BY <1>1, Z3
<1>3. q * w \in Int /\ d * w \in Int
    BY <1>1
<1> QED BY <1>2, <1>3

\* How the profits at two inputs compare.
LEMMA ProfitsCompare ==
  ASSUME NEW k \in CoefficientSet, NEW x \in Nat, NEW y \in Nat
  PROVE  Gain(k, y) * Weight(k, x) = Gain(k, x) * Weight(k, y)
           + (x - y) * (Weight(k, y) * Weight(k, x) - k.a * k.b)
<1> DEFINE A == k.a
           B == k.b
           C == k.c
           V == Weight(k, y)
           W == Weight(k, x)
<1>1. A \in Nat /\ B \in Nat /\ C \in Nat /\ V \in Nat /\ W \in Nat /\ V = B + C * y /\ W = B + C * x
    BY WeightFacts
<1>2. Gain(k, y) = (A - V) * y /\ Gain(k, x) = (A - W) * x
    BY DEF Gain
<1> HIDE DEF A, B, C, V, W
<1>3. y * W - x * V = B * y - B * x
    BY <1>1, Z3
<1>4. ((A - V) * y) * W = ((A - W) * x) * V + (x - y) * (V * W - A * B)
  <2>1. ((A - V) * y) * W = A * (y * W) - (V * W) * y
      BY <1>1, Z3
  <2>2. ((A - W) * x) * V = A * (x * V) - (V * W) * x
      BY <1>1, Z3
  <2>3. (x - y) * (V * W - A * B) = (V * W) * x - (V * W) * y - A * (B * x) + A * (B * y)
      BY <1>1, Z3
  <2>4. A * (y * W) - A * (x * V) = A * (B * y) - A * (B * x)
    <3> DEFINE e == y * W
               f == x * V
               g == B * y
               h == B * x
    <3>1. e \in Int /\ f \in Int /\ g \in Int /\ h \in Int /\ e - f = g - h
        BY <1>1, <1>3
    <3> HIDE DEF e, f, g, h
    <3>2. A * e - A * f = A * g - A * h
        BY <1>1, <3>1, Z3
    <3> QED BY <3>2 DEF e, f, g, h
  <2>5. /\ A * (y * W) \in Int /\ A * (x * V) \in Int /\ A * (B * y) \in Int /\ A * (B * x) \in Int
        /\ (V * W) * y \in Int /\ (V * W) * x \in Int
    <3>1. y * W \in Int /\ x * V \in Int /\ B * y \in Int /\ B * x \in Int /\ V * W \in Int
        BY <1>1
    <3> QED BY <1>1, <3>1, Associates
  <2> QED BY <2>1, <2>2, <2>3, <2>4, <2>5
<1> QED BY <1>2, <1>4 DEF A, B, V, W

\* A profit is bounded by the profit without floors at an end that beats its input.
LEMMA EndCovers ==
  ASSUME NEW k \in CoefficientSet, NEW x \in Nat, NEW y \in Nat, NEW p \in Int,
         p * Weight(k, x) <= Gain(k, x),
         (x - y) * (Weight(k, y) * Weight(k, x) - k.a * k.b) >= 0
  PROVE  p <= EndpointUpper(k, y)
<1> DEFINE V == Weight(k, y)
           W == Weight(k, x)
           G == Gain(k, x)
           H == Gain(k, y)
           K == V * W - k.a * k.b
           e == (x - y) * K
<1>1. V \in Nat \ {0} /\ W \in Nat \ {0} /\ G \in Int /\ H \in Int /\ k.a \in Nat /\ k.b \in Nat
    BY WeightFacts
<1>2. K \in Int /\ e \in Int /\ e >= 0
  <2>1. V * W \in Int /\ k.a * k.b \in Int
      BY <1>1, Associates
  <2>2. K \in Int
      BY <2>1
  <2>3. x - y \in Int
      OBVIOUS
  <2> HIDE DEF K
  <2> QED BY <2>2, <2>3, Associates DEF K
<1>3. H * W = G * V + e
    BY ProfitsCompare
<1>4. EndpointUpper(k, y) = CeilDiv(k.a * y - y * V, V)
    BY DEF EndpointUpper, Weight
<1>5. k.a * y - y * V = H
    BY <1>1, Z3 DEF Gain
<1> HIDE DEF V, W, G, H, e, K
<1>6. (p * V) * W <= H * W
  <2>1. (p * W) * V <= G * V
    <3>1. p * W <= G /\ p * W \in Int
        BY <1>1 DEF W, G
    <3>2. \A a, b \in Int : \A c \in Nat : a <= b => a * c <= b * c
        BY Z3
    <3> QED BY <1>1, <3>1, <3>2
  <2>2. (p * W) * V = (p * V) * W
      BY <1>1, Z3
  <2>3. G * V \in Int /\ (p * V) * W \in Int /\ H * W \in Int
      BY <1>1
  <2> QED BY <1>2, <1>3, <2>1, <2>2, <2>3
<1>7. p * V <= H
  <2>1. p * V \in Int
      BY <1>1
  <2> QED BY <1>1, <1>6, <2>1, CancelFactor
<1> QED BY <1>1, <1>4, <1>5, <1>7, CeilFacts

-----------------------------------------------------------------------------
(* The bound of an interval: its interior *)

\* The peak of the profit without floors bounds every profit.
LEMMA InteriorCovers ==
  ASSUME NEW k \in CoefficientSet, NEW x \in Nat, NEW p \in Int, k.c # 0,
         p * Weight(k, x) <= Gain(k, x)
  PROVE  p <= CeilDiv(k.a + k.b - 2 * ISqrt(k.a * k.b), k.c)
<1> DEFINE A == k.a
           B == k.b
           C == k.c
           W == Weight(k, x)
           s == ISqrt(A * B)
           top == A + B - 2 * s
           z == C * x
           P == A * B
<1>1. A \in Nat /\ B \in Nat /\ C \in Nat \ {0} /\ W \in Nat \ {0} /\ W = B + z /\ z \in Nat
    BY WeightFacts, Products
<1>2. P \in Nat /\ s \in Nat /\ s * s <= P
    BY <1>1, Products, ISqrtIsBelow
<1>3. p * W <= (A - W) * x
    BY DEF Gain
<1> HIDE DEF A, B, C, W, s, z, P
<1>4. (p * C) * W <= (A - W) * z
  <2>1. p * W \in Int /\ (A - W) * x \in Int
      BY <1>1
  <2>2. \A a, b \in Int : \A c \in Nat : a <= b => a * c <= b * c
      BY Z3
  <2>3. (p * W) * C <= ((A - W) * x) * C
      BY <1>1, <1>3, <2>1, <2>2
  <2>4. (p * W) * C = (p * C) * W /\ ((A - W) * x) * C = (A - W) * z
      BY <1>1, Z3 DEF z
  <2> QED BY <2>3, <2>4
<1>5. (A - W) * z + (P + W * W) = (A + B) * W
  <2>1. (A - W) * z = A * z - W * z /\ (A + B) * W = A * W + B * W
      BY <1>1, Z3
  <2>2. A * W = P + A * z /\ W * W = W * B + W * z /\ W * B = B * W
      BY <1>1, Z3 DEF P
  <2>3. A * z \in Int /\ W * z \in Int /\ B * W \in Int
      BY <1>1
  <2> QED BY <1>1, <1>2, <2>1, <2>2, <2>3
<1>6. (2 * s) * W <= P + W * W
  <2>1. (s - W) * (s - W) >= 0 /\ (s - W) * (s - W) = s * s - (2 * s) * W + W * W
      BY <1>1, <1>2, Z3
  <2>2. s * s \in Int /\ (2 * s) * W \in Int /\ W * W \in Int
      BY <1>1, <1>2
  <2> QED BY <1>2, <2>1, <2>2
<1>7. (p * C) * W <= top * W
  <2>1. top * W = (A + B) * W - (2 * s) * W
      BY <1>1, <1>2, Z3
  <2>2. /\ (p * C) * W \in Int /\ (A - W) * z \in Int /\ (A + B) * W \in Int /\ W * W \in Int
        /\ (2 * s) * W \in Int
      BY <1>1, <1>2
  <2> QED BY <1>2, <1>4, <1>5, <1>6, <2>1, <2>2
<1>8. p * C <= top /\ top \in Int
  <2>1. p * C \in Int /\ top \in Int
      BY <1>1, <1>2
  <2> HIDE DEF top
  <2> QED BY <1>1, <1>7, <2>1, CancelFactor
<1>9. p <= CeilDiv(top, C)
  <2> HIDE DEF top
  <2> QED BY <1>1, <1>8, CeilFacts
<1> QED BY <1>9 DEF A, B, C, s, P

\* Where there is an edge the peak is above zero.
LEMMA InteriorPositive ==
  ASSUME NEW k \in CoefficientSet, k.c # 0, k.a > k.b
  PROVE  CeilDiv(k.a + k.b - 2 * ISqrt(k.a * k.b), k.c) > 0
<1> DEFINE A == k.a
           B == k.b
           P == A * B
           s == ISqrt(P)
           top == A + B - 2 * s
<1>1. A \in Nat /\ B \in Nat \ {0} /\ k.c \in Nat \ {0}
    BY DEF CoefficientSet
<1>2. P \in Nat /\ s \in Nat /\ s * s <= P
    BY <1>1, Products, ISqrtIsBelow
<1> HIDE DEF A, B, P, s
<1>3. 2 * s < A + B
  <2> SUFFICES ASSUME A + B <= 2 * s PROVE FALSE
      BY <1>1, <1>2
  <2>1. (A + B) * (A + B) <= (2 * s) * (2 * s)
      BY <1>1, <1>2, Z3
  <2>2. (2 * s) * (2 * s) = 4 * (s * s)
      BY <1>2, Z3
  <2>3. (A + B) * (A + B) = 4 * P + (A - B) * (A - B)
      BY <1>1, Z3 DEF P
  <2>4. (A - B) * (A - B) > 0
    <3>1. A - B \in Nat \ {0}
        BY <1>1 DEF A, B
    <3>2. \A d \in Nat \ {0} : d * d > 0
        BY Z3
    <3> QED BY <3>1, <3>2
  <2>5. /\ (A + B) * (A + B) \in Int /\ (2 * s) * (2 * s) \in Int /\ s * s \in Int
        /\ (A - B) * (A - B) \in Int
      BY <1>1, <1>2
  <2> QED BY <1>2, <2>1, <2>2, <2>3, <2>4, <2>5
<1>4. top \in Int /\ top > 0
    BY <1>1, <1>2, <1>3
<1>5. CeilDiv(top, k.c) > 0
  <2> HIDE DEF top
  <2> QED BY <1>1, <1>4, CeilFacts
<1> QED BY <1>5 DEF A, B, P, s

\* The upper bound of an interval, by where the peak is.
LEMMA IntervalFacts ==
  ASSUME NEW k \in CoefficientSet, NEW l \in Nat, NEW u \in Nat, l <= u
  PROVE  /\ IntervalUpper(k, l, u) \in Int
         /\ \/ /\ k.a * k.b <= Weight(k, l) * Weight(k, l)
               /\ IntervalUpper(k, l, u) = EndpointUpper(k, l)
            \/ /\ k.a * k.b > Weight(k, l) * Weight(k, l)
               /\ k.a * k.b >= Weight(k, u) * Weight(k, u)
               /\ IntervalUpper(k, l, u) = EndpointUpper(k, u)
            \/ /\ k.a * k.b > Weight(k, l) * Weight(k, l)
               /\ k.a * k.b < Weight(k, u) * Weight(k, u)
               /\ k.c # 0
               /\ IntervalUpper(k, l, u) = CeilDiv(k.a + k.b - 2 * ISqrt(k.a * k.b), k.c)
<1> DEFINE P == k.a * k.b
           V == Weight(k, l)
           U == Weight(k, u)
           K == V * V
           M == U * U
           E == EndpointUpper(k, l)
           F == EndpointUpper(k, u)
           H == CeilDiv(k.a + k.b - 2 * ISqrt(P), k.c)
<1>1. k.a \in Nat /\ k.b \in Nat /\ k.c \in Nat /\ V \in Nat \ {0} /\ U \in Nat \ {0}
    BY WeightFacts
<1>2. P \in Nat /\ K \in Nat /\ M \in Nat
    BY <1>1, Products
<1>3. E \in Int /\ F \in Int
  <2>1. \A y \in Nat : Weight(k, y) \in Nat \ {0} /\ k.a * y - y * Weight(k, y) \in Int
    <3>1. ASSUME NEW y \in Nat PROVE Weight(k, y) \in Nat \ {0} /\ k.a * y - y * Weight(k, y) \in Int
      <4>1. Weight(k, y) \in Nat \ {0}
          BY WeightFacts
      <4>2. k.a * y \in Int /\ y * Weight(k, y) \in Int
          BY <1>1, <4>1, Associates
      <4> QED BY <4>1, <4>2
    <3> QED BY <3>1
  <2>2. \A y \in Nat : EndpointUpper(k, y) = CeilDiv(k.a * y - y * Weight(k, y), Weight(k, y))
      BY DEF EndpointUpper, Weight
  <2>3. ASSUME NEW y \in Nat PROVE EndpointUpper(k, y) \in Int
    <3> DEFINE n == k.a * y - y * Weight(k, y)
    <3>1. n \in Int /\ Weight(k, y) \in Nat \ {0} /\ EndpointUpper(k, y) = CeilDiv(n, Weight(k, y))
        BY <2>1, <2>2
    <3> HIDE DEF n
    <3> QED BY <3>1, CeilFacts
  <2> QED BY <2>3
<1>4. k.c # 0 => H \in Int
  <2> DEFINE n == k.a + k.b - 2 * ISqrt(P)
  <2>1. n \in Int
      BY <1>1, <1>2, ISqrtIsBelow
  <2>2. ASSUME k.c # 0 PROVE k.c \in Nat \ {0}
      BY <1>1, <2>2
  <2> HIDE DEF n
  <2>3. k.c # 0 => CeilDiv(n, k.c) \in Int
      BY <2>1, <2>2, CeilFacts
  <2> QED BY <2>3 DEF n
<1>5. k.c = 0 => K = M
  <2>1. ASSUME k.c = 0 PROVE V = U
    <3>1. 0 * l = 0 /\ 0 * u = 0
        OBVIOUS
    <3> QED BY <2>1, <3>1 DEF Weight
  <2> QED BY <2>1
<1>6. IntervalUpper(k, l, u) = IF P <= K THEN E ELSE IF P >= M THEN F ELSE H
    BY DEF IntervalUpper, Weight
<1> HIDE DEF P, K, M, E, F, H
<1>7. CASE P <= K
    BY <1>3, <1>6, <1>7 DEF P, K, E
<1>8. CASE P > K /\ P >= M
  <2>1. IntervalUpper(k, l, u) = F
      BY <1>2, <1>6, <1>8
  <2> QED BY <1>3, <1>8, <2>1 DEF P, K, M, F
<1>9. CASE P > K /\ P < M
  <2>1. IntervalUpper(k, l, u) = H
      BY <1>2, <1>6, <1>9
  <2>2. k.c # 0
      BY <1>2, <1>5, <1>9
  <2> QED BY <1>4, <1>9, <2>1, <2>2 DEF P, K, M, H
<1> QED BY <1>2, <1>7, <1>8, <1>9

-----------------------------------------------------------------------------
(* What the search is owed *)

\* Factors of the same sign.
LEMMA SignsAgree ==
  ASSUME NEW m \in Int, NEW n \in Int, (m >= 0 /\ n >= 0) \/ (m <= 0 /\ n <= 0)
  PROVE  m * n >= 0
BY Z3

\* The bound of an interval is at least every profit in it.
LEMMA IntervalCovers ==
  ASSUME NEW k \in CoefficientSet, NEW l \in Nat, NEW x \in Nat, NEW u \in Nat,
         l <= x, x <= u, NEW p \in Int, p * Weight(k, x) <= Gain(k, x)
  PROVE  p <= IntervalUpper(k, l, u)
<1> DEFINE P == k.a * k.b
           V == Weight(k, l)
           W == Weight(k, x)
           U == Weight(k, u)
<1>1. /\ k.a \in Nat /\ k.b \in Nat /\ V \in Nat /\ W \in Nat /\ U \in Nat
      /\ V <= W /\ W <= U
    BY WeightFacts
<1>2. l <= u
    OBVIOUS
<1>3. /\ P \in Nat /\ V * V \in Nat /\ V * W \in Nat /\ U * W \in Nat /\ U * U \in Nat
      /\ V * V <= V * W /\ U * W <= U * U
  <2>1. V * V <= W * V /\ W * V = V * W /\ W * U <= U * U /\ W * U = U * W
      BY <1>1, Products
  <2> QED BY <1>1, <2>1, Products
<1>4. CASE P <= V * V /\ IntervalUpper(k, l, u) = EndpointUpper(k, l)
  <2>1. (x - l) * (V * W - P) >= 0
    <3> DEFINE m == x - l
               n == V * W - P
    <3>1. m \in Int /\ n \in Int /\ m >= 0 /\ n >= 0
        BY <1>3, <1>4
    <3> HIDE DEF m, n
    <3>2. m * n >= 0
        BY <3>1, SignsAgree
    <3> QED BY <3>2 DEF m, n
  <2>2. p <= EndpointUpper(k, l)
      BY <2>1, EndCovers
  <2> QED BY <1>4, <2>2
<1>5. CASE P >= U * U /\ IntervalUpper(k, l, u) = EndpointUpper(k, u)
  <2>1. (x - u) * (U * W - P) >= 0
    <3> DEFINE m == x - u
               n == U * W - P
    <3>1. m \in Int /\ n \in Int /\ m <= 0 /\ n <= 0
        BY <1>3, <1>5
    <3> HIDE DEF m, n
    <3>2. m * n >= 0
        BY <3>1, SignsAgree
    <3> QED BY <3>2 DEF m, n
  <2>2. p <= EndpointUpper(k, u)
      BY <2>1, EndCovers
  <2> QED BY <1>5, <2>2
<1>6. CASE /\ k.c # 0
           /\ IntervalUpper(k, l, u) = CeilDiv(k.a + k.b - 2 * ISqrt(k.a * k.b), k.c)
    BY <1>6, InteriorCovers
<1> QED BY <1>2, <1>4, <1>5, <1>6, IntervalFacts

\* A product is larger only with a larger factor.
LEMMA SquareBelow ==
  ASSUME NEW a \in Nat, NEW b \in Nat, NEW w \in Nat, b <= w, a * b >= w * w, a > b
  PROVE  w < a
<1> SUFFICES ASSUME a <= w PROVE FALSE
    OBVIOUS
<1>1. a * b <= w * b /\ w * b = b * w /\ b * w <= w * w
    BY Products
<1>2. a * b \in Nat /\ w * b \in Nat /\ w * w \in Nat
    BY Products
<1>3. w * b = w * w /\ a * b = w * b
    BY <1>1, <1>2
<1>4. CASE w = 0
    BY <1>4
<1>5. CASE w > 0
  <2>1. b = w
    <3>1. PICK d \in Nat : w = b + d
      <4>1. w - b \in Nat /\ w = b + (w - b)
          OBVIOUS
      <4> QED BY <4>1
    <3>2. w * w = w * b + w * d
        BY <3>1, Z3
    <3>3. w * d = 0
        BY <1>2, <1>3, <3>1, <3>2, Products
    <3>4. d = 0
        BY <1>5, <3>1, <3>3, Z3
    <3> QED BY <3>1, <3>4
  <2> QED BY <2>1
<1> QED BY <1>4, <1>5

\* Where there is an edge and an interval has a positive bound, so has every interval that
\* begins where it does and is no longer.
LEMMA PrefixIsPositive ==
  ASSUME NEW k \in CoefficientSet, k.a > k.b,
         NEW l \in Nat, NEW x \in Nat \ {0}, NEW u \in Nat, l <= x, x <= u,
         IntervalUpper(k, l, u) > 0
  PROVE  IntervalUpper(k, l, x) > 0
<1> DEFINE P == k.a * k.b
           V == Weight(k, l)
           W == Weight(k, x)
<1>1. /\ k.a \in Nat /\ k.b \in Nat /\ k.c \in Nat /\ V \in Nat \ {0} /\ W \in Nat \ {0}
      /\ W = k.b + k.c * x /\ Gain(k, x) \in Int
    BY WeightFacts
<1>2. P \in Nat /\ V * V \in Nat /\ W * W \in Nat /\ k.c * x \in Nat
    BY <1>1, Products
<1>3. l <= u
    OBVIOUS
<1>4. CASE P <= V * V
  <2>1. IntervalUpper(k, l, u) = EndpointUpper(k, l)
      BY <1>2, <1>3, <1>4, IntervalFacts
  <2>2. IntervalUpper(k, l, x) = EndpointUpper(k, l)
      BY <1>2, <1>4, IntervalFacts
  <2> QED BY <2>1, <2>2
<1>5. CASE P > V * V
  <2>1. CASE P >= W * W /\ IntervalUpper(k, l, x) = EndpointUpper(k, x)
    <3>1. k.b <= W
        BY <1>1, <1>2
    <3>2. W < k.a
        BY <1>1, <2>1, <3>1, SquareBelow
    <3>3. Gain(k, x) > 0
      <4> DEFINE d == k.a - W
      <4>1. d \in Nat \ {0} /\ Gain(k, x) = d * x
          BY <1>1, <3>2 DEF Gain
      <4> HIDE DEF d
      <4>2. d * x > 0
          BY <4>1, Z3
      <4> QED BY <4>1, <4>2
    <3>4. EndpointUpper(k, x) = CeilDiv(Gain(k, x), W)
      <4>1. EndpointUpper(k, x) = CeilDiv(k.a * x - x * W, W)
          BY DEF EndpointUpper, Weight
      <4>2. Gain(k, x) = (k.a - W) * x
          BY DEF Gain
      <4> HIDE DEF W
      <4>3. (k.a - W) * x = k.a * x - x * W
          BY <1>1, Z3
      <4> QED BY <4>1, <4>2, <4>3
    <3>5. CeilDiv(Gain(k, x), W) > 0
        BY <1>1, <3>3, CeilFacts
    <3> QED BY <2>1, <3>4, <3>5
  <2>2. CASE /\ k.c # 0
             /\ IntervalUpper(k, l, x) = CeilDiv(k.a + k.b - 2 * ISqrt(k.a * k.b), k.c)
      BY <2>2, InteriorPositive
  <2> QED BY <1>2, <1>5, <2>1, <2>2, IntervalFacts
<1> QED BY <1>2, <1>4, <1>5

\* What is capped at the widest word is the bound where the bound is smaller.
LEMMA GovernedFacts ==
  ASSUME NEW r, HopsOnly(r), Coefficients(r) \in CoefficientSet,
         NEW l \in Nat, NEW u \in Nat, l <= u
  PROVE  LET bound == IntervalUpper(Coefficients(r), l, u) IN
         /\ bound \in Int
         /\ GovernedUpper(r, l, u) = IF bound <= MaxUint THEN bound ELSE MaxUint
<1> DEFINE bound == IntervalUpper(Coefficients(r), l, u)
           S == {bound, MaxUint}
           least == IF bound <= MaxUint THEN bound ELSE MaxUint
<1>1. bound \in Int /\ MaxUint \in Int
    BY IntervalFacts, WidthAssumption
<1>2. GovernedUpper(r, l, u) = Minimum(S)
    BY DEF GovernedUpper
<1> HIDE DEF bound
<1>3. Minimum(S) = least
  <2>1. least \in S /\ \A n \in S : least <= n
      BY <1>1
  <2>2. \A m \in S : (\A n \in S : m <= n) => m = least
      BY <1>1
  <2> QED BY <2>1, <2>2 DEF Minimum
<1> QED BY <1>1, <1>2, <1>3 DEF bound

\* The exact profit of an input, times its weight, is at most the gain.
LEMMA ProfitFacts ==
  ASSUME NEW r, HopsOnly(r), NEW x \in Nat \ {0}, Quotes(r, x)
  PROVE  LET k == Coefficients(r)
             p == RouteOut(r, x) - x
         IN /\ k \in CoefficientSet /\ p \in Int /\ p <= MaxUint
            /\ p * Weight(k, x) <= Gain(k, x)
<1> DEFINE k == Coefficients(r)
           o == RouteOut(r, x)
           W == Weight(k, x)
<1>1. /\ k \in CoefficientSet /\ o \in Nat /\ o * (k.b + k.c * x) <= k.a * x
      /\ o <= x \/ o <= MaxUint
    BY RouteFacts
<1> HIDE DEF k, o
<1>2. /\ W \in Nat \ {0} /\ W = k.b + k.c * x /\ k.a \in Nat /\ Gain(k, x) = (k.a - W) * x
    BY <1>1, WeightFacts DEF Gain
<1>3. MaxUint \in Nat
    BY WidthAssumption
<1>4. (o - x) * W <= (k.a - W) * x
  <2> HIDE DEF W
  <2>1. (o - x) * W = o * W - x * W /\ (k.a - W) * x = k.a * x - x * W
      BY <1>1, <1>2, Z3
  <2>2. o * W \in Int /\ x * W \in Int /\ k.a * x \in Int /\ o * W <= k.a * x
      BY <1>1, <1>2
  <2> QED BY <2>1, <2>2
<1>5. o - x \in Int /\ o - x <= MaxUint
    BY <1>1, <1>3
<1> QED BY <1>1, <1>2, <1>4, <1>5 DEF k, o

\* Without an edge no input returns more than itself.
LEMMA NoEdgeNoProfit ==
  ASSUME NEW r, HopsOnly(r), NEW x \in Nat \ {0}, Quotes(r, x),
         ~(Coefficients(r).a > Coefficients(r).b)
  PROVE  RouteOut(r, x) - x <= 0
<1> DEFINE k == Coefficients(r)
           p == RouteOut(r, x) - x
           W == Weight(k, x)
<1>1. k \in CoefficientSet /\ p \in Int /\ p * W <= Gain(k, x)
    BY ProfitFacts
<1> HIDE DEF p
<1>2. ~(k.a > k.b)
    OBVIOUS
<1> HIDE DEF k
<1>3. /\ k.a \in Nat /\ k.b \in Nat /\ k.c \in Nat /\ W \in Nat \ {0} /\ W = k.b + k.c * x
      /\ Gain(k, x) = (k.a - W) * x /\ k.c * x \in Nat
    BY <1>1, WeightFacts, Products DEF Gain
<1>4. (k.a - W) * x <= 0
  <2> DEFINE d == W - k.a
  <2>1. d \in Nat /\ k.a - W = 0 - d
      BY <1>2, <1>3
  <2> HIDE DEF d
  <2>2. (0 - d) * x <= 0
      BY <2>1, Z3
  <2> QED BY <2>1, <2>2
<1>5. p * W <= 0 * W
  <2>1. 0 * W = 0 /\ p * W \in Int /\ (k.a - W) * x \in Int
      BY <1>1, <1>3
  <2> QED BY <1>1, <1>3, <1>4, <2>1
<1>6. p <= 0
    BY <1>1, <1>3, <1>5, CancelFactor
<1> QED BY <1>6 DEF p

\* What optimize_route needs of the arithmetic, which RouteOptimizer assumes
\* (BoundAssumption), holds of every route of governed hops, every requested input and every
\* word width: safe inputs quote, the governed bound of an interval is at least every exact
\* profit in it, a route without a continuous edge has no exact profit, and the bound stays
\* positive on the prefixes that the search splits off (opportunity_graph.py:184-202,
\* optimizer.py:_interval_continuous_upper).
THEOREM ArithmeticServesTheSearch ==
  ASSUME NEW r, HopsOnly(r), NEW requested \in Nat \ {0}
  PROVE  LET largest == MaximumSafeInput(r, requested)
             hasEdge == Coefficients(r).a > Coefficients(r).b
             profit(x) == RouteOut(r, x) - x
             bound(lower, upper) == GovernedUpper(r, lower, upper)
         IN /\ largest \in 0..requested
            /\ \A x \in 1..largest : profit(x) \in Int /\ (~hasEdge => profit(x) <= 0)
            /\ hasEdge =>
                 \A lower, upper \in 1..largest : lower <= upper =>
                   /\ bound(lower, upper) \in Int
                   /\ \A x \in lower..upper : profit(x) <= bound(lower, upper)
                   /\ \A x \in lower..upper : bound(lower, upper) > 0 => bound(lower, x) > 0
<1> DEFINE largest == MaximumSafeInput(r, requested)
           k == Coefficients(r)
           hasEdge == k.a > k.b
           profit(x) == RouteOut(r, x) - x
           bound(lower, upper) == GovernedUpper(r, lower, upper)
<1>1. largest \in 0..requested /\ \A x \in 1..largest : Quotes(r, x)
  <2>1. largest \in 0..requested /\ \A x \in 1..requested : x <= largest <=> Quotes(r, x)
      BY SafeInputIsLargest
  <2> HIDE DEF largest
  <2>2. 1..largest \subseteq 1..requested
      BY <2>1
  <2> QED BY <2>1, <2>2
<1> HIDE DEF largest
<1>2. ASSUME NEW x \in 1..largest
      PROVE  /\ x \in Nat \ {0} /\ k \in CoefficientSet /\ profit(x) \in Int /\ profit(x) <= MaxUint
             /\ profit(x) * Weight(k, x) <= Gain(k, x)
             /\ ~hasEdge => profit(x) <= 0
  <2>1. x \in Nat \ {0} /\ Quotes(r, x)
      BY <1>1
  <2>2. ~hasEdge => profit(x) <= 0
      BY <2>1, NoEdgeNoProfit
  <2> QED BY <2>1, <2>2, ProfitFacts
<1>3. ASSUME hasEdge, NEW lower \in 1..largest, NEW upper \in 1..largest, lower <= upper
      PROVE  /\ bound(lower, upper) \in Int
             /\ \A x \in lower..upper :
                  /\ profit(x) <= bound(lower, upper)
                  /\ bound(lower, upper) > 0 => bound(lower, x) > 0
  <2>1. lower \in Nat /\ upper \in Nat /\ k \in CoefficientSet /\ MaxUint \in Nat
      BY <1>2, WidthAssumption
  <2> DEFINE top == IntervalUpper(k, lower, upper)
  <2>2. top \in Int /\ bound(lower, upper) = IF top <= MaxUint THEN top ELSE MaxUint
      BY <1>3, <2>1, GovernedFacts
  <2>3. ASSUME NEW x \in lower..upper
        PROVE  profit(x) <= bound(lower, upper) /\ (bound(lower, upper) > 0 => bound(lower, x) > 0)
    <3>1. x \in 1..largest /\ x \in Nat \ {0} /\ lower <= x /\ x <= upper
        BY <1>1, <2>1
    <3> DEFINE front == IntervalUpper(k, lower, x)
               p == profit(x)
    <3>2. front \in Int /\ bound(lower, x) = IF front <= MaxUint THEN front ELSE MaxUint
        BY <2>1, <3>1, GovernedFacts
    <3>3. p \in Int /\ p <= MaxUint /\ p * Weight(k, x) <= Gain(k, x)
        BY <1>2, <3>1
    <3>4. k.a > k.b
        BY <1>3
    <3> HIDE DEF k, p
    <3>5. p <= top
        BY <2>1, <3>1, <3>3, IntervalCovers
    <3>6. top > 0 => front > 0
        BY <2>1, <3>1, <3>4, PrefixIsPositive
    <3> HIDE DEF top, front, bound
    <3>7. p <= bound(lower, upper)
        BY <2>1, <2>2, <3>3, <3>5
    <3>8. bound(lower, upper) > 0 => bound(lower, x) > 0
        BY <2>1, <2>2, <3>2, <3>6
    <3> QED BY <3>7, <3>8 DEF p
  <2> HIDE DEF top, bound, profit
  <2>4. bound(lower, upper) \in Int
      BY <2>1, <2>2
  <2> QED BY <2>3, <2>4
<1> HIDE DEF profit, bound, hasEdge
<1>4. \A x \in 1..largest : profit(x) \in Int /\ (~hasEdge => profit(x) <= 0)
    BY <1>2
<1>5. hasEdge =>
        \A lower, upper \in 1..largest : lower <= upper =>
          /\ bound(lower, upper) \in Int
          /\ \A x \in lower..upper : profit(x) <= bound(lower, upper)
          /\ \A x \in lower..upper : bound(lower, upper) > 0 => bound(lower, x) > 0
    BY <1>3
<1> QED BY <1>1, <1>4, <1>5 DEF largest, profit, bound, hasEdge
=============================================================================
