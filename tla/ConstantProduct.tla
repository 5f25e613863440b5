--------------------------- MODULE ConstantProduct ---------------------------
(***************************************************************************)
(* Exact constant-product arithmetic (constant_product.py) along one       *)
(* route (opportunity_graph.py), and the optimizer's continuous bound      *)
(* (optimizer.py).                                                         *)
(*                                                                         *)
(* A hop is a pool taken in one direction, as the universe authenticated   *)
(* it: its reserves, the packed capacity of the input reserve and its fee  *)
(* multiplier.  A route is a sequence of hops; that they use distinct      *)
(* pools and close a token cycle does not enter the arithmetic.            *)
(***************************************************************************)
EXTENDS Integers, Sequences

CONSTANT MaxUint   \* MAX_UINT256

ASSUME WidthAssumption == MaxUint \in Nat

\* A pool in one direction.  The fee multiplier is below one.
IsHop(h) ==
  /\ h.capacity \in Nat /\ h.reserveIn \in 1..h.capacity /\ h.reserveOut \in Nat \ {0}
  /\ h.feeDenominator \in Nat /\ h.feeNumerator \in 1..(h.feeDenominator - 1)

\* What stands for a ConstantProductArithmeticError.
Raises == -1

Minimum(S) == CHOOSE m \in S : \A n \in S : m <= n

\* AuthenticatedConstantProductPool.maximum_safe_input: the input that neither
\* the packed reserve nor a checked product or sum of the quote can exceed.
HopMaximum(h) ==
  LET reserveTerm == h.reserveIn * h.feeDenominator IN
  IF reserveTerm > MaxUint THEN Raises
  ELSE Minimum({h.capacity - h.reserveIn,
                MaxUint \div h.feeNumerator,
                (MaxUint - reserveTerm) \div h.feeNumerator,
                (MaxUint \div h.reserveOut) \div h.feeNumerator})

\* AuthenticatedConstantProductPool.quote_exact_in: the floor of the swap.
HopOut(h, amount) ==
  IF amount = Raises \/ amount > HopMaximum(h) THEN Raises
  ELSE (amount * h.feeNumerator * h.reserveOut)
         \div (h.reserveIn * h.feeDenominator + amount * h.feeNumerator)

\* ConstantProductRoute.quote_exact_in: every hop's output is the next input.
RouteOut(route, amount) ==
  LET After[n \in 0..Len(route)] ==
        IF n = 0 THEN amount ELSE HopOut(route[n], After[n - 1])
  IN After[Len(route)]

Quotes(route, amount) == RouteOut(route, amount) # Raises

MaximumSafeInput_SkipsTop(route, requested) ==
  LET Search[i \in (1..requested) \X (0..requested)] ==
        LET middle == (i[1] + i[2] + 1) \div 2 IN
        IF i[1] >= i[2] THEN i[1]
        ELSE IF Quotes(route, middle) THEN Search[<<middle, i[2] - 1>>]
        ELSE Search[<<i[1], middle - 1>>]
  IN IF requested = 0 \/ ~Quotes(route, 1) THEN 0 ELSE Search[<<1, requested>>]

\* ConstantProductRoute.maximum_safe_input: a binary search for the largest
\* input that quotes, which supposes that smaller inputs quote too.  The pair is
\* (lower, upper).
MaximumSafeInput(route, requested) ==
  LET Search[i \in (1..requested) \X (0..requested)] ==
        LET middle == (i[1] + i[2] + 1) \div 2 IN
        IF i[1] >= i[2] THEN i[1]
        ELSE IF Quotes(route, middle) THEN Search[<<middle, i[2]>>]
        ELSE Search[<<i[1], middle - 1>>]
  IN IF requested = 0 \/ ~Quotes(route, 1) THEN 0 ELSE Search[<<1, requested>>]

\* The coefficients of a hop after those of the hops before it.
Compose(k, h) ==
  LET legA == h.feeNumerator * h.reserveOut
      legB == h.feeDenominator * h.reserveIn
  IN [a |-> legA * k.a, b |-> legB * k.b, c |-> legB * k.c + h.feeNumerator * k.a]

\* ConstantProductRoute.continuous_coefficients: A, B, C of A*x / (B + C*x),
\* the composition without floors.
Coefficients(route) ==
  LET After[n \in 0..Len(route)] ==
        IF n = 0 THEN [a |-> 1, b |-> 1, c |-> 0] ELSE Compose(After[n - 1], route[n])
  IN After[Len(route)]

CeilDiv(numerator, denominator) == -((-numerator) \div denominator)

\* math.isqrt, two binary digits of its argument at a time
ISqrt(n) ==
  LET Root[m \in 0..n] ==
        LET doubled == 2 * Root[m \div 4] IN
        IF m = 0 THEN 0
        ELSE IF (doubled + 1) * (doubled + 1) <= m THEN doubled + 1 ELSE doubled
  IN Root[n]

EndpointUpper(k, value) ==
  LET denominator == k.b + k.c * value
  IN CeilDiv(k.a * value - value * denominator, denominator)

\* _interval_continuous_upper: where the concave profit A*x/(B+C*x) - x peaks
\* decides between the lower end, the upper end and the interior maximum, whose
\* root is rounded down so that the bound is rounded up.
IntervalUpper(k, lower, upper) ==
  LET ab == k.a * k.b
      lowerDenominator == k.b + k.c * lower
      upperDenominator == k.b + k.c * upper
  IN IF ab <= lowerDenominator * lowerDenominator THEN EndpointUpper(k, lower)
     ELSE IF ab >= upperDenominator * upperDenominator THEN EndpointUpper(k, upper)
     ELSE CeilDiv(k.a + k.b - 2 * ISqrt(ab), k.c)

\* _governed_interval_continuous_upper
GovernedUpper(route, lower, upper) ==
  Minimum({IntervalUpper(Coefficients(route), lower, upper), MaxUint})
=============================================================================
