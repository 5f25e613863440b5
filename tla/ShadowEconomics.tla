-------------------------- MODULE ShadowEconomics --------------------------
(***************************************************************************)
(* The arithmetic of a shadow decision and of its settlement: costs        *)
(* converted into the base token (assets.py, cost_evidence.py), the        *)
(* assessment of profit.py, the floors that evm_abi.py derives from it and *)
(* the surplus that historical_scoreboard.py measures.                     *)
(*                                                                         *)
(* The figures of an attempt are a record t:                               *)
(*   principal, output   what the route takes and is expected to return    *)
(*   fee, reserve        flash-loan fee and the sum of the five reserve    *)
(*                       components, in the base token                     *)
(*   gas, l1, operator, bid   upper bounds in the native asset             *)
(*   rate                [num, den], native to base, rounded upwards       *)
(*   minimum, returnBps, bidBps, maxAge   the profit policy                *)
(*   slippageBps, horizon   the execution constraints                      *)
(*   balance             native balance of the sender                      *)
(*   healthy, allowed    chain health, answer of the risk budget           *)
(***************************************************************************)
EXTENDS Integers

CONSTANTS BasisPoints,   \* 10000 in the code
          MaxUint        \* 2^256 - 1 in the code

ASSUME EconomicsAssumption == /\ BasisPoints \in Nat \ {0}
                              /\ MaxUint \in Nat

(* A conversion rate, the figures of an attempt and what its receipt says. *)
Rate == [num : Nat \ {0}, den : Nat \ {0}]

Figures == [principal : Nat \ {0}, output : Nat, fee : Nat, reserve : Nat, gas : Nat,
            l1 : Nat, operator : Nat, bid : Nat, rate : Rate, minimum : Nat,
            returnBps : Nat, bidBps : 0 .. BasisPoints, maxAge : Nat,
            slippageBps : 0 .. BasisPoints, horizon : Nat \ {0}, balance : Nat,
            healthy : BOOLEAN, allowed : BOOLEAN]

Receipt == [success : BOOLEAN, event : BOOLEAN, output : Nat, gas : Nat, l1 : Nat,
            operator : Nat, direct : Nat]

CeilDiv(a, b) == a \div b + (IF a % b = 0 THEN 0 ELSE 1)

Larger(a, b) == IF a < b THEN b ELSE a

Fits(x) == x <= MaxUint

(* A conversion that rounds down. *)
Convert_Down(x, rate) == (x * rate.num) \div rate.den

Convert(x, rate) == CeilDiv(x * rate.num, rate.den)

-----------------------------------------------------------------------------
(* Costs and assessment. *)

NativeBound(t) == t.gas + t.l1 + t.operator + t.bid

(* What is paid outside the route: gas, rollup fees and the bid. *)
ExternalCost(t) == Convert(t.gas, t.rate) + Convert(t.l1, t.rate)
                     + Convert(t.operator, t.rate) + Convert(t.bid, t.rate)

TotalCost(t) == ExternalCost(t) + t.fee + t.reserve

(* The arithmetic of the cost envelope stays within uint256. *)
Priced(t) ==
    /\ Fits(NativeBound(t))
    /\ \A x \in {t.gas, t.l1, t.operator, t.bid} : Fits(x * t.rate.num)
    /\ Fits(TotalCost(t))

GrossProfit(t) == t.output - t.principal

SurplusBeforeBid(t) == GrossProfit(t) - (TotalCost(t) - Convert(t.bid, t.rate))

NetProfit(t) == GrossProfit(t) - TotalCost(t)

(* The grounds of refusal that are not about money. *)
ContextReasons(t, age) ==
    (IF ~t.healthy THEN {"chain-unhealthy"} ELSE {})
      \cup (IF age > t.maxAge THEN {"state-too-old"} ELSE {})
      \cup (IF ~t.allowed THEN {"risk-budget-unavailable"} ELSE {})

BidExceedsPolicy(t) ==
    t.bidBps * Larger(SurplusBeforeBid(t), 0) < Convert(t.bid, t.rate) * BasisPoints

(* The required return is compared with what remains before the bid. *)
Reasons_ReturnBeforeBid(t, age) ==
    ContextReasons(t, age)
      \cup (IF GrossProfit(t) <= 0 THEN {"non-positive-gross-profit"} ELSE {})
      \cup (IF BidExceedsPolicy(t) THEN {"bid-exceeds-policy"} ELSE {})
      \cup (IF NetProfit(t) < t.minimum THEN {"below-absolute-minimum"} ELSE {})
      \cup (IF SurplusBeforeBid(t) * BasisPoints < t.principal * t.returnBps
            THEN {"below-required-return"} ELSE {})

(* The grounds on which a decision at that age of the state is refused. *)
Reasons(t, age) ==
    ContextReasons(t, age)
      \cup (IF GrossProfit(t) <= 0 THEN {"non-positive-gross-profit"} ELSE {})
      \cup (IF BidExceedsPolicy(t) THEN {"bid-exceeds-policy"} ELSE {})
      \cup (IF NetProfit(t) < t.minimum THEN {"below-absolute-minimum"} ELSE {})
      \cup (IF NetProfit(t) * BasisPoints < t.principal * t.returnBps
            THEN {"below-required-return"} ELSE {})

-----------------------------------------------------------------------------
(* The floors written into the call. *)

RequiredProfit(t) == Larger(t.minimum, CeilDiv(t.principal * t.returnBps, BasisPoints))

(* A floor that leaves out the bid. *)
EconomicFloor_WithoutBid(t) ==
    t.principal + TotalCost(t) - Convert(t.bid, t.rate) + RequiredProfit(t)

EconomicFloor(t) == t.principal + TotalCost(t) + RequiredProfit(t)

SlippageFloor(t) == CeilDiv(t.output * (BasisPoints - t.slippageBps), BasisPoints)

MinimumFinal(t) == Larger(EconomicFloor(t), SlippageFloor(t))

(* The products the floors are computed from stay within uint256. *)
FloorProductsFit(t) == /\ Fits(t.principal * t.returnBps)
                       /\ Fits(t.output * (BasisPoints - t.slippageBps))

-----------------------------------------------------------------------------
(* What was really paid and earned, by the record r of a receipt. *)

NativePaid(r) == r.gas + r.l1 + r.operator + r.direct

Residual(output, t) == output - t.principal - t.fee

BoundsRespected(r, t) == /\ r.gas <= t.gas
                         /\ r.l1 <= t.l1
                         /\ r.operator <= t.operator
                         /\ r.direct <= t.bid
                         /\ NativePaid(r) <= NativeBound(t)

ActualExternal(r, rate) == Convert(NativePaid(r), rate)

Surplus(r, rate, t) == Residual(r.output, t) - ActualExternal(r, rate) - t.reserve

=============================================================================
