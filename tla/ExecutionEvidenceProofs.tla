---------------------- MODULE ExecutionEvidenceProofs ----------------------
(***************************************************************************)
(* Proofs about the chain of evidence, for every set of episodes, figures, *)
(* windows and widths.                                                     *)
(***************************************************************************)
EXTENDS ExecutionEvidence, TLAPS

(* Rounding up: the quotient covers the dividend and is the least to do so. *)
LEMMA CeilDivCovers ==
    ASSUME NEW a \in Nat, NEW b \in Nat \ {0}
    PROVE  /\ CeilDiv(a, b) \in Nat
           /\ a <= CeilDiv(a, b) * b
  <1> DEFINE q == a \div b
             m == a % b
  <1>1. q \in Int /\ m \in 0 .. (b - 1) /\ a = b * q + m
    BY Z3
  <1>2. q >= 0
    BY <1>1, Z3
  <1>3. CASE m = 0
    BY <1>1, <1>2, <1>3, Z3 DEF CeilDiv
  <1>4. CASE m # 0
    BY <1>1, <1>2, <1>4, Z3 DEF CeilDiv
  <1> QED BY <1>3, <1>4

\* CeilDiv rounds no further than it must: any n that covers a covers CeilDiv(a, b).
LEMMA CeilDivIsLeast ==
    ASSUME NEW a \in Nat, NEW b \in Nat \ {0}, NEW n \in Int, a <= n * b
    PROVE  CeilDiv(a, b) <= n
  <1> DEFINE q == a \div b
             m == a % b
  <1>1. q \in Int /\ m \in 0 .. (b - 1) /\ a = b * q + m
    BY Z3
  <1>2. CASE m = 0
    <2>1. b * q <= n * b
      BY <1>1, <1>2
    <2> QED BY <1>1, <1>2, <2>1, Z3 DEF CeilDiv
  <1>3. CASE m # 0
    <2>1. b * q < n * b
      BY <1>1, <1>3
    <2> QED BY <1>1, <1>3, <2>1, Z3 DEF CeilDiv
  <1> QED BY <1>2, <1>3

(* A converted amount is a natural number. *)
LEMMA ConvertType ==
    ASSUME NEW x \in Nat, NEW rate \in Rate
    PROVE  Convert(x, rate) \in Nat /\ x * rate.num <= Convert(x, rate) * rate.den
  <1>1. x * rate.num \in Nat /\ rate.den \in Nat \ {0}
    BY DEF Rate
  <1> QED BY <1>1, CeilDivCovers DEF Convert

\* On well-typed figures every cost and floor of the shadow arithmetic is a natural;
\* only the net profit, the output less what is spent, may be negative.
LEMMA CostsAreNatural ==
    ASSUME NEW t \in Figures
    PROVE  /\ ExternalCost(t) \in Nat /\ TotalCost(t) \in Nat
           /\ NetProfit(t) \in Int /\ NetProfit(t) = t.output - t.principal - TotalCost(t)
           /\ RequiredProfit(t) \in Nat /\ EconomicFloor(t) \in Nat
  <1>1. /\ t.gas \in Nat /\ t.l1 \in Nat /\ t.operator \in Nat /\ t.bid \in Nat
        /\ t.rate \in Rate /\ t.fee \in Nat /\ t.reserve \in Nat /\ t.output \in Nat
        /\ t.principal \in Nat /\ t.minimum \in Nat /\ t.returnBps \in Nat
    BY DEF Figures
  <1>2. /\ Convert(t.gas, t.rate) \in Nat /\ Convert(t.l1, t.rate) \in Nat
        /\ Convert(t.operator, t.rate) \in Nat /\ Convert(t.bid, t.rate) \in Nat
    BY <1>1, ConvertType
  <1>3. ExternalCost(t) \in Nat
    BY <1>2 DEF ExternalCost
  <1>4. TotalCost(t) \in Nat
    BY <1>1, <1>3 DEF TotalCost
  <1>5. t.principal * t.returnBps \in Nat
    BY <1>1
  <1>6. CeilDiv(t.principal * t.returnBps, BasisPoints) \in Nat
    BY <1>5, CeilDivCovers, EconomicsAssumption
  <1>7. RequiredProfit(t) \in Nat
    BY <1>1, <1>6 DEF RequiredProfit, Larger
  <1> QED BY <1>1, <1>3, <1>4, <1>7 DEF NetProfit, GrossProfit, EconomicFloor

(* A decision without a ground of refusal leaves room for both floors. *)
LEMMA ApprovalLeavesRoom ==
    ASSUME NEW t \in Figures, NEW age, Reasons(t, age) = {}
    PROVE  MinimumFinal(t) <= t.output /\ EconomicFloor(t) <= t.output
  <1> DEFINE return == t.principal * t.returnBps
             cut == t.output * (BasisPoints - t.slippageBps)
  <1>1. /\ t.principal \in Nat /\ t.output \in Nat /\ t.minimum \in Nat
        /\ t.returnBps \in Nat /\ t.slippageBps \in 0 .. BasisPoints
        /\ BasisPoints \in Nat \ {0}
    BY EconomicsAssumption DEF Figures
  <1>2. /\ t.minimum <= NetProfit(t) \/ ~(NetProfit(t) \in Int)
        /\ return <= NetProfit(t) * BasisPoints \/ ~(NetProfit(t) \in Int)
    <2>1. ~(NetProfit(t) < t.minimum) /\ ~(NetProfit(t) * BasisPoints < return)
      BY Zenon DEF Reasons
    <2> HIDE DEF return
    <2>2. return \in Nat
      BY <1>1 DEF return
    <2> QED BY <1>1, <2>1, <2>2
  <1>3. NetProfit(t) \in Int /\ TotalCost(t) \in Nat
    BY CostsAreNatural
  <1>4. return \in Nat
    BY <1>1
  <1>5. CeilDiv(return, BasisPoints) <= NetProfit(t) /\ CeilDiv(return, BasisPoints) \in Nat
    BY <1>1, <1>2, <1>3, <1>4, CeilDivIsLeast, CeilDivCovers
  <1>6. RequiredProfit(t) <= NetProfit(t) /\ RequiredProfit(t) \in Nat
    BY <1>1, <1>2, <1>3, <1>5 DEF RequiredProfit, Larger
  <1>7. EconomicFloor(t) <= t.output /\ EconomicFloor(t) \in Nat
    BY <1>1, <1>3, <1>6, CostsAreNatural DEF EconomicFloor
  <1>8. cut \in Nat /\ cut <= t.output * BasisPoints
    <2>1. BasisPoints - t.slippageBps \in Nat /\ BasisPoints - t.slippageBps <= BasisPoints
      BY <1>1
    <2> QED BY <1>1, <2>1, Z3
  <1>9. SlippageFloor(t) <= t.output /\ SlippageFloor(t) \in Nat
    BY <1>1, <1>8, CeilDivIsLeast, CeilDivCovers DEF SlippageFloor
  <1> QED BY <1>7, <1>9 DEF MinimumFinal, Larger

(* An output at or above the demanded minimum pays every cost and reserve  *)
(* and the required profit, when what was paid outside stays within what   *)
(* was predicted.                                                          *)
LEMMA MinimumPaysThePolicy ==
    ASSUME NEW t \in Figures, NEW r \in Receipt, NEW rate \in Rate,
           MinimumFinal(t) <= r.output,
           ActualExternal(r, rate) <= ExternalCost(t)
    PROVE  RequiredProfit(t) <= Surplus(r, rate, t)
  <1>1. /\ t.principal \in Nat /\ t.fee \in Nat /\ t.reserve \in Nat /\ r.output \in Nat
    BY DEF Figures, Receipt
  <1>2. ExternalCost(t) \in Nat /\ RequiredProfit(t) \in Nat /\ EconomicFloor(t) \in Nat
    BY CostsAreNatural
  <1>3. NativePaid(r) \in Nat
    BY DEF NativePaid, Receipt
  <1>4. ActualExternal(r, rate) \in Nat
    BY <1>3, ConvertType DEF ActualExternal
  <1>5. SlippageFloor(t) \in Nat
    <2>1. t.output \in Nat /\ BasisPoints - t.slippageBps \in Nat /\ BasisPoints \in Nat \ {0}
      BY EconomicsAssumption DEF Figures
    <2>2. t.output * (BasisPoints - t.slippageBps) \in Nat
      BY <2>1
    <2> QED BY <2>1, <2>2, CeilDivCovers DEF SlippageFloor
  <1>6. EconomicFloor(t) <= r.output
    BY <1>1, <1>2, <1>5 DEF MinimumFinal, Larger
  <1>7. t.principal + (ExternalCost(t) + t.fee + t.reserve) + RequiredProfit(t) <= r.output
    BY <1>6 DEF EconomicFloor, TotalCost
  <1> QED BY <1>1, <1>2, <1>4, <1>7 DEF Surplus, Residual

(* Converting the sum at a rate no higher costs at most the sum of the     *)
(* conversions, each rounded up.                                           *)
LEMMA OneConversionIsCheaper ==
    ASSUME NEW t \in Figures, NEW r \in Receipt, NEW rate \in Rate,
           NativePaid(r) <= NativeBound(t),
           rate.num * t.rate.den <= t.rate.num * rate.den
    PROVE  ActualExternal(r, rate) <= ExternalCost(t)
  <1> DEFINE paid == NativePaid(r)
             bound == NativeBound(t)
             n == t.rate.num
             d == t.rate.den
             m == rate.num
             e == rate.den
             C == ExternalCost(t)
  <1>1. /\ t.gas \in Nat /\ t.l1 \in Nat /\ t.operator \in Nat /\ t.bid \in Nat /\ t.rate \in Rate
        /\ n \in Nat /\ d \in Nat \ {0} /\ m \in Nat /\ e \in Nat \ {0}
    BY DEF Figures, Rate
  <1>2. paid \in Nat /\ bound \in Nat
    BY <1>1 DEF NativePaid, NativeBound, Receipt
  <1>3. C \in Nat
    BY CostsAreNatural
  <1>4. bound * n <= C * d
    <2> DEFINE g == Convert(t.gas, t.rate)
               l == Convert(t.l1, t.rate)
               o == Convert(t.operator, t.rate)
               b == Convert(t.bid, t.rate)
    <2>1. /\ g \in Nat /\ t.gas * n <= g * d /\ l \in Nat /\ t.l1 * n <= l * d
          /\ o \in Nat /\ t.operator * n <= o * d /\ b \in Nat /\ t.bid * n <= b * d
      BY <1>1, ConvertType
    <2>2. C = g + l + o + b
      BY DEF ExternalCost
    <2>3. bound = t.gas + t.l1 + t.operator + t.bid
      BY DEF NativeBound
    <2> HIDE DEF g, l, o, b, n, d, C, bound
    <2>4. bound * n = t.gas * n + t.l1 * n + t.operator * n + t.bid * n
      BY <1>1, <2>3, Z3
    <2>5. C * d = g * d + l * d + o * d + b * d
      BY <1>1, <2>1, <2>2, Z3
    <2>6. /\ t.gas * n \in Int /\ t.l1 * n \in Int /\ t.operator * n \in Int /\ t.bid * n \in Int
          /\ g * d \in Int /\ l * d \in Int /\ o * d \in Int /\ b * d \in Int
      BY <1>1, <2>1
    <2> QED BY <2>1, <2>4, <2>5, <2>6
  <1>5. paid <= bound /\ m * d <= n * e
    OBVIOUS
  <1> HIDE DEF paid, bound, n, d, m, e, C
  <1>6. paid * n <= C * d
    <2>1. paid * n <= bound * n /\ paid * n \in Nat /\ bound * n \in Nat /\ C * d \in Nat
      BY <1>1, <1>2, <1>3, <1>5
    <2> QED BY <1>4, <2>1
  <1>7. paid * m <= C * e
    <2>1. paid * (m * d) <= paid * (n * e)
      <3>1. m * d \in Nat /\ n * e \in Nat
        BY <1>1
      <3> QED BY <1>2, <1>5, <3>1, Z3
    <2>2. (paid * n) * e <= (C * d) * e
      <3>1. paid * n \in Nat /\ C * d \in Nat
        BY <1>1, <1>2, <1>3
      <3> QED BY <1>1, <1>6, <3>1, Z3
    <2>3. (paid * m) * d <= (C * e) * d
      <3>1. paid * (m * d) = (paid * m) * d /\ paid * (n * e) = (paid * n) * e
        BY <1>1, <1>2, Z3
      <3>2. (C * d) * e = (C * e) * d
        BY <1>1, <1>3, Z3
      <3>3. (paid * m) * d \in Int /\ (paid * n) * e \in Int /\ (C * e) * d \in Int
        BY <1>1, <1>2, <1>3
      <3> QED BY <2>1, <2>2, <3>1, <3>2, <3>3
    <2>4. paid * m \in Nat /\ C * e \in Nat
      BY <1>1, <1>2, <1>3
    <2> QED BY <1>1, <2>3, <2>4, Z3
  <1>8. paid * m \in Nat
    BY <1>1, <1>2
  <1>9. CeilDiv(paid * m, e) <= C
    BY <1>1, <1>3, <1>7, <1>8, CeilDivIsLeast
  <1> QED BY <1>9 DEF ActualExternal, Convert, paid, m, e, C

(* Without a shortfall and with such a conversion the surplus is at least  *)
(* the predicted profit.                                                   *)
LEMMA PreservedFloorIsSurplus ==
    ASSUME NEW t \in Figures, NEW r \in Receipt, NEW rate \in Rate,
           BoundsRespected(r, t),
           Residual(t.output, t) <= Residual(r.output, t),
           rate.num * t.rate.den <= t.rate.num * rate.den
    PROVE  /\ ActualExternal(r, rate) <= ExternalCost(t)
           /\ NetProfit(t) <= Surplus(r, rate, t)
  <1>1. NativePaid(r) <= NativeBound(t)
    BY DEF BoundsRespected
  <1>2. ActualExternal(r, rate) <= ExternalCost(t)
    BY <1>1, OneConversionIsCheaper
  <1>3. NativePaid(r) \in Nat
    BY DEF NativePaid, Receipt
  <1>4. ActualExternal(r, rate) \in Nat /\ ExternalCost(t) \in Nat
    BY <1>3, ConvertType, CostsAreNatural DEF ActualExternal
  <1>5. /\ t.principal \in Nat /\ t.fee \in Nat /\ t.reserve \in Nat
        /\ t.output \in Nat /\ r.output \in Nat
    BY DEF Figures, Receipt
  <1>6. NetProfit(t) = t.output - t.principal - (ExternalCost(t) + t.fee + t.reserve)
    BY DEF NetProfit, GrossProfit, TotalCost
  <1>7. NetProfit(t) <= Surplus(r, rate, t)
    BY <1>2, <1>4, <1>5, <1>6 DEF Surplus, Residual
  <1> QED BY <1>2, <1>7

-----------------------------------------------------------------------------
(* The times of the pipeline. *)

\* Smallest, the min() of the constructors, is a lower bound of the four it is given.
LEMMA SmallestOfFour ==
    ASSUME NEW a \in Nat, NEW b \in Nat, NEW c \in Nat, NEW d \in Nat
    PROVE  LET m == Smallest({a, b, c, d}) IN
             m \in Nat /\ m <= a /\ m <= b /\ m <= c /\ m <= d
  <1>1. \E x \in {a, b, c, d} : \A y \in {a, b, c, d} : x <= y
    OBVIOUS
  <1>2. /\ Smallest({a, b, c, d}) \in {a, b, c, d}
        /\ \A y \in {a, b, c, d} : Smallest({a, b, c, d}) <= y
    BY <1>1 DEF Smallest
  <1> QED BY <1>2

\* Smallest of a pair, from the case of four.
LEMMA SmallestOfTwo ==
    ASSUME NEW a \in Nat, NEW b \in Nat
    PROVE  LET m == Smallest({a, b}) IN m \in Nat /\ m <= a /\ m <= b
  <1>1. {a, b} = {a, b, b, b}
    OBVIOUS
  <1> QED BY <1>1, SmallestOfFour

(* What holds of the artefacts that have been built. *)
Sound(a) ==
    /\ made[a] \in [created : Times, until : Nat]
    /\ \A b \in Wraps[a] : Built(b)
    /\ \A i \in Binding[a] : Created(a) <= Expiry(i) /\ Until(a) <= Expiry(i)

PipelineInv ==
    /\ episode \in Episodes
    /\ made = [a \in Artefacts |-> made[a]]
    /\ \A a \in Artefacts : Built(a) => Sound(a)
    /\ Built("call") => Until("call") <= Created("call") + terms.horizon

\* The inputs, terms and receipts of an episode have the types the assumptions give.
LEMMA InputTypes ==
    ASSUME episode \in Episodes
    PROVE  /\ \A i \in Inputs : inputs[i].observed \in Nat /\ inputs[i].until \in Nat
           /\ FreshUntil \in Nat
           /\ \A i \in Inputs : Expiry(i) \in Nat
           /\ terms \in Figures /\ terms.horizon \in Nat /\ Fits(terms.output)
           /\ Receipts[episode] \subseteq Receipt /\ Rates[episode] \subseteq Rate
           /\ Times \subseteq Nat
  <1>1. \A i \in Inputs : inputs[i] \in [observed : Nat, until : Nat]
    BY PipelineAssumption DEF inputs
  <1>2. FreshUntil \in Nat
    BY <1>1, PipelineAssumption DEF FreshUntil, Inputs
  <1>3. terms \in Figures /\ terms.horizon \in Nat /\ Fits(terms.output)
    BY PipelineAssumption DEF terms, Figures
  <1> QED BY <1>1, <1>2, <1>3, PipelineAssumption DEF Expiry, Times

(* Building one artefact keeps the others as they were. *)
LEMMA MakeKeeps ==
    ASSUME PipelineInv,
           NEW a \in Artefacts, NEW t \in Times, NEW u \in Nat,
           ~Built(a),
           \A b \in Wraps[a] : Built(b),
           \A i \in Binding[a] : t <= Expiry(i) /\ u <= Expiry(i),
           a = "call" => u <= t + terms.horizon,
           Make(a, t, u)
    PROVE  PipelineInv'
  <1>1. /\ made' = [made EXCEPT ![a] = [created |-> t, until |-> u]]
        /\ episode' = episode /\ inputs' = inputs /\ terms' = terms
    BY DEF Make, inputs, terms
  <1>2. \A c \in Artefacts : made'[c] = IF c = a THEN [created |-> t, until |-> u] ELSE made[c]
    BY <1>1 DEF PipelineInv
  <1>3. made'[a] # Absent /\ made'[a] \in [created : Times, until : Nat]
    <2>1. [created |-> t, until |-> u] \in [created : Times, until : Nat]
      OBVIOUS
    <2>2. [created |-> t, until |-> u] \in [created : Nat, until : Nat]
      BY PipelineAssumption DEF Times
    <2> QED BY <1>2, <2>1, <2>2, PipelineAssumption
  <1>4. \A c \in Artefacts : Built(c) => Built(c)'
    BY <1>2, <1>3 DEF Built
  <1>5. \A i : Expiry(i)' = Expiry(i)
    BY <1>1 DEF Expiry, FreshUntil
  <1>6. \A c \in Artefacts : Wraps[c] \subseteq Artefacts
    BY DEF Artefacts, Wraps
  <1>7. ASSUME NEW c \in Artefacts, Built(c)' PROVE Sound(c)'
    <2>1. CASE c = a
      <3>1. \A b \in Wraps[c] : Built(b)'
        BY <1>4, <1>6, <2>1
      <3>2. Created(c)' = t /\ Until(c)' = u
        BY <1>2, <2>1 DEF Created, Until
      <3> QED BY <1>3, <1>5, <2>1, <3>1, <3>2 DEF Sound
    <2>2. CASE c # a
      <3>1. made'[c] = made[c] /\ Sound(c)
        BY <1>2, <1>7, <2>2 DEF Built, PipelineInv
      <3>2. \A b \in Wraps[c] : Built(b)'
        BY <1>4, <1>6, <3>1 DEF Sound
      <3> QED BY <1>5, <3>1, <3>2 DEF Sound, Created, Until
    <2> QED BY <2>1, <2>2
  <1>8. Built("call")' => Until("call")' <= Created("call")' + terms'.horizon
    <2>0. "call" \in Artefacts
      BY DEF Artefacts
    <2>1. CASE a = "call"
      BY <1>1, <1>2, <2>0, <2>1 DEF Created, Until
    <2>2. CASE a # "call"
      BY <1>1, <1>2, <2>0, <2>2 DEF Created, Until, Built, PipelineInv
    <2> QED BY <2>1, <2>2
  <1>9. made' = [c \in Artefacts |-> made'[c]]
    BY <1>1 DEF PipelineInv
  <1> QED BY <1>1, <1>7, <1>8, <1>9 DEF PipelineInv

(* What a built artefact hands on to those that wrap it. *)
LEMMA BuiltIsSound ==
    ASSUME PipelineInv, NEW a \in Artefacts, Built(a)
    PROVE  /\ Created(a) \in Times /\ Until(a) \in Nat
           /\ \A b \in Wraps[a] : Built(b)
           /\ \A i \in Binding[a] : Until(a) <= Expiry(i)
           /\ episode \in Episodes
  <1>1. Sound(a) /\ episode \in Episodes
    BY DEF PipelineInv
  <1> QED BY <1>1 DEF Sound, Created, Until

(* Building in F4 keeps the invariant. *)
LEMMA PlanKeeps ==
    ASSUME PipelineInv, NEW t \in Times, BuildPlan(t)
    PROVE  PipelineInv'
  <1>1. episode \in Episodes /\ "plan" \in Artefacts
    BY DEF PipelineInv, Artefacts
  <1>2. inputs["funding"].until \in Nat /\ Expiry("funding") = inputs["funding"].until
    BY <1>1, InputTypes DEF Inputs, Expiry
  <1>3. Wraps["plan"] = {} /\ Binding["plan"] = {"funding"}
    BY DEF Wraps, Binding
  <1>4. /\ ~Built("plan") /\ Make("plan", t, inputs["funding"].until)
        /\ t <= inputs["funding"].until
    BY DEF BuildPlan, ValidAt
  <1>5. inputs["funding"].until <= Expiry("funding")
    BY <1>2
  <1> QED BY <1>1, <1>2, <1>3, <1>4, <1>5, MakeKeeps

\* The funding envelope takes the smallest expiry of its inputs.
LEMMA EnvelopeKeeps ==
    ASSUME PipelineInv, NEW t \in Times, BuildEnvelope(t)
    PROVE  PipelineInv'
  <1> DEFINE u == Smallest({inputs[i].until : i \in EnvelopeInputs})
  <1>1. episode \in Episodes /\ "envelope" \in Artefacts
    BY DEF PipelineInv, Artefacts
  <1>2. \A i \in EnvelopeInputs : inputs[i].until \in Nat /\ Expiry(i) = inputs[i].until
    BY <1>1, InputTypes DEF Inputs, Expiry, EnvelopeInputs
  <1>3. {inputs[i].until : i \in EnvelopeInputs}
          = {inputs["funding"].until, inputs["fee"].until,
             inputs["reserve"].until, inputs["rate"].until}
    BY DEF EnvelopeInputs
  <1>4. u \in Nat /\ \A i \in EnvelopeInputs : u <= Expiry(i)
    <2> DEFINE v(i) == inputs[i].until
    <2>1. /\ v("funding") \in Nat /\ v("fee") \in Nat /\ v("reserve") \in Nat /\ v("rate") \in Nat
          /\ \A i \in EnvelopeInputs : Expiry(i) = v(i)
      BY <1>2 DEF EnvelopeInputs
    <2>2. u = Smallest({v("funding"), v("fee"), v("reserve"), v("rate")})
      BY <1>3
    <2> HIDE DEF u, v
    <2>3. u \in Nat /\ u <= v("funding") /\ u <= v("fee") /\ u <= v("reserve") /\ u <= v("rate")
      BY <2>1, <2>2, SmallestOfFour
    <2> QED BY <2>1, <2>3 DEF EnvelopeInputs
  <1>5. Wraps["envelope"] = {"plan"} /\ Binding["envelope"] = EnvelopeInputs
    BY DEF Wraps, Binding
  <1>6. /\ ~Built("envelope") /\ Built("plan") /\ Make("envelope", t, u)
        /\ \A i \in EnvelopeInputs : t <= Expiry(i)
    BY <1>2 DEF BuildEnvelope, ValidAt
  <1> QED BY <1>1, <1>4, <1>5, <1>6, MakeKeeps

\* The net evaluation outlives neither its envelope nor its three further inputs.
LEMMA NetKeeps ==
    ASSUME PipelineInv, NEW t \in Times, BuildNet(t)
    PROVE  PipelineInv'
  <1>1. episode \in Episodes /\ "net" \in Artefacts /\ "envelope" \in Artefacts
    BY DEF PipelineInv, Artefacts
  <1>2. \A i \in F4Inputs : inputs[i].until \in Nat /\ Expiry(i) = inputs[i].until
    BY <1>1, InputTypes DEF Inputs, Expiry, EnvelopeInputs, F4Inputs
  <1>3. {Until("envelope")} \cup {inputs[i].until : i \in {"routeSims", "health", "risk"}}
          = {Until("envelope"), inputs["routeSims"].until, inputs["health"].until,
             inputs["risk"].until}
    OBVIOUS
  <1>4. Built("envelope")
    BY DEF BuildNet
  <1>5. Until("envelope") \in Nat /\ \A i \in EnvelopeInputs : Until("envelope") <= Expiry(i)
    BY <1>1, <1>4, BuiltIsSound DEF Binding
  <1>6. /\ NetUntil \in Nat /\ NetUntil <= Until("envelope")
        /\ \A i \in {"routeSims", "health", "risk"} : NetUntil <= Expiry(i)
    <2> DEFINE v(i) == inputs[i].until
               e == Until("envelope")
    <2>1. /\ v("routeSims") \in Nat /\ v("health") \in Nat /\ v("risk") \in Nat /\ e \in Nat
          /\ \A i \in F4Inputs : Expiry(i) = v(i)
      BY <1>2, <1>5 DEF F4Inputs
    <2>2. NetUntil = Smallest({e, v("routeSims"), v("health"), v("risk")})
      BY <1>3 DEF NetUntil
    <2> HIDE DEF e, v
    <2>3. /\ NetUntil \in Nat /\ NetUntil <= e /\ NetUntil <= v("routeSims")
          /\ NetUntil <= v("health") /\ NetUntil <= v("risk")
      BY <2>1, <2>2, SmallestOfFour
    <2> QED BY <2>1, <2>3 DEF F4Inputs, e
  <1>7. \A i \in EnvelopeInputs : Expiry(i) \in Nat
    BY <1>2 DEF F4Inputs
  <1>8. \A i \in F4Inputs : NetUntil <= Expiry(i)
    BY <1>5, <1>6, <1>7 DEF F4Inputs
  <1>9. Wraps["net"] = {"envelope"} /\ Binding["net"] = F4Inputs
    BY DEF Wraps, Binding
  <1>10. ~Built("net") /\ Make("net", t, NetUntil) /\ \A i \in F4Inputs : t <= Expiry(i)
    BY <1>2 DEF BuildNet, ValidAt, F4Inputs
  <1> QED BY <1>1, <1>4, <1>6, <1>8, <1>9, <1>10, MakeKeeps

(* Building in F5 keeps the invariant. *)
LEMMA CallKeeps ==
    ASSUME PipelineInv, NEW t \in Times, BuildCall(t)
    PROVE  PipelineInv'
  <1>1. episode \in Episodes /\ "call" \in Artefacts /\ "net" \in Artefacts
    BY DEF PipelineInv, Artefacts
  <1>2. /\ ~Built("call") /\ Built("net") /\ Make("call", t, CallUntil(t)) /\ t <= Until("net")
    BY DEF BuildCall
  <1>3. Until("net") \in Nat /\ \A i \in F4Inputs : Until("net") <= Expiry(i)
    BY <1>1, <1>2, BuiltIsSound DEF Binding
  <1>4. t \in Nat /\ t + terms.horizon \in Nat /\ \A i \in F4Inputs : Expiry(i) \in Nat
    BY <1>1, InputTypes DEF F4Inputs, EnvelopeInputs, Inputs
  <1>5. /\ CallUntil(t) \in Nat /\ CallUntil(t) <= Until("net")
        /\ CallUntil(t) <= t + terms.horizon
    BY <1>3, <1>4, SmallestOfTwo DEF CallUntil
  <1>6. \A i \in F4Inputs : t <= Expiry(i) /\ CallUntil(t) <= Expiry(i)
    BY <1>2, <1>3, <1>4, <1>5
  <1>7. Wraps["call"] = {"net"} /\ Binding["call"] = F4Inputs
    BY DEF Wraps, Binding
  <1> QED BY <1>1, <1>2, <1>5, <1>6, <1>7, MakeKeeps

\* The unsigned transaction outlives neither the call it wraps nor the net evaluation.
LEMMA TransactionKeeps ==
    ASSUME PipelineInv, NEW t \in Times, BuildTransaction(t)
    PROVE  PipelineInv'
  <1> DEFINE u == Smallest({Until("net"), Until("call")})
  <1>1. /\ episode \in Episodes /\ "call" \in Artefacts /\ "net" \in Artefacts
        /\ "transaction" \in Artefacts
    BY DEF PipelineInv, Artefacts
  <1>2. ~Built("transaction") /\ Built("call") /\ Make("transaction", t, u) /\ t <= u
    BY DEF BuildTransaction
  <1>3. Built("net")
    BY <1>1, <1>2, BuiltIsSound DEF Wraps
  <1>4. /\ Until("net") \in Nat /\ Until("call") \in Nat
        /\ \A i \in F4Inputs : Until("call") <= Expiry(i)
    BY <1>1, <1>2, <1>3, BuiltIsSound DEF Binding
  <1>5. t \in Nat /\ \A i \in F4Inputs : Expiry(i) \in Nat
    BY <1>1, InputTypes DEF F4Inputs, EnvelopeInputs, Inputs
  <1>6. u \in Nat /\ u <= Until("call")
    BY <1>4, SmallestOfTwo
  <1>7. \A i \in F4Inputs : t <= Expiry(i) /\ u <= Expiry(i)
    BY <1>2, <1>4, <1>5, <1>6
  <1>8. Wraps["transaction"] = {"call"} /\ Binding["transaction"] = F4Inputs
    BY DEF Wraps, Binding
  <1> HIDE DEF u
  <1> QED BY <1>1, <1>2, <1>6, <1>7, <1>8, MakeKeeps

\* The bundle outlives neither its transaction nor the freshness of its anchor.
LEMMA BundleKeeps ==
    ASSUME PipelineInv, NEW t \in Times, BuildBundle(t)
    PROVE  PipelineInv'
  <1> DEFINE u == Smallest({FreshUntil, Until("transaction")})
             w == F4Inputs \cup {"anchor"}
  <1>1. episode \in Episodes /\ "transaction" \in Artefacts /\ "bundle" \in Artefacts
    BY DEF PipelineInv, Artefacts
  <1>2. /\ ~Built("bundle") /\ Built("transaction") /\ Make("bundle", t, u)
        /\ t <= FreshUntil /\ t <= Until("transaction")
    BY DEF BuildBundle
  <1>3. /\ Until("transaction") \in Nat
        /\ \A i \in F4Inputs : Until("transaction") <= Expiry(i)
    BY <1>1, <1>2, BuiltIsSound DEF Binding
  <1>4. /\ t \in Nat /\ FreshUntil \in Nat /\ \A i \in w : Expiry(i) \in Nat
        /\ Expiry("anchor") = FreshUntil
    BY <1>1, InputTypes DEF F4Inputs, EnvelopeInputs, Inputs, Expiry
  <1>5. u \in Nat /\ u <= FreshUntil /\ u <= Until("transaction")
    BY <1>3, <1>4, SmallestOfTwo
  <1>6. \A i \in w : t <= Expiry(i) /\ u <= Expiry(i)
    BY <1>2, <1>3, <1>4, <1>5
  <1>7. Wraps["bundle"] = {"transaction"} /\ Binding["bundle"] = w
    BY DEF Wraps, Binding
  <1> HIDE DEF u, w
  <1> QED BY <1>1, <1>2, <1>5, <1>6, <1>7, MakeKeeps

\* The package outlives neither its bundle nor its transaction simulations.
LEMMA PackageKeeps ==
    ASSUME PipelineInv, NEW t \in Times, BuildPackage(t)
    PROVE  PipelineInv'
  <1> DEFINE u == Smallest({Until("bundle"), inputs["txSims"].until})
             w == F4Inputs \cup {"anchor", "txSims"}
  <1>1. episode \in Episodes /\ "package" \in Artefacts /\ "bundle" \in Artefacts
    BY DEF PipelineInv, Artefacts
  <1>2. /\ ~Built("package") /\ Built("bundle") /\ Make("package", t, u)
        /\ t <= Until("bundle") /\ t <= inputs["txSims"].until
    BY DEF BuildPackage, ValidAt
  <1>3. /\ Until("bundle") \in Nat
        /\ \A i \in F4Inputs \cup {"anchor"} : Until("bundle") <= Expiry(i)
    BY <1>1, <1>2, BuiltIsSound DEF Binding
  <1>4. /\ t \in Nat /\ inputs["txSims"].until \in Nat /\ \A i \in w : Expiry(i) \in Nat
        /\ Expiry("txSims") = inputs["txSims"].until
    BY <1>1, InputTypes DEF F4Inputs, EnvelopeInputs, Inputs, Expiry
  <1>5. u \in Nat /\ u <= inputs["txSims"].until /\ u <= Until("bundle")
    BY <1>3, <1>4, SmallestOfTwo
  <1>6. \A i \in w : t <= Expiry(i) /\ u <= Expiry(i)
    BY <1>2, <1>3, <1>4, <1>5
  <1>7. Wraps["package"] = {"bundle"} /\ Binding["package"] = w
    BY DEF Wraps, Binding
  <1> HIDE DEF u, w
  <1> QED BY <1>1, <1>2, <1>5, <1>6, <1>7, MakeKeeps

(* Signing and wrapping in F6 keeps the invariant. *)
LEMMA SignTransactionKeeps ==
    ASSUME PipelineInv, NEW t \in Times, SignTransaction(t)
    PROVE  PipelineInv'
  <1>1. /\ episode \in Episodes /\ "transaction" \in Artefacts
        /\ "signedTransaction" \in Artefacts
    BY DEF PipelineInv, Artefacts
  <1>2. /\ ~Built("signedTransaction") /\ Built("transaction")
        /\ Make("signedTransaction", t, Until("transaction")) /\ t <= Until("transaction")
    BY DEF SignTransaction
  <1>3. /\ Until("transaction") \in Nat
        /\ \A i \in F4Inputs : Until("transaction") <= Expiry(i)
    BY <1>1, <1>2, BuiltIsSound DEF Binding
  <1>4. t \in Nat /\ \A i \in F4Inputs : Expiry(i) \in Nat
    BY <1>1, InputTypes DEF F4Inputs, EnvelopeInputs, Inputs
  <1>5. \A i \in F4Inputs : t <= Expiry(i)
    BY <1>2, <1>3, <1>4
  <1>6. Wraps["signedTransaction"] = {"transaction"} /\ Binding["signedTransaction"] = F4Inputs
    BY DEF Wraps, Binding
  <1> QED BY <1>1, <1>2, <1>3, <1>5, <1>6, MakeKeeps

\* The signed bundle outlives neither the bundle nor the signed transaction.
LEMMA SignBundleKeeps ==
    ASSUME PipelineInv, NEW t \in Times, SignBundle(t)
    PROVE  PipelineInv'
  <1> DEFINE u == Smallest({Until("bundle"), Until("signedTransaction")})
             w == F4Inputs \cup {"anchor"}
  <1>1. /\ episode \in Episodes /\ "bundle" \in Artefacts
        /\ "signedTransaction" \in Artefacts /\ "signedBundle" \in Artefacts
    BY DEF PipelineInv, Artefacts
  <1>2. /\ ~Built("signedBundle") /\ Built("bundle") /\ Built("signedTransaction")
        /\ Make("signedBundle", t, u) /\ t <= Until("bundle")
    BY DEF SignBundle
  <1>3. /\ Until("bundle") \in Nat /\ Until("signedTransaction") \in Nat
        /\ \A i \in w : Until("bundle") <= Expiry(i)
    BY <1>1, <1>2, BuiltIsSound DEF Binding
  <1>4. t \in Nat /\ \A i \in w : Expiry(i) \in Nat
    BY <1>1, InputTypes DEF F4Inputs, EnvelopeInputs, Inputs
  <1>5. u \in Nat /\ u <= Until("bundle")
    BY <1>3, SmallestOfTwo
  <1>6. \A i \in w : t <= Expiry(i) /\ u <= Expiry(i)
    BY <1>2, <1>3, <1>4, <1>5
  <1>7. Wraps["signedBundle"] = {"signedTransaction", "bundle"} /\ Binding["signedBundle"] = w
    BY DEF Wraps, Binding
  <1> HIDE DEF u, w
  <1> QED BY <1>1, <1>2, <1>5, <1>6, <1>7, MakeKeeps

\* The request lives exactly as long as the signed bundle it carries.
LEMMA RequestKeeps ==
    ASSUME PipelineInv, NEW t \in Times, BuildRequest(t)
    PROVE  PipelineInv'
  <1> DEFINE w == F4Inputs \cup {"anchor"}
  <1>1. /\ episode \in Episodes /\ "signedBundle" \in Artefacts /\ "request" \in Artefacts
    BY DEF PipelineInv, Artefacts
  <1>2. /\ ~Built("request") /\ Built("signedBundle")
        /\ Make("request", t, Until("signedBundle")) /\ t <= Until("signedBundle")
    BY DEF BuildRequest
  <1>3. /\ Until("signedBundle") \in Nat
        /\ \A i \in w : Until("signedBundle") <= Expiry(i)
    BY <1>1, <1>2, BuiltIsSound DEF Binding
  <1>4. t \in Nat /\ \A i \in w : Expiry(i) \in Nat
    BY <1>1, InputTypes DEF F4Inputs, EnvelopeInputs, Inputs
  <1>5. \A i \in w : t <= Expiry(i)
    BY <1>2, <1>3, <1>4
  <1>6. Wraps["request"] = {"signedBundle"} /\ Binding["request"] = w
    BY DEF Wraps, Binding
  <1> HIDE DEF w
  <1> QED BY <1>1, <1>2, <1>3, <1>5, <1>6, MakeKeeps

\* The signed package outlives none of its four parts.
LEMMA SignedPackageKeeps ==
    ASSUME PipelineInv, NEW t \in Times, BuildSignedPackage(t)
    PROVE  PipelineInv'
  <1> DEFINE parts == {"package", "signedTransaction", "signedBundle", "request"}
             u == Smallest({Until(a) : a \in parts})
             w == F4Inputs \cup {"anchor", "txSims"}
  <1>1. episode \in Episodes /\ parts \subseteq Artefacts /\ "signedPackage" \in Artefacts
    BY DEF PipelineInv, Artefacts
  <1>2. /\ ~Built("signedPackage") /\ Built("package") /\ Built("request")
        /\ Make("signedPackage", t, u) /\ t <= u
    BY DEF BuildSignedPackage
  <1>3. Built("signedBundle")
    BY <1>1, <1>2, BuiltIsSound DEF Wraps
  <1>4. Built("signedTransaction")
    BY <1>1, <1>3, BuiltIsSound DEF Wraps
  <1>5. /\ Until("package") \in Nat /\ Until("request") \in Nat
        /\ Until("signedBundle") \in Nat /\ Until("signedTransaction") \in Nat
        /\ \A i \in w : Until("package") <= Expiry(i)
    BY <1>1, <1>2, <1>3, <1>4, BuiltIsSound DEF Binding
  <1>6. t \in Nat /\ \A i \in w : Expiry(i) \in Nat
    BY <1>1, InputTypes DEF F4Inputs, EnvelopeInputs, Inputs
  <1>7. u \in Nat /\ u <= Until("package")
    <2>1. {Until(a) : a \in parts}
            = {Until("package"), Until("signedTransaction"), Until("signedBundle"), Until("request")}
      OBVIOUS
    <2> QED BY <1>5, <2>1, SmallestOfFour
  <1>8. \A i \in w : t <= Expiry(i) /\ u <= Expiry(i)
    BY <1>2, <1>5, <1>6, <1>7
  <1>9. Wraps["signedPackage"] = {"package", "request"} /\ Binding["signedPackage"] = w
    BY DEF Wraps, Binding
  <1> HIDE DEF u, w, parts
  <1> QED BY <1>1, <1>2, <1>7, <1>8, <1>9, MakeKeeps

(* Every other step leaves the artefacts alone. *)
LEMMA OthersKeep ==
    ASSUME PipelineInv, UNCHANGED <<episode, made>>
    PROVE  PipelineInv'
  BY DEF PipelineInv, Sound, Built, Created, Until, Expiry, FreshUntil, inputs, terms

\* Every step of the pipeline keeps its invariant: one case per constructor above.
LEMMA PipelineStep ==
    ASSUME PipelineInv, [Next]_vars
    PROVE  PipelineInv'
  <1>1. ASSUME NEW t \in Times,
               \/ BuildPlan(t) \/ BuildEnvelope(t) \/ BuildNet(t)
               \/ BuildCall(t) \/ BuildTransaction(t) \/ BuildBundle(t) \/ BuildPackage(t)
        PROVE  PipelineInv'
    BY <1>1, PlanKeeps, EnvelopeKeeps, NetKeeps, CallKeeps, TransactionKeeps, BundleKeeps,
       PackageKeeps
  <1>2. ASSUME NEW t \in Times,
               \/ SignTransaction(t) \/ SignBundle(t) \/ BuildRequest(t)
               \/ BuildSignedPackage(t)
        PROVE  PipelineInv'
    BY <1>2, SignTransactionKeeps, SignBundleKeeps, RequestKeeps, SignedPackageKeeps
  <1>3. ASSUME NEW t \in Times, RecordResponse(t) PROVE PipelineInv'
    BY <1>3, OthersKeep DEF RecordResponse
  <1>4. ASSUME NEW b \in Times, NEW r \in Receipts[episode], Include(b, r) PROVE PipelineInv'
    BY <1>4, OthersKeep DEF Include
  <1>5. CASE RealizeOutcome
    BY <1>5, OthersKeep DEF RealizeOutcome
  <1>6. ASSUME NEW rate \in Rates[episode], RecordHistory(rate) PROVE PipelineInv'
    BY <1>6, OthersKeep DEF RecordHistory
  <1>7. CASE UNCHANGED vars
    BY <1>7, OthersKeep DEF vars
  <1> QED BY <1>1, <1>2, <1>3, <1>4, <1>5, <1>6, <1>7 DEF Next

\* Nothing is built at first: the pipeline invariant holds.
LEMMA PipelineInit ==
    ASSUME Init
    PROVE  PipelineInv
  <1>1. \A a \in Artefacts : ~Built(a)
    BY DEF Init, Built
  <1>2. "call" \in Artefacts
    BY DEF Artefacts
  <1> QED BY <1>1, <1>2 DEF Init, PipelineInv

(* However the constructors are called, what they publish is bounded by    *)
(* every input that lies below: the minima taken stage by stage            *)
(* (inputs_valid_until, valid_until) amount to the minimum over all.       *)
THEOREM ExpiryAddsUp == Spec => []ExpiryIsTransitive
  <1>1. PipelineInv => ExpiryIsTransitive
    BY DEF PipelineInv, Sound, ExpiryIsTransitive
  <1> QED BY <1>1, PipelineInit, PipelineStep, PTL DEF Spec

(* A call can be made of every approved decision: the required return of   *)
(* profit.py and the floors of evm_abi.py never exclude each other.        *)
THEOREM ApprovalsAreCallable == Spec => []ApprovalIsCallable
  <1>1. PipelineInv => ApprovalIsCallable
    <2> SUFFICES ASSUME PipelineInv, Approved
                 PROVE  MinimumFinal(terms) <= terms.output /\ Fits(EconomicFloor(terms))
      BY DEF ApprovalIsCallable
    <2>1. terms \in Figures /\ Fits(terms.output)
      BY InputTypes DEF PipelineInv
    <2>2. MinimumFinal(terms) <= terms.output /\ EconomicFloor(terms) <= terms.output
      BY <2>1, ApprovalLeavesRoom DEF Approved
    <2>3. EconomicFloor(terms) \in Nat /\ terms.output \in Nat
      BY <2>1, CostsAreNatural DEF Figures
    <2> QED BY <2>1, <2>2, <2>3, EconomicsAssumption DEF Fits
  <1> QED BY <1>1, PipelineInit, PipelineStep, PTL DEF Spec

-----------------------------------------------------------------------------
(* The order of creation.  Each constructor compares its time with what it *)
(* wraps and takes directly; the comparisons compose over all the stages.  *)

(* The signed package wraps the unsigned one without comparing the times. *)
Uncompared(a) == IF a = "signedPackage" THEN {"package"} ELSE {}

(* What the constructor of a itself establishes. *)
Ordered(a) ==
    /\ \A b \in Wraps[a] \ Uncompared(a) : Created(b) <= Created(a)
    /\ \A i \in Takes[a] : inputs[i].observed <= Created(a)

OrderInv ==
    /\ PipelineInv
    /\ \A a \in Artefacts : Built(a) => Ordered(a)
    /\ Built("signedPackage") => \A r \in responses : r <= Created("signedPackage")

(* An artefact that follows all it compares itself with joins the order. *)
LEMMA MakeKeepsOrder ==
    ASSUME OrderInv, PipelineInv',
           NEW a \in Artefacts, NEW t \in Times, NEW u,
           ~Built(a),
           \A b \in Wraps[a] : Built(b),
           \A b \in Wraps[a] \ Uncompared(a) : Created(b) <= t,
           \A i \in Takes[a] : inputs[i].observed <= t,
           a = "signedPackage" => \A r \in responses : r <= t,
           Make(a, t, u)
    PROVE  OrderInv'
  <1>1. /\ made' = [made EXCEPT ![a] = [created |-> t, until |-> u]]
        /\ inputs' = inputs /\ responses' = responses
    BY DEF Make, inputs
  <1>2. \A c \in Artefacts : made'[c] = IF c = a THEN [created |-> t, until |-> u] ELSE made[c]
    BY <1>1 DEF OrderInv, PipelineInv
  <1>3. Created(a)' = t
    BY <1>2 DEF Created
  <1>4. \A c \in Artefacts : c # a => made'[c] = made[c] /\ Created(c)' = Created(c)
    BY <1>2 DEF Created
  <1>5. ASSUME NEW c \in Artefacts, Built(c)' PROVE Ordered(c)'
    <2>1. CASE c = a
      <3>1. \A b \in Wraps[a] : b \in Artefacts /\ b # a
        BY <1>5 DEF Artefacts, Wraps, Built
      <3>2. \A b \in Wraps[a] \ Uncompared(a) : Created(b)' <= t
        BY <1>4, <3>1
      <3> QED BY <1>1, <1>3, <2>1, <3>2 DEF Ordered
    <2>2. CASE c # a
      <3>1. Built(c) /\ Ordered(c)
        BY <1>4, <1>5, <2>2 DEF Built, OrderInv
      <3>2. \A b \in Wraps[c] : Built(b) /\ b \in Artefacts
        BY <3>1, BuiltIsSound DEF OrderInv, Artefacts, Wraps
      <3>3. \A b \in Wraps[c] : Created(b)' = Created(b)
        BY <1>4, <3>2
      <3> QED BY <1>1, <1>4, <2>2, <3>1, <3>3 DEF Ordered
    <2> QED BY <2>1, <2>2
  <1>6. Built("signedPackage")' => \A r \in responses' : r <= Created("signedPackage")'
    <2>1. "signedPackage" \in Artefacts
      BY DEF Artefacts
    <2>2. CASE a = "signedPackage"
      BY <1>1, <1>3, <2>2
    <2>3. CASE a # "signedPackage"
      BY <1>1, <1>4, <2>1, <2>3 DEF Built, OrderInv
    <2> QED BY <2>2, <2>3
  <1> QED BY <1>5, <1>6 DEF OrderInv

\* Steps that build nothing and record no answer leave the order as it is.
LEMMA OrderFrame ==
    ASSUME OrderInv, PipelineInv', UNCHANGED <<episode, made, responses>>
    PROVE  OrderInv'
  BY DEF OrderInv, Ordered, Built, Created, inputs

\* What an artefact wraps was created at some time, and after what it was made of.
LEMMA TimesOfBuilt ==
    ASSUME OrderInv, NEW a \in Artefacts, Built(a)
    PROVE  /\ Created(a) \in Nat /\ Ordered(a)
           /\ \A b \in Wraps[a] : b \in Artefacts /\ Built(b)
           /\ \A i \in Takes[a] : inputs[i].observed \in Nat
  <1>1. Created(a) \in Times /\ Ordered(a) /\ \A b \in Wraps[a] : Built(b)
    BY BuiltIsSound DEF OrderInv
  <1>2. Times \subseteq Nat /\ \A i \in Inputs : inputs[i].observed \in Nat
    BY InputTypes DEF OrderInv, PipelineInv
  <1>3. Wraps[a] \subseteq Artefacts /\ Takes[a] \subseteq Inputs
    BY DEF Artefacts, Wraps, Takes, Inputs, Unlimited
  <1> QED BY <1>1, <1>2, <1>3

\* The F4 constructors compare with what they wrap and with the evidence they take.
LEMMA DecisionKeepsOrder ==
    ASSUME OrderInv, PipelineInv', NEW t \in Times,
           BuildPlan(t) \/ BuildEnvelope(t) \/ BuildNet(t)
    PROVE  OrderInv'
  <1>1. {"plan", "envelope", "net"} \subseteq Artefacts
    BY DEF Artefacts
  <1>2. CASE BuildPlan(t)
    <2>1. /\ ~Built("plan") /\ Make("plan", t, inputs["funding"].until)
          /\ inputs["opportunity"].observed <= t /\ inputs["funding"].observed <= t
      BY <1>2 DEF BuildPlan, ValidAt
    <2>2. Wraps["plan"] = {} /\ Takes["plan"] = {"opportunity", "funding"}
      BY DEF Wraps, Takes
    <2> QED BY <1>1, <2>1, <2>2, MakeKeepsOrder
  <1>3. CASE BuildEnvelope(t)
    <2>1. /\ ~Built("envelope") /\ Built("plan") /\ Created("plan") <= t
          /\ Make("envelope", t, Smallest({inputs[i].until : i \in EnvelopeInputs}))
      BY <1>3 DEF BuildEnvelope
    <2>2. Wraps["envelope"] = {"plan"} /\ Takes["envelope"] = {"fee", "reserve", "rate"}
      BY DEF Wraps, Takes
    <2>3. \A i \in Takes["envelope"] : inputs[i].observed <= t
      BY <1>3, <2>2 DEF BuildEnvelope, ValidAt, EnvelopeInputs
    <2> HIDE DEF EnvelopeInputs
    <2> QED BY <1>1, <2>1, <2>2, <2>3, MakeKeepsOrder
  <1>4. CASE BuildNet(t)
    <2>1. /\ ~Built("net") /\ Built("envelope") /\ Created("envelope") <= t
          /\ Make("net", t, NetUntil)
      BY <1>4 DEF BuildNet
    <2>2. Wraps["net"] = {"envelope"} /\ Takes["net"] = {"routeSims", "health", "risk", "anchor"}
      BY DEF Wraps, Takes
    <2>3. \A i \in Takes["net"] : inputs[i].observed <= t
      BY <1>4, <2>2 DEF BuildNet, ValidAt
    <2> QED BY <1>1, <2>1, <2>2, <2>3, MakeKeepsOrder
  <1> QED BY <1>2, <1>3, <1>4

\* So do the F5 constructors.
LEMMA ExecutionKeepsOrder ==
    ASSUME OrderInv, PipelineInv', NEW t \in Times,
           BuildCall(t) \/ BuildTransaction(t) \/ BuildBundle(t) \/ BuildPackage(t)
    PROVE  OrderInv'
  <1>1. {"call", "transaction", "bundle", "package"} \subseteq Artefacts
    BY DEF Artefacts
  <1>2. CASE BuildCall(t)
    <2>1. /\ ~Built("call") /\ Built("net") /\ Created("net") <= t
          /\ Make("call", t, CallUntil(t)) /\ inputs["executor"].observed <= t
      BY <1>2 DEF BuildCall
    <2>2. Wraps["call"] = {"net"} /\ Takes["call"] = {"executor"}
      BY DEF Wraps, Takes
    <2> QED BY <1>1, <2>1, <2>2, MakeKeepsOrder
  <1>3. CASE BuildTransaction(t)
    <2>1. /\ ~Built("transaction") /\ Built("call") /\ Created("call") <= t
          /\ Make("transaction", t, Smallest({Until("net"), Until("call")}))
          /\ inputs["sender"].observed <= t
      BY <1>3 DEF BuildTransaction
    <2>2. Wraps["transaction"] = {"call"} /\ Takes["transaction"] = {"sender"}
      BY DEF Wraps, Takes
    <2> QED BY <1>1, <2>1, <2>2, MakeKeepsOrder
  <1>4. CASE BuildBundle(t)
    <2>1. /\ ~Built("bundle") /\ Built("transaction") /\ Created("transaction") <= t
          /\ Make("bundle", t, Smallest({FreshUntil, Until("transaction")}))
      BY <1>4 DEF BuildBundle
    <2>2. Wraps["bundle"] = {"transaction"} /\ Takes["bundle"] = {}
      BY DEF Wraps, Takes
    <2> QED BY <1>1, <2>1, <2>2, MakeKeepsOrder
  <1>5. CASE BuildPackage(t)
    <2>1. /\ ~Built("package") /\ Built("bundle") /\ Created("bundle") <= t
          /\ Make("package", t, Smallest({Until("bundle"), inputs["txSims"].until}))
          /\ inputs["txSims"].observed <= t
      BY <1>5 DEF BuildPackage, ValidAt
    <2>2. Wraps["package"] = {"bundle"} /\ Takes["package"] = {"txSims"}
      BY DEF Wraps, Takes
    <2> QED BY <1>1, <2>1, <2>2, MakeKeepsOrder
  <1> QED BY <1>2, <1>3, <1>4, <1>5

\* And those of F6, where two branches meet again in the signed bundle.
LEMMA SigningKeepsOrder ==
    ASSUME OrderInv, PipelineInv', NEW t \in Times,
           SignTransaction(t) \/ SignBundle(t) \/ BuildRequest(t) \/ BuildSignedPackage(t)
    PROVE  OrderInv'
  <1>1. {"signedTransaction", "signedBundle", "request", "signedPackage"} \subseteq Artefacts
    BY DEF Artefacts
  <1>2. CASE SignTransaction(t)
    <2>1. /\ ~Built("signedTransaction") /\ Built("transaction") /\ Created("transaction") <= t
          /\ Make("signedTransaction", t, Until("transaction"))
      BY <1>2 DEF SignTransaction
    <2>2. Wraps["signedTransaction"] = {"transaction"} /\ Takes["signedTransaction"] = {}
      BY DEF Wraps, Takes
    <2> QED BY <1>1, <2>1, <2>2, MakeKeepsOrder
  <1>3. CASE SignBundle(t)
    <2>1. /\ ~Built("signedBundle") /\ Built("bundle") /\ Built("signedTransaction")
          /\ Created("signedTransaction") <= t /\ Created("bundle") <= t
          /\ Make("signedBundle", t, Smallest({Until("bundle"), Until("signedTransaction")}))
      BY <1>3 DEF SignBundle
    <2>2. Wraps["signedBundle"] = {"signedTransaction", "bundle"} /\ Takes["signedBundle"] = {}
      BY DEF Wraps, Takes
    <2> QED BY <1>1, <2>1, <2>2, MakeKeepsOrder
  <1>4. CASE BuildRequest(t)
    <2>1. /\ ~Built("request") /\ Built("signedBundle") /\ Created("signedBundle") <= t
          /\ Make("request", t, Until("signedBundle"))
      BY <1>4 DEF BuildRequest
    <2>2. Wraps["request"] = {"signedBundle"} /\ Takes["request"] = {}
      BY DEF Wraps, Takes
    <2> QED BY <1>1, <2>1, <2>2, MakeKeepsOrder
  <1>5. CASE BuildSignedPackage(t)
    <2> DEFINE u == Smallest({Until(a) :
                      a \in {"package", "signedTransaction", "signedBundle", "request"}})
    <2>1. /\ ~Built("signedPackage") /\ Built("package") /\ Built("request")
          /\ Created("request") <= t /\ \A r \in responses : r <= t
          /\ Make("signedPackage", t, u)
      BY <1>5 DEF BuildSignedPackage
    <2>2. /\ Wraps["signedPackage"] = {"package", "request"} /\ Takes["signedPackage"] = {}
          /\ Wraps["signedPackage"] \ Uncompared("signedPackage") = {"request"}
      BY DEF Wraps, Takes, Uncompared
    <2> HIDE DEF u
    <2> QED BY <1>1, <2>1, <2>2, MakeKeepsOrder
  <1> QED BY <1>2, <1>3, <1>4, <1>5

\* An answer is recorded only before the signed package is built, never after it.
LEMMA ResponseKeepsOrder ==
    ASSUME OrderInv, PipelineInv', NEW t \in Times, RecordResponse(t)
    PROVE  OrderInv'
  <1>1. UNCHANGED <<episode, made>> /\ ~Built("signedPackage")
    BY DEF RecordResponse
  <1> QED BY <1>1 DEF OrderInv, Ordered, Built, Created, inputs

\* Every step keeps the order of creation.
LEMMA OrderStep ==
    ASSUME OrderInv, [Next]_vars
    PROVE  OrderInv'
  <1>1. PipelineInv'
    BY PipelineStep DEF OrderInv
  <1>2. ASSUME NEW t \in Times,
               \/ BuildPlan(t) \/ BuildEnvelope(t) \/ BuildNet(t)
               \/ BuildCall(t) \/ BuildTransaction(t) \/ BuildBundle(t) \/ BuildPackage(t)
               \/ SignTransaction(t) \/ SignBundle(t) \/ BuildRequest(t)
               \/ RecordResponse(t) \/ BuildSignedPackage(t)
        PROVE  OrderInv'
    BY <1>1, <1>2, DecisionKeepsOrder, ExecutionKeepsOrder, SigningKeepsOrder, ResponseKeepsOrder
  <1>3. ASSUME NEW b \in Times, NEW r \in Receipts[episode], Include(b, r) PROVE OrderInv'
    BY <1>1, <1>3, OrderFrame DEF Include
  <1>4. CASE RealizeOutcome
    BY <1>1, <1>4, OrderFrame DEF RealizeOutcome
  <1>5. ASSUME NEW rate \in Rates[episode], RecordHistory(rate) PROVE OrderInv'
    BY <1>1, <1>5, OrderFrame DEF RecordHistory
  <1>6. CASE UNCHANGED vars
    BY <1>1, <1>6, OrderFrame DEF vars
  <1> QED BY <1>2, <1>3, <1>4, <1>5, <1>6 DEF Next

(* What lies under an artefact: itself and what lies under what it wraps.  *)
(* The recursion has a solution since the artefacts are built in stages.   *)
LEMMA UnderUnfolds ==
    ASSUME NEW a \in Artefacts
    PROVE  Under[a] = {a} \cup UNION {Under[b] : b \in Wraps[a]}
  <1> DEFINE below(f) == [c \in Artefacts |-> {c} \cup UNION {f[b] : b \in Wraps[c]}]
             transaction == {"plan", "envelope", "net", "call", "transaction"}
             bundle == transaction \cup {"bundle"}
             request == bundle \cup {"signedTransaction", "signedBundle", "request"}
             under(c) ==
                    CASE c = "plan" -> {"plan"}
                      [] c = "envelope" -> {"plan", "envelope"}
                      [] c = "net" -> {"plan", "envelope", "net"}
                      [] c = "call" -> {"plan", "envelope", "net", "call"}
                      [] c = "transaction" -> transaction
                      [] c = "bundle" -> bundle
                      [] c = "package" -> bundle \cup {"package"}
                      [] c = "signedTransaction" -> transaction \cup {"signedTransaction"}
                      [] c = "signedBundle" -> bundle \cup {"signedTransaction", "signedBundle"}
                      [] c = "request" -> request
                      [] c = "signedPackage" -> request \cup {"package", "signedPackage"}
             f == [c \in Artefacts |-> under(c)]
             solves(g) == g = below(g)
  <1>1. /\ f["plan"] = {"plan"} /\ f["envelope"] = {"plan", "envelope"}
        /\ f["net"] = {"plan", "envelope", "net"}
        /\ f["call"] = {"plan", "envelope", "net", "call"}
        /\ f["transaction"] = transaction /\ f["bundle"] = bundle
        /\ f["package"] = bundle \cup {"package"}
        /\ f["signedTransaction"] = transaction \cup {"signedTransaction"}
        /\ f["signedBundle"] = bundle \cup {"signedTransaction", "signedBundle"}
        /\ f["request"] = request
        /\ f["signedPackage"] = request \cup {"package", "signedPackage"}
    BY DEF Artefacts
  <1>2. ASSUME NEW c \in Artefacts
        PROVE  f[c] = {c} \cup UNION {f[b] : b \in Wraps[c]}
    <2> HIDE DEF f
    <2>1. ASSUME NEW x, NEW y PROVE UNION {f[b] : b \in {x, y}} = f[x] \cup f[y]
      OBVIOUS
    <2>2. ASSUME NEW x PROVE UNION {f[b] : b \in {x}} = f[x]
      OBVIOUS
    <2>3. CASE c = "plan"
      BY <1>1, <2>3 DEF Wraps
    <2>4. CASE c \in {"envelope", "net", "call", "transaction", "bundle", "package",
                     "signedTransaction", "request"}
      <3>1. \E x \in Artefacts : Wraps[c] = {x} /\ f[c] = {c} \cup f[x]
        BY <1>1, <2>4 DEF Wraps, Artefacts
      <3> QED BY <2>2, <3>1
    <2>5. CASE c = "signedBundle"
      <3>1. Wraps[c] = {"signedTransaction", "bundle"}
        BY <2>5 DEF Wraps
      <3> QED BY <1>1, <2>1, <2>5, <3>1
    <2>6. CASE c = "signedPackage"
      <3>1. Wraps[c] = {"package", "request"}
        BY <2>6 DEF Wraps
      <3> QED BY <1>1, <2>1, <2>6, <3>1
    <2> QED BY <2>3, <2>4, <2>5, <2>6 DEF Artefacts
  <1>3. solves(f)
    <2>1. f = [c \in Artefacts |-> f[c]]
      <3> HIDE DEF under
      <3> QED OBVIOUS
    <2> HIDE DEF f
    <2> QED BY <1>2, <2>1
  <1>4. Under = CHOOSE g : solves(g)
    BY DEF Under
  <1>5. solves(Under)
    <2> HIDE DEF solves, f
    <2> QED BY <1>3, <1>4, Zenon
  <1> QED BY <1>5

(* An artefact follows all that is under it, and all of that was built. *)
Follows(a) ==
    \A b \in Under[a] \ Uncompared(a) :
        /\ b \in Artefacts /\ Built(b)
        /\ Created(b) <= Created(a)
        /\ \A i \in Takes[b] : inputs[i].observed <= Created(a)

(* Direct comparisons compose: if all that an artefact compares itself     *)
(* with follows what is under it, so does the artefact.                    *)
LEMMA OrderComposes ==
    ASSUME OrderInv, NEW a \in Artefacts, Built(a),
           \A c \in Wraps[a] \ Uncompared(a) : Follows(c) /\ Uncompared(c) = {},
           \A b \in Under[a] \ Uncompared(a) :
              b = a \/ \E c \in Wraps[a] \ Uncompared(a) : b \in Under[c]
    PROVE  Follows(a)
  <1> SUFFICES ASSUME NEW b \in Under[a] \ Uncompared(a)
               PROVE  /\ b \in Artefacts /\ Built(b)
                      /\ Created(b) <= Created(a)
                      /\ \A i \in Takes[b] : inputs[i].observed <= Created(a)
    BY DEF Follows
  <1>1. Created(a) \in Nat /\ Ordered(a) /\ \A c \in Wraps[a] : c \in Artefacts /\ Built(c)
    BY TimesOfBuilt
  <1>2. CASE b = a
    BY <1>1, <1>2 DEF Ordered
  <1>3. CASE b # a
    <2>1. PICK c \in Wraps[a] \ Uncompared(a) : b \in Under[c]
      BY <1>3
    <2>2. Created(c) \in Nat /\ Created(c) <= Created(a)
      BY <1>1, <2>1, TimesOfBuilt DEF Ordered
    <2>3. /\ b \in Artefacts /\ Built(b)
          /\ Created(b) <= Created(c) /\ \A i \in Takes[b] : inputs[i].observed <= Created(c)
      BY <2>1 DEF Follows
    <2>4. Created(b) \in Nat /\ \A i \in Takes[b] : inputs[i].observed \in Nat
      BY <2>3, TimesOfBuilt
    <2> QED BY <1>1, <2>2, <2>3, <2>4
  <1> QED BY <1>2, <1>3

\* For every artefact but the signed package nothing is left uncompared.
LEMMA OneStageFollows ==
    ASSUME OrderInv, NEW a \in Artefacts \ {"signedPackage"}, Built(a),
           \A c \in Wraps[a] : Follows(c)
    PROVE  Follows(a)
  <1>1. Uncompared(a) = {} /\ \A c \in Wraps[a] : Uncompared(c) = {}
    BY DEF Uncompared, Wraps, Artefacts
  <1>2. \A b \in Under[a] : b = a \/ \E c \in Wraps[a] : b \in Under[c]
    BY UnderUnfolds
  <1> QED BY <1>1, <1>2, OrderComposes

\* Stage by stage, every artefact that has been built follows what is under it.
LEMMA AllFollow ==
    ASSUME OrderInv, NEW a \in Artefacts, Built(a)
    PROVE  Follows(a)
  <1>1. \A c \in Artefacts : Built(c) => \A b \in Wraps[c] : Built(b)
    BY BuiltIsSound DEF OrderInv
  <1> DEFINE P(c) == Built(c) => Follows(c)
  <1>2. ASSUME NEW c \in Artefacts \ {"signedPackage"}, \A b \in Wraps[c] : P(b)
        PROVE  P(c)
    BY <1>1, <1>2, OneStageFollows
  <1> HIDE DEF P
  <1>3. P("plan")
    BY <1>2 DEF Wraps, Artefacts
  <1>4. P("envelope")
    BY <1>2, <1>3 DEF Wraps, Artefacts
  <1>5. P("net")
    BY <1>2, <1>4 DEF Wraps, Artefacts
  <1>6. P("call")
    BY <1>2, <1>5 DEF Wraps, Artefacts
  <1>7. P("transaction")
    BY <1>2, <1>6 DEF Wraps, Artefacts
  <1>8. P("bundle")
    BY <1>2, <1>7 DEF Wraps, Artefacts
  <1>9. P("package")
    BY <1>2, <1>8 DEF Wraps, Artefacts
  <1>10. P("signedTransaction")
    BY <1>2, <1>7 DEF Wraps, Artefacts
  <1>11. P("signedBundle")
    BY <1>2, <1>8, <1>10 DEF Wraps, Artefacts
  <1>12. P("request")
    BY <1>2, <1>11 DEF Wraps, Artefacts
  <1>13. P("signedPackage")
    <2> SUFFICES ASSUME Built("signedPackage") PROVE Follows("signedPackage")
      BY DEF P
    <2>1. /\ {"package", "bundle", "signedBundle", "request", "signedPackage"} \subseteq Artefacts
          /\ Wraps["signedPackage"] = {"package", "request"}
          /\ Wraps["package"] = {"bundle"} /\ Wraps["request"] = {"signedBundle"}
          /\ Wraps["signedBundle"] = {"signedTransaction", "bundle"}
          /\ Uncompared("signedPackage") = {"package"} /\ Uncompared("request") = {}
      BY DEF Artefacts, Wraps, Uncompared
    <2>2. Under["bundle"] \subseteq Under["request"]
      BY <2>1, UnderUnfolds
    <2>3. \A b \in Under["signedPackage"] \ {"package"} :
            b = "signedPackage" \/ b \in Under["request"]
      BY <2>1, <2>2, UnderUnfolds
    <2>4. Follows("request")
      BY <1>1, <1>12, <2>1 DEF P
    <2> QED BY <2>1, <2>3, <2>4, OrderComposes
  <1> QED BY <1>3, <1>4, <1>5, <1>6, <1>7, <1>8, <1>9, <1>10, <1>11, <1>12, <1>13 DEF P, Artefacts

\* Nothing is built and nothing answered at first.
LEMMA OrderInit ==
    ASSUME Init
    PROVE  OrderInv
  <1>1. \A a \in Artefacts : ~Built(a)
    BY DEF Init, Built
  <1>2. "signedPackage" \in Artefacts
    BY DEF Artefacts
  <1> QED BY <1>1, <1>2, PipelineInit DEF OrderInv

(* No artefact claims a creation before that of anything it rests upon, or *)
(* before anything observed for it was observed, although each constructor *)
(* compares its time with its immediate arguments only.                    *)
THEOREM NothingPredates == Spec => []NothingPredatesItsInputs
  <1>1. OrderInv => NothingPredatesItsInputs
    <2> SUFFICES ASSUME OrderInv PROVE NothingPredatesItsInputs
      OBVIOUS
    <2>1. \A a \in Artefacts : Built(a) => Follows(a)
      BY AllFollow
    <2>2. \A a \in Artefacts : Built(a) /\ a = "signedPackage" => \A r \in responses : r <= Created(a)
      BY DEF OrderInv
    <2> QED BY <2>1, <2>2 DEF NothingPredatesItsInputs, Follows, Uncompared
  <1> QED BY <1>1, OrderInit, OrderStep, PTL DEF Spec

-----------------------------------------------------------------------------
(* What is known of an inclusion, of its outcome and of its record. *)

Respects(r) == /\ BoundsRespected(r, terms)
               /\ Residual(terms.output, terms) <= Residual(r.output, terms)

IncludedInv ==
    inclusion # Absent =>
        /\ Built("signedPackage") /\ Built("call")
        /\ inclusion.block \in Times /\ inclusion.receipt \in Receipt
        /\ inclusion.block <= Deadline

OutcomeInv ==
    outcome # Absent =>
        /\ inclusion # Absent
        /\ Settles(inclusion.receipt)
        /\ outcome.preserved => outcome.respected /\ Respects(inclusion.receipt)

RecordInv ==
    record # Absent /\ record.disposition = "settled" =>
        /\ outcome # Absent
        /\ record.rate \in Rate
        /\ record.surplus = Surplus(inclusion.receipt, record.rate, terms)
        /\ /\ outcome.preserved /\ outcome.respected
           /\ ActualExternal(inclusion.receipt, record.rate) <= ExternalCost(terms)
           /\ NetProfit(terms) <= record.surplus
           => record.preserved

SettlementInv == PipelineInv /\ IncludedInv /\ OutcomeInv /\ RecordInv

(* An artefact that has been built is never replaced. *)
LEMMA BuiltStays ==
    ASSUME PipelineInv, Next
    PROVE  /\ episode' = episode
           /\ \A a \in Artefacts : Built(a) => made'[a] = made[a]
  <1>1. ASSUME NEW a \in Artefacts, NEW t, NEW u, ~Built(a), Make(a, t, u)
        PROVE  episode' = episode /\ \A c \in Artefacts : Built(c) => made'[c] = made[c]
    BY <1>1 DEF Make, Built, PipelineInv
  <1>2. ASSUME NEW t \in Times,
               \/ BuildPlan(t) \/ BuildEnvelope(t) \/ BuildNet(t)
               \/ BuildCall(t) \/ BuildTransaction(t) \/ BuildBundle(t) \/ BuildPackage(t)
        PROVE  episode' = episode /\ \A c \in Artefacts : Built(c) => made'[c] = made[c]
    BY <1>1, <1>2 DEF BuildPlan, BuildEnvelope, BuildNet, BuildCall, BuildTransaction, BuildBundle,
       BuildPackage, Artefacts
  <1>3. ASSUME NEW t \in Times,
               \/ SignTransaction(t) \/ SignBundle(t) \/ BuildRequest(t)
               \/ BuildSignedPackage(t)
        PROVE  episode' = episode /\ \A c \in Artefacts : Built(c) => made'[c] = made[c]
    BY <1>1, <1>3 DEF SignTransaction, SignBundle, BuildRequest, BuildSignedPackage, Artefacts
  <1> QED BY <1>2, <1>3 DEF Next, RecordResponse, Include, RealizeOutcome, RecordHistory

(* Building leaves what the chain answered alone. *)
LEMMA BuildingSettlesNothing ==
    ASSUME NEW t \in Times,
           \/ BuildPlan(t) \/ BuildEnvelope(t) \/ BuildNet(t)
           \/ BuildCall(t) \/ BuildTransaction(t) \/ BuildBundle(t) \/ BuildPackage(t)
           \/ SignTransaction(t) \/ SignBundle(t) \/ BuildRequest(t)
           \/ RecordResponse(t) \/ BuildSignedPackage(t)
    PROVE  UNCHANGED <<inclusion, outcome, record>>
  BY DEF BuildPlan, BuildEnvelope, BuildNet, BuildCall, BuildTransaction, BuildBundle,
     BuildPackage, SignTransaction, SignBundle, BuildRequest, RecordResponse,
     BuildSignedPackage, Make

(* The settled call is below the signed package. *)
LEMMA CallIsBelow ==
    ASSUME PipelineInv, Built("signedPackage")
    PROVE  Built("call")
  <1>1. {"signedPackage", "package", "bundle", "transaction"} \subseteq Artefacts
    BY DEF Artefacts
  <1>2. Built("package")
    BY <1>1, BuiltIsSound DEF Wraps
  <1>3. Built("bundle")
    BY <1>1, <1>2, BuiltIsSound DEF Wraps
  <1>4. Built("transaction")
    BY <1>1, <1>3, BuiltIsSound DEF Wraps
  <1> QED BY <1>1, <1>4, BuiltIsSound DEF Wraps

\* Every step keeps the settlement invariant; building an artefact includes and settles nothing.
LEMMA SettlementStep ==
    ASSUME SettlementInv, [Next]_vars
    PROVE  SettlementInv'
  <1>1. PipelineInv /\ PipelineInv'
    BY PipelineStep DEF SettlementInv
  <1>2. IncludedInv /\ OutcomeInv /\ RecordInv
    BY DEF SettlementInv
  <1>3. CASE UNCHANGED vars
    BY <1>1, <1>2, <1>3 DEF SettlementInv, vars, IncludedInv, OutcomeInv, RecordInv, Respects,
       Settles, Built, Deadline, Until, terms
  <1>4. CASE Next
    <2>1. /\ terms' = terms /\ (Built("signedPackage") => Built("signedPackage")')
          /\ (Built("call") => Built("call")' /\ Deadline' = Deadline)
      <3>1. "signedPackage" \in Artefacts /\ "call" \in Artefacts
        BY DEF Artefacts
      <3> QED BY <1>1, <1>4, <3>1, BuiltStays DEF Built, Deadline, Until, terms
    <2>2. ASSUME UNCHANGED inclusion PROVE IncludedInv'
      BY <1>2, <2>1, <2>2 DEF IncludedInv
    <2>3. ASSUME UNCHANGED <<inclusion, outcome>> PROVE OutcomeInv'
      BY <1>2, <2>1, <2>3 DEF OutcomeInv, Respects, Settles
    <2>4. ASSUME UNCHANGED <<inclusion, outcome, record>> PROVE RecordInv'
      BY <1>2, <2>1, <2>4 DEF RecordInv
    <2>5. CASE UNCHANGED <<inclusion, outcome, record>>
      BY <1>1, <2>2, <2>3, <2>4, <2>5 DEF SettlementInv
    <2>6. ASSUME NEW b \in Times, NEW r \in Receipts[episode], Include(b, r)
          PROVE  SettlementInv'
      <3>1. r \in Receipt
        BY <1>1, InputTypes DEF PipelineInv
      <3>2. IncludedInv'
        BY <1>1, <2>1, <2>6, <3>1, CallIsBelow DEF Include, IncludedInv
      <3>3. outcome = Absent /\ outcome' = outcome /\ record' = record
        BY <1>2, <2>6 DEF Include, OutcomeInv
      <3>4. OutcomeInv' /\ RecordInv'
        BY <1>2, <3>3 DEF OutcomeInv, RecordInv
      <3> QED BY <1>1, <3>2, <3>4 DEF SettlementInv
    <2>7. CASE RealizeOutcome
      <3>1. /\ inclusion # Absent /\ inclusion' = inclusion /\ record' = record
            /\ outcome = Absent /\ Settles(inclusion.receipt)
            /\ outcome'.respected = BoundsRespected(inclusion.receipt, terms)
            /\ outcome'.preserved = Respects(inclusion.receipt)
        BY <2>7 DEF RealizeOutcome, Respects
      <3>2. OutcomeInv'
        BY <2>1, <3>1 DEF OutcomeInv, Respects, Settles
      <3>3. RecordInv'
        BY <1>2, <3>1 DEF RecordInv
      <3> QED BY <1>1, <2>2, <3>1, <3>2, <3>3 DEF SettlementInv
    <2>8. ASSUME NEW rate \in Rates[episode], RecordHistory(rate)
          PROVE  SettlementInv'
      <3>1. UNCHANGED <<inclusion, outcome>>
        BY <2>8 DEF RecordHistory
      <3>2. rate \in Rate
        BY <1>1, InputTypes DEF PipelineInv
      <3>3. CASE outcome = Absent
        <4>1. record'.disposition # "settled"
          BY <2>8, <3>3 DEF RecordHistory, Disposition
        <4> QED BY <1>1, <2>2, <2>3, <3>1, <4>1 DEF SettlementInv, RecordInv
      <3>4. CASE outcome # Absent
        <4> DEFINE surplus == Surplus(inclusion.receipt, rate, terms)
                   within == ActualExternal(inclusion.receipt, rate) <= ExternalCost(terms)
                   kept == /\ outcome.preserved
                           /\ outcome.respected /\ within
                           /\ NetProfit(terms) <= surplus
        <4>1. record' = [disposition |-> Disposition(inclusion.receipt), rate |-> rate,
                         surplus |-> surplus, respected |-> outcome.respected /\ within,
                         preserved |-> kept]
          BY <2>8, <3>4, Zenon DEF RecordHistory
        <4>2. record'.rate = rate /\ record'.surplus = surplus /\ record'.preserved = kept
          <5> HIDE DEF surplus, within, kept
          <5> QED BY <4>1
        <4>3. RecordInv'
          BY <2>1, <3>1, <3>2, <3>4, <4>2 DEF RecordInv
        <4> QED BY <1>1, <2>2, <2>3, <3>1, <4>3 DEF SettlementInv
      <3> QED BY <3>3, <3>4
    <2> QED BY <1>4, <2>5, <2>6, <2>7, <2>8, BuildingSettlesNothing DEF Next
  <1> QED BY <1>3, <1>4

\* Nothing is included or settled at first.
LEMMA SettlementInit ==
    ASSUME Init
    PROVE  SettlementInv
  BY PipelineInit DEF Init, SettlementInv, IncludedInv, OutcomeInv, RecordInv

(* The deadline in whole seconds never outlives the validity in            *)
(* milliseconds from which it is rounded (evm_abi.py): a block that meets  *)
(* it is within the horizon of the call and within every F4 input.         *)
THEOREM IncludedInTime == Spec => []IncludedWithinValidity
  <1>1. SettlementInv => IncludedWithinValidity
    <2> SUFFICES ASSUME SettlementInv, inclusion # Absent
                 PROVE  /\ inclusion.block * TicksPerSecond <= Created("call") + terms.horizon
                        /\ \A i \in F4Inputs :
                             inclusion.block * TicksPerSecond <= inputs[i].until
      BY DEF IncludedWithinValidity
    <2> DEFINE u == Until("call")
               b == inclusion.block
    <2>1. PipelineInv /\ Built("call") /\ b \in Times /\ b <= u \div TicksPerSecond
      BY DEF SettlementInv, IncludedInv, Deadline
    <2>2. "call" \in Artefacts /\ episode \in Episodes
      BY <2>1 DEF Artefacts, PipelineInv
    <2>3. /\ u \in Nat /\ Created("call") \in Times /\ u <= Created("call") + terms.horizon
          /\ \A i \in F4Inputs : u <= Expiry(i)
      BY <2>1, <2>2, BuiltIsSound DEF Binding, PipelineInv
    <2>4. /\ b \in Nat /\ Created("call") + terms.horizon \in Nat
          /\ \A i \in F4Inputs : Expiry(i) = inputs[i].until /\ inputs[i].until \in Nat
      BY <2>1, <2>2, <2>3, InputTypes DEF F4Inputs, EnvelopeInputs, Inputs, Expiry
    <2>5. b * TicksPerSecond <= u /\ b * TicksPerSecond \in Nat
      <3> HIDE DEF b, u
      <3>1. TicksPerSecond \in Nat \ {0}
        BY PipelineAssumption
      <3>2. TicksPerSecond * (u \div TicksPerSecond) <= u /\ u \div TicksPerSecond \in Int
        BY <2>3, <3>1, Z3
      <3>3. b * TicksPerSecond <= (u \div TicksPerSecond) * TicksPerSecond
        BY <2>1, <2>4, <3>1, <3>2, Z3
      <3> QED BY <2>3, <2>4, <3>1, <3>2, <3>3, Z3
    <2> HIDE DEF b, u
    <2> QED BY <2>3, <2>4, <2>5 DEF b
  <1> QED BY <1>1, SettlementInit, SettlementStep, PTL DEF Spec

(* A record that settled within the predicted external cost has a surplus  *)
(* of at least the profit that the policy required, whatever the output.   *)
THEOREM SettlementsKeepPolicy == Spec => []SettlementKeepsPolicy
  <1>1. SettlementInv => SettlementKeepsPolicy
    <2> SUFFICES ASSUME SettlementInv, record # Absent, record.disposition = "settled",
                        ActualExternal(inclusion.receipt, record.rate) <= ExternalCost(terms)
                 PROVE  RequiredProfit(terms) <= record.surplus
      BY DEF SettlementKeepsPolicy
    <2>1. /\ outcome # Absent /\ record.rate \in Rate
          /\ record.surplus = Surplus(inclusion.receipt, record.rate, terms)
      BY DEF SettlementInv, RecordInv
    <2>2. inclusion.receipt \in Receipt /\ MinimumFinal(terms) <= inclusion.receipt.output
      BY <2>1 DEF SettlementInv, OutcomeInv, IncludedInv, Settles
    <2>3. terms \in Figures
      BY InputTypes DEF SettlementInv, PipelineInv
    <2> QED BY <2>1, <2>2, <2>3, MinimumPaysThePolicy
  <1> QED BY <1>1, SettlementInit, SettlementStep, PTL DEF Spec

(* One conversion of the sum rounds up at most as much as the conversions  *)
(* of its parts: a settlement within every native bound, valued no higher, *)
(* never records less than the predicted profit.                           *)
THEOREM PredictionsAreConservative == Spec => []PredictionIsConservative
  <1>1. SettlementInv => PredictionIsConservative
    <2> SUFFICES ASSUME SettlementInv, record # Absent, record.disposition = "settled",
                        outcome.preserved,
                        record.rate.num * terms.rate.den <= terms.rate.num * record.rate.den
                 PROVE  record.preserved /\ NetProfit(terms) <= record.surplus
      BY DEF PredictionIsConservative
    <2>1. /\ outcome # Absent /\ record.rate \in Rate
          /\ record.surplus = Surplus(inclusion.receipt, record.rate, terms)
      BY DEF SettlementInv, RecordInv
    <2>2. /\ inclusion.receipt \in Receipt /\ outcome.respected
          /\ BoundsRespected(inclusion.receipt, terms)
          /\ Residual(terms.output, terms) <= Residual(inclusion.receipt.output, terms)
      BY <2>1 DEF SettlementInv, OutcomeInv, IncludedInv, Respects
    <2>3. terms \in Figures
      BY InputTypes DEF SettlementInv, PipelineInv
    <2>4. /\ ActualExternal(inclusion.receipt, record.rate) <= ExternalCost(terms)
          /\ NetProfit(terms) <= record.surplus
      BY <2>1, <2>2, <2>3, PreservedFloorIsSurplus
    <2> QED BY <2>2, <2>4 DEF SettlementInv, RecordInv
  <1> QED BY <1>1, SettlementInit, SettlementStep, PTL DEF Spec

=============================================================================
