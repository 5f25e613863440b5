------------------------- MODULE ExecutionEvidence -------------------------
(***************************************************************************)
(* The chain of evidence from an opportunity to a historical record.       *)
(* Every stage is an immutable object whose constructor checks what it is  *)
(* given against the creation time that its caller claims, and publishes   *)
(* the time until which its inputs are valid:                              *)
(*                                                                         *)
(*   plan - envelope - net - call - transaction - bundle - package         *)
(*                                       |           |        |            *)
(*                          signedTransaction - signedBundle  |            *)
(*                                                   |        |            *)
(*                                                request - signedPackage  *)
(*                                                                         *)
(* and then, once the chain has answered, inclusion, outcome and record.   *)
(* Constructors are called in any order that their arguments allow, with   *)
(* any claimed time; no clock is read anywhere.                            *)
(*                                                                         *)
(* Sources: execution_plan.py, cost_evidence.py, context_evidence.py,      *)
(* evm_abi.py, evm_transaction.py, execution_package.py,                   *)
(* signed_transaction.py, relay_evidence.py, execution_outcome.py,         *)
(* historical_scoreboard.py (the record).  Bundles of one transaction, the *)
(* only ones a package accepts; simulations of one stage share one window. *)
(***************************************************************************)
EXTENDS ShadowEconomics, FiniteSets

CONSTANTS
    Episodes,        \* opportunities followed through the pipeline
    Recording,       \* per episode: the recorded inputs and their windows
    Terms,           \* per episode: its figures
    Receipts,        \* per episode: what the chain may answer
    Rates,           \* per episode: valuations of the native asset at inclusion
    MaxTime,         \* bound on times, in ticks
    TicksPerSecond,  \* 1000 in the code
    MaxAnchorAge,    \* MAX_BUNDLE_ANCHOR_AGE_MS
    MaxResponses,    \* MAX_RELAY_RESPONSES
    Absent           \* what has not been built

Times == 0 .. MaxTime

(* Evidence recorded outside the pipeline.  The proofs and the opportunity *)
(* are observed at a time and do not expire.                               *)
Unlimited == {"opportunity", "executor", "sender"}
Inputs == Unlimited \cup {"funding", "fee", "reserve", "rate", "routeSims",
                          "health", "risk", "anchor", "txSims"}

Artefacts == {"plan", "envelope", "net", "call", "transaction", "bundle",
              "package", "signedTransaction", "signedBundle", "request",
              "signedPackage"}

ASSUME PipelineAssumption ==
    /\ MaxTime \in Nat /\ TicksPerSecond \in Nat \ {0}
    /\ MaxAnchorAge \in Nat /\ MaxResponses \in Nat
    /\ Absent \notin [created : Nat, until : Nat]
    /\ \A e \in Episodes : /\ \A i \in Inputs : Recording[e][i] \in [observed : Nat, until : Nat]
                          /\ Terms[e] \in Figures /\ Fits(Terms[e].output)
                          /\ Receipts[e] \subseteq Receipt
                          /\ Rates[e] \subseteq Rate

VARIABLES
    episode,    \* the opportunity followed
    made,       \* artefact -> its creation time and published expiry
    responses,  \* times of the recorded relay responses to the request
    inclusion,  \* block time in seconds and receipt
    outcome,    \* the comparison of the settlement with the predictions
    record      \* the historical record

vars == <<episode, made, responses, inclusion, outcome, record>>

inputs == Recording[episode]
terms == Terms[episode]

Smallest(S) == CHOOSE x \in S : \A y \in S : x <= y

Built(a) == made[a] # Absent
Created(a) == made[a].created
Until(a) == made[a].until

(* is_valid_at of a recorded input. *)
ValidAt(i, t) == inputs[i].observed <= t /\ t <= inputs[i].until

FreshUntil == inputs["anchor"].observed + MaxAnchorAge

Make(a, t, until) ==
    /\ made' = [made EXCEPT ![a] = [created |-> t, until |-> until]]
    /\ UNCHANGED <<episode, responses, inclusion, outcome, record>>

Init ==
    /\ episode \in Episodes
    /\ made = [a \in Artefacts |-> Absent]
    /\ responses = {}
    /\ inclusion = Absent
    /\ outcome = Absent
    /\ record = Absent

-----------------------------------------------------------------------------
(* F4: plan, cost envelope, net evidence. *)

BuildPlan(t) ==
    /\ ~Built("plan")
    /\ inputs["opportunity"].observed <= t
    /\ ValidAt("funding", t)
    /\ Make("plan", t, inputs["funding"].until)

EnvelopeInputs == {"funding", "fee", "reserve", "rate"}

BuildEnvelope(t) ==
    /\ Built("plan") /\ ~Built("envelope")
    /\ Created("plan") <= t
    /\ \A i \in EnvelopeInputs : ValidAt(i, t)
    /\ Priced(terms)
    /\ Make("envelope", t, Smallest({inputs[i].until : i \in EnvelopeInputs}))

(* The expiry of the chain health is not carried on. *)
NetUntil_ForgetsHealth ==
    Smallest({Until("envelope")} \cup {inputs[i].until : i \in {"routeSims", "risk"}})

NetUntil == Smallest({Until("envelope")} \cup {inputs[i].until : i \in {"routeSims", "health", "risk"}})

(* The age of the state, since the anchor was observed, is not negative. *)
BuildNet(t) ==
    /\ Built("envelope") /\ ~Built("net")
    /\ Created("envelope") <= t /\ t <= Until("envelope")
    /\ \A i \in EnvelopeInputs \cup {"routeSims", "health", "risk"} : ValidAt(i, t)
    /\ Created("plan") <= inputs["routeSims"].observed
    /\ Created("envelope") <= inputs["risk"].observed
    /\ inputs["anchor"].observed <= t
    /\ Make("net", t, NetUntil)

Approved == Reasons(terms, Created("net") - inputs["anchor"].observed) = {}

-----------------------------------------------------------------------------
(* F5: governed call, unsigned transaction, bundle intent, package. *)

(* A deadline rounded up to the next second. *)
Deadline_Up == CeilDiv(Until("call"), TicksPerSecond)

Deadline == Until("call") \div TicksPerSecond

CallUntil(t) == Smallest({Until("net"), t + terms.horizon})

BuildCall(t) ==
    /\ Built("net") /\ ~Built("call")
    /\ Approved
    /\ Created("net") <= t /\ t <= Until("net")
    /\ inputs["executor"].observed <= t
    /\ FloorProductsFit(terms) /\ Fits(EconomicFloor(terms))
    /\ MinimumFinal(terms) <= terms.output
    /\ t \div TicksPerSecond < CallUntil(t) \div TicksPerSecond
    /\ Make("call", t, CallUntil(t))

BuildTransaction(t) ==
    /\ Built("call") /\ ~Built("transaction")
    /\ Created("call") <= t
    /\ inputs["sender"].observed <= t
    /\ t <= Smallest({Until("net"), Until("call")})
    /\ NativeBound(terms) <= terms.balance
    /\ Make("transaction", t, Smallest({Until("net"), Until("call")}))

BuildBundle(t) ==
    /\ Built("transaction") /\ ~Built("bundle")
    /\ Created("transaction") <= t
    /\ t <= FreshUntil
    /\ t <= Until("transaction")
    /\ t \div TicksPerSecond < Deadline
    /\ Make("bundle", t, Smallest({FreshUntil, Until("transaction")}))

(* A block time at which the simulations can have been run is between the *)
(* anchor and the deadline; their figures equal those of the plan.        *)
BuildPackage(t) ==
    /\ Built("bundle") /\ ~Built("package")
    /\ Created("bundle") <= t /\ t <= Until("bundle")
    /\ Created("bundle") <= inputs["txSims"].observed
    /\ ValidAt("txSims", t)
    /\ MinimumFinal(terms) <= terms.output
    /\ Make("package", t, Smallest({Until("bundle"), inputs["txSims"].until}))

-----------------------------------------------------------------------------
(* F6: signature, signed bundle, relay request and responses, package. *)

(* The signature is observed between the transaction and t. *)
SignTransaction(t) ==
    /\ Built("transaction") /\ ~Built("signedTransaction")
    /\ Created("transaction") <= t /\ t <= Until("transaction")
    /\ Make("signedTransaction", t, Until("transaction"))

(* The bundle intent may have been made after its signed form. *)
SignBundle_AnyIntent(t) ==
    /\ Built("bundle") /\ Built("signedTransaction") /\ ~Built("signedBundle")
    /\ Created("signedTransaction") <= t
    /\ t <= Until("bundle")
    /\ Make("signedBundle", t, Smallest({Until("bundle"), Until("signedTransaction")}))

SignBundle(t) ==
    /\ Built("bundle") /\ Built("signedTransaction") /\ ~Built("signedBundle")
    /\ Created("signedTransaction") <= t
    /\ Created("bundle") <= t /\ t <= Until("bundle")
    /\ Make("signedBundle", t, Smallest({Until("bundle"), Until("signedTransaction")}))

BuildRequest(t) ==
    /\ Built("signedBundle") /\ ~Built("request")
    /\ Created("signedBundle") <= t /\ t <= Until("signedBundle")
    /\ Make("request", t, Until("signedBundle"))

(* A response that is late is refused, whatever it says. *)
RecordResponse(t) ==
    /\ Built("request") /\ ~Built("signedPackage")
    /\ Cardinality(responses) < MaxResponses
    /\ Created("request") <= t /\ t <= Until("request")
    /\ responses' = responses \cup {t}
    /\ UNCHANGED <<episode, made, inclusion, outcome, record>>

(* The creation of the unsigned package is not compared with t. *)
BuildSignedPackage(t) ==
    /\ Built("package") /\ Built("request") /\ ~Built("signedPackage")
    /\ Created("request") <= t
    /\ \A r \in responses : r <= t
    /\ t <= Smallest({Until(a) : a \in {"package", "signedTransaction", "signedBundle", "request"}})
    /\ Make("signedPackage", t,
            Smallest({Until(a) : a \in {"package", "signedTransaction", "signedBundle", "request"}}))

-----------------------------------------------------------------------------
(* F7 and F8: inclusion, realized outcome, historical record. *)

(* Gas and price of an included transaction are bounded by its own limits. *)
Include(block, r) ==
    /\ Built("signedPackage") /\ inclusion = Absent
    /\ block <= Deadline
    /\ r.gas <= terms.gas
    /\ inclusion' = [block |-> block, receipt |-> r]
    /\ UNCHANGED <<episode, made, responses, outcome, record>>

(* What F7 and F8 both demand of the settlement event of receipt r. *)
Settles(r) ==
    /\ MinimumFinal(terms) <= r.output
    /\ terms.principal + terms.fee <= r.output
    /\ r.direct <= terms.bid

RealizeOutcome ==
    LET r == inclusion.receipt IN
    /\ inclusion # Absent /\ outcome = Absent
    /\ r.success /\ r.event
    /\ Settles(r)
    /\ Fits(NativePaid(r))
    /\ outcome' = [respected |-> BoundsRespected(r, terms),
                   preserved |-> /\ BoundsRespected(r, terms)
                                 /\ Residual(terms.output, terms) <= Residual(r.output, terms)]
    /\ UNCHANGED <<episode, made, responses, inclusion, record>>

Disposition(r) ==
    IF ~r.success THEN "reverted"
    ELSE IF outcome # Absent THEN "settled"
    ELSE IF r.event THEN "settlement-evidence-incomplete"
    ELSE "settlement-missing"

(* A record made without passing an existing outcome is the same as one    *)
(* made before it.                                                         *)
RecordHistory(rate) ==
    LET r == inclusion.receipt
        respected == /\ outcome.respected
                     /\ ActualExternal(r, rate) <= ExternalCost(terms)
    IN
    /\ inclusion # Absent /\ record = Absent
    /\ r.event => Settles(r) /\ r.success
    /\ IF outcome = Absent
       THEN record' = [disposition |-> Disposition(r)]
       ELSE /\ Fits(NativePaid(r) * rate.num)
            /\ record' = [disposition |-> Disposition(r),
                          rate |-> rate,
                          surplus |-> Surplus(r, rate, terms),
                          respected |-> respected,
                          preserved |-> /\ outcome.preserved
                                        /\ respected
                                        /\ NetProfit(terms) <= Surplus(r, rate, terms)]
    /\ UNCHANGED <<episode, made, responses, inclusion, outcome>>

Next ==
    \/ \E t \in Times :
         \/ BuildPlan(t) \/ BuildEnvelope(t) \/ BuildNet(t)
         \/ BuildCall(t) \/ BuildTransaction(t) \/ BuildBundle(t) \/ BuildPackage(t)
         \/ SignTransaction(t) \/ SignBundle(t) \/ BuildRequest(t)
         \/ RecordResponse(t) \/ BuildSignedPackage(t)
    \/ \E b \in Times, r \in Receipts[episode] : Include(b, r)
    \/ RealizeOutcome
    \/ \E rate \in Rates[episode] : RecordHistory(rate)

Spec == Init /\ [][Next]_vars

-----------------------------------------------------------------------------
(* Properties. *)

F4Inputs == EnvelopeInputs \cup {"routeSims", "health", "risk"}

(* The inputs whose expiry bounds an artefact. *)
Binding ==
    [plan |-> {"funding"}, envelope |-> EnvelopeInputs, net |-> F4Inputs,
     call |-> F4Inputs, transaction |-> F4Inputs,
     bundle |-> F4Inputs \cup {"anchor"},
     package |-> F4Inputs \cup {"anchor", "txSims"},
     signedTransaction |-> F4Inputs,
     signedBundle |-> F4Inputs \cup {"anchor"},
     request |-> F4Inputs \cup {"anchor"},
     signedPackage |-> F4Inputs \cup {"anchor", "txSims"}]

(* The inputs that an artefact is the first to use, and what it wraps. *)
Takes ==
    [plan |-> {"opportunity", "funding"}, envelope |-> {"fee", "reserve", "rate"},
     net |-> {"routeSims", "health", "risk", "anchor"}, call |-> {"executor"},
     transaction |-> {"sender"}, bundle |-> {}, package |-> {"txSims"},
     signedTransaction |-> {}, signedBundle |-> {}, request |-> {}, signedPackage |-> {}]

Wraps ==
    [plan |-> {}, envelope |-> {"plan"}, net |-> {"envelope"}, call |-> {"net"},
     transaction |-> {"call"}, bundle |-> {"transaction"}, package |-> {"bundle"},
     signedTransaction |-> {"transaction"},
     signedBundle |-> {"signedTransaction", "bundle"},
     request |-> {"signedBundle"},
     signedPackage |-> {"package", "request"}]

(* Everything an artefact was built from, itself included. *)
Under[a \in Artefacts] == {a} \cup UNION {Under[b] : b \in Wraps[a]}

Expiry(i) == IF i = "anchor" THEN FreshUntil ELSE inputs[i].until

(* An artefact exists only with what it wraps, its times are times, and a  *)
(* settled record has an outcome.                                          *)
TypeOK ==
    /\ episode \in Episodes
    /\ \A a \in Artefacts :
         Built(a) => /\ made[a] \in [created : Times, until : Nat]
                     /\ \A b \in Wraps[a] : Built(b)
    /\ responses \subseteq Times
    /\ Cardinality(responses) <= MaxResponses
    /\ inclusion # Absent => Built("signedPackage") /\ inclusion.block \in Times
    /\ outcome # Absent => inclusion # Absent
    /\ record # Absent => (record.disposition = "settled" => outcome # Absent)

(* No artefact is built on, or claims to be valid beyond, an input that    *)
(* has expired, however many stages lie between them: the expiries that    *)
(* the constructors publish (cost_evidence.py:444-449, 656-661) add up to  *)
(* the earliest expiry of all that an artefact rests upon.                 *)
ExpiryIsTransitive ==
    \A a \in Artefacts : Built(a) =>
        \A i \in Binding[a] :
            Created(a) <= Expiry(i) /\ Until(a) <= Expiry(i)

(* No artefact predates what it wraps or what was observed for it, through *)
(* all stages.  The signed package is compared with the relay request but  *)
(* not with the unsigned package that it wraps as well                     *)
(* (relay_evidence.py:391-413), so that part is left out.                  *)
NothingPredatesItsInputs ==
    \A a \in Artefacts : Built(a) =>
        /\ \A b \in Under[a] \ (IF a = "signedPackage" THEN {"package"} ELSE {}) :
             /\ Created(b) <= Created(a)
             /\ \A i \in Takes[b] : inputs[i].observed <= Created(a)
        /\ a = "signedPackage" => (\A r \in responses : r <= Created(a))

(* An approved decision can always be turned into a call: the minimum      *)
(* output that the call demands never exceeds the expected one, so the     *)
(* refusal of evm_abi.py:407-408 is never met unless a product overflows.  *)
ApprovalIsCallable ==
    Built("net") /\ Approved /\ FloorProductsFit(terms)
        => MinimumFinal(terms) <= terms.output /\ Fits(EconomicFloor(terms))

(* The block that settles is timed within the validity of every F4 input   *)
(* and within the horizon of the call, although the deadline is in whole   *)
(* seconds and the validity in milliseconds (evm_abi.py:444-450).          *)
IncludedWithinValidity ==
    inclusion # Absent =>
        /\ inclusion.block * TicksPerSecond <= Created("call") + terms.horizon
        /\ \A i \in F4Inputs : inclusion.block * TicksPerSecond <= inputs[i].until

(* A settlement whose external cost stayed within the prediction keeps the *)
(* F4 policy even when the output fell short of the expected one: the      *)
(* surplus after every cost and reserve reaches the minima that the        *)
(* decision was taken on.                                                  *)
SettlementKeepsPolicy ==
    /\ record # Absent
    /\ record.disposition = "settled"
    /\ ActualExternal(inclusion.receipt, record.rate) <= ExternalCost(terms)
    => RequiredProfit(terms) <= record.surplus

(* The prediction is conservative: with every native bound respected, no   *)
(* shortfall and a valuation no higher than the one decided on, the record *)
(* shows at least the predicted profit, so the three tests of              *)
(* historical_scoreboard.py:591-599 never disagree then.                   *)
PredictionIsConservative ==
    /\ record # Absent
    /\ record.disposition = "settled"
    /\ outcome.preserved
    /\ record.rate.num * terms.rate.den <= terms.rate.num * record.rate.den
    => record.preserved /\ NetProfit(terms) <= record.surplus

=============================================================================
