------------------------ MODULE HistoricalScoreboard ------------------------
(***************************************************************************)
(* From records of included attempts to a decision about promotion (F8):   *)
(*                                                                         *)
(*   manifest - corpus - scoreboard - calibration report -- decision       *)
(*   records  -'                   `- expected value ------'               *)
(*                                                                         *)
(* A manifest declares which inclusions of a block window there are; a     *)
(* corpus answers it with records; the scoreboard of a cohort measures     *)
(* those that agree in everything but the attempt; the report spreads them *)
(* over buckets of predicted return.  Every object is immutable, checks    *)
(* what it is given when it is created, and is made by its caller in any   *)
(* order and at any claimed time that these checks allow.                  *)
(*                                                                         *)
(* Source: historical_scoreboard.py.  A list of records is a set: one that *)
(* names the same record twice is refused by its record ids.               *)
(***************************************************************************)
EXTENDS ShadowEconomics, Sequences, FiniteSets, Functions

CONSTANTS
    Histories,           \* sets of inclusions, one of them is what the chain holds
    Facts,               \* per inclusion: what its evidence says
    ValuationPolicies,   \* [native, base, source]
    Books,               \* rates at hand: [native, base, source, num, den, from, until]
    Windows,             \* block windows [from, to] that a manifest may declare
    BucketBounds,        \* calibration policies: sequences of upper bounds
    PromotionPolicies,   \* see Policy
    Times,               \* creation times that callers claim
    MaxRecords,          \* MAX_CORPUS_RECORDS
    MaxAggregate,        \* MAX_AGGREGATE
    MaxMade,             \* per kind of object: bound on how many are made
    Absent               \* no book, no upper bound, no outcome

(* An inclusion: its transaction and package, the rest of its cohort       *)
(* (lane), where and when it was included, whether it succeeded and        *)
(* emitted the settlement event, its figures and receipt, whether the      *)
(* simulation was matched, and when its evidence and its outcome, if there *)
(* is one, were created.                                                   *)
Fact == [transaction : STRING, package : STRING, chain : STRING, lane : STRING,
         finality : {"confirmed", "finalized"}, native : STRING, base : STRING,
         block : Nat, index : Nat, time : Nat, success : BOOLEAN, event : BOOLEAN,
         simulated : BOOLEAN, created : Nat, settled : Nat \cup {Absent}]

Policy == [attempts : Nat \ {0}, records : Nat \ {0}, blocks : Nat \ {0},
           perBucket : Nat \ {0}, scoreableRate : 0 .. BasisPoints,
           successRate : 0 .. BasisPoints, floorRate : 0 .. BasisPoints,
           costRate : 0 .. BasisPoints, positiveRate : 0 .. BasisPoints,
           overrunRate : 0 .. BasisPoints, errorRate : 0 .. BasisPoints,
           guarded : -MaxAggregate .. MaxAggregate]

Ascending(s) == /\ \A k \in 1 .. Len(s) : s[k] \in Nat \ {0}
                /\ \A j, k \in 1 .. Len(s) : j < k => s[j] < s[k]

Inclusions == UNION Histories

ASSUME HistoryAssumption ==
    /\ IsFiniteSet(Inclusions) /\ Times \subseteq Nat
    /\ MaxRecords \in Nat /\ MaxAggregate \in Nat
    /\ Windows \subseteq [from : Nat, to : Nat]
    /\ \A i \in Inclusions : /\ Facts[i].block \in Nat /\ Facts[i].created \in Nat
                             /\ Facts[i].settled \in Nat \cup {Absent}
                             /\ Facts[i].settled # Absent => Facts[i].success /\ Facts[i].event
                             /\ Facts[i].terms \in Figures /\ Facts[i].receipt \in Receipt
    /\ BasisPoints < MaxUint
    /\ \A book \in Books : book.num \in Nat \ {0} /\ book.den \in Nat \ {0}
    /\ \A s \in BucketBounds : s \in Seq(Nat) /\ Ascending(s)
    /\ \A p \in PromotionPolicies : /\ p \in Policy
                                    /\ p.records <= p.attempts /\ p.blocks <= p.attempts
    /\ Absent \notin Books /\ Absent \notin Nat

VARIABLES
    history,     \* the inclusions there are
    manifests,   \* declared windows
    records,     \* historical execution records
    corpora, boards, reports, values, decisions

vars == <<history, manifests, records, corpora, boards, reports, values, decisions>>

HasRoom(S, kind) == Cardinality(S) < MaxMade[kind]

-----------------------------------------------------------------------------
(* What a record says of its attempt. *)

FactsOf(x) == Facts[x.inclusion]
TermsOf(x) == FactsOf(x).terms
ReceiptOf(x) == FactsOf(x).receipt
Capital(x) == TermsOf(x).principal
Scoreable(x) == x.outcome

Par == [num |-> 1, den |-> 1]
RateOf(x) == IF x.book = Absent THEN Par ELSE x.book

Predicted(x) == NetProfit(TermsOf(x))
Historical(x) == Surplus(ReceiptOf(x), RateOf(x), TermsOf(x))
Error(x) == Historical(x) - Predicted(x)
Magnitude(n) == IF n < 0 THEN -n ELSE n
AbsoluteError(x) == Magnitude(Error(x))

Respected(x) ==
    /\ BoundsRespected(ReceiptOf(x), TermsOf(x))
    /\ ActualExternal(ReceiptOf(x), RateOf(x)) <= ExternalCost(TermsOf(x))

Preserved(x) ==
    /\ Respected(x)
    /\ Residual(TermsOf(x).output, TermsOf(x)) <= Residual(ReceiptOf(x).output, TermsOf(x))
    /\ Predicted(x) <= Historical(x)

Overran(x) == NativeBound(TermsOf(x)) < NativePaid(ReceiptOf(x))

Disposition(x) ==
    IF ~FactsOf(x).success THEN "reverted"
    ELSE IF x.outcome THEN "settled"
    ELSE IF FactsOf(x).event THEN "settlement-evidence-incomplete"
    ELSE "settlement-missing"

(* The key of a cohort that leaves out how its costs are valued. *)
CohortOf_AnyValuation(x) ==
    [chain |-> FactsOf(x).chain, lane |-> FactsOf(x).lane,
     base |-> FactsOf(x).base, finality |-> FactsOf(x).finality]

CohortOf(x) ==
    [chain |-> FactsOf(x).chain, lane |-> FactsOf(x).lane,
     base |-> FactsOf(x).base, finality |-> FactsOf(x).finality,
     valuation |-> x.policy]

-----------------------------------------------------------------------------
(* Ratios in basis points. *)

(* A share is rounded down; nothing of nothing is 0. *)
ShareBps(part, whole) == IF whole = 0 THEN 0 ELSE (part * BasisPoints) \div whole

ReturnBps(amount, capital) == (amount * BasisPoints) \div capital

ErrorBps(error, capital) == CeilDiv(error * BasisPoints, capital)

Mean(total, n) == IF n = 0 THEN 0 ELSE total \div n

MeanUp_Down(total, n) == IF n = 0 THEN 0 ELSE total \div n

MeanUp(total, n) == IF n = 0 THEN 0 ELSE CeilDiv(total, n)

(* Totals over a set of records.  Aggregates outside the governed domain   *)
(* are refused.                                                            *)
TotalPredicted(S) == SumFunction([x \in S |-> Predicted(x)])
TotalHistorical(S) == SumFunction([x \in S |-> Historical(x)])
TotalError(S) == SumFunction([x \in S |-> Error(x)])
TotalAbsoluteError(S) == SumFunction([x \in S |-> AbsoluteError(x)])
TotalCapital(S) == SumFunction([x \in S |-> Capital(x)])

Governed(n) == n \in -MaxAggregate .. MaxAggregate

BlocksOf(S) == {FactsOf(x).block : x \in S}

-----------------------------------------------------------------------------
(* Records. *)

(* The book holds exactly the rate that the policy needs, from its source  *)
(* and valid when the block was made; none if the assets are the same.     *)
ValidBook(policy, book, time) ==
    IF policy.native = policy.base THEN book = Absent
    ELSE /\ book # Absent
         /\ book.native = policy.native /\ book.base = policy.base
         /\ book.source = policy.source
         /\ book.from <= time /\ time <= book.until

(* What F7 and F8 both demand of a settlement event. *)
Settles(f) == /\ f.success
              /\ MinimumFinal(f.terms) <= f.receipt.output
              /\ f.receipt.direct <= f.terms.bid

(* An attempt may be recorded without its outcome although it has one; it  *)
(* then carries no rate.                                                   *)
RecordAttempt(i, outcome, policy, book, t) ==
    LET f == Facts[i]
        x == [inclusion |-> i, outcome |-> outcome, policy |-> policy, book |-> book,
              recorded |-> t]
    IN
    /\ i \in history /\ HasRoom(records, "records")
    /\ policy.native = f.native /\ policy.base = f.base
    /\ f.event => Settles(f)
    /\ f.created <= t
    /\ IF outcome
       THEN /\ f.settled # Absent /\ f.settled <= t
            /\ ValidBook(policy, book, f.time)
            /\ Fits(NativePaid(f.receipt) * RateOf(x).num)
       ELSE book = Absent
    /\ records' = records \cup {x}
    /\ UNCHANGED <<history, manifests, corpora, boards, reports, values, decisions>>

-----------------------------------------------------------------------------
(* Manifest and corpus. *)

SamePlace(i, j) == Facts[i].block = Facts[j].block /\ Facts[i].index = Facts[j].index

(* No package, transaction or position is referred to twice. *)
Distinct(refs) ==
    \A i, j \in refs : i # j =>
        /\ Facts[i].transaction # Facts[j].transaction
        /\ Facts[i].package # Facts[j].package
        /\ ~SamePlace(i, j)

DeclareWindow(refs, chain, w, t) ==
    /\ HasRoom(manifests, "manifests")
    /\ refs # {} /\ refs \subseteq history
    /\ Cardinality(refs) <= MaxRecords
    /\ w.from <= w.to
    /\ \A i \in refs : Facts[i].chain = chain /\ Facts[i].block \in w.from .. w.to
    /\ Distinct(refs)
    /\ manifests' = manifests \cup {[references |-> refs, chain |-> chain, window |-> w,
                                     created |-> t]}
    /\ UNCHANGED <<history, records, corpora, boards, reports, values, decisions>>

Referenced(S) == {x.inclusion : x \in S}

(* Every record answers a reference, but not every reference is answered. *)
UsesUp_Partly(S, refs) ==
    /\ \A x, y \in S : x # y => x.inclusion # y.inclusion
    /\ Referenced(S) \subseteq refs

(* Records and references are the same attempts, each once. *)
UsesUp(S, refs) ==
    /\ \A x, y \in S : x # y => /\ x.inclusion # y.inclusion
                                /\ FactsOf(x).transaction # FactsOf(y).transaction
                                /\ ~SamePlace(x.inclusion, y.inclusion)
    /\ Referenced(S) = refs

(* Only the manifest is compared with the creation time. *)
Follows_Manifest(m, S, t) == m.created <= t

Follows(m, S, t) == m.created <= t /\ \A x \in S : x.recorded <= t

AssembleCorpus(m, S, t) ==
    /\ HasRoom(corpora, "corpora")
    /\ m \in manifests /\ S \subseteq records /\ S # {}
    /\ Cardinality(S) <= MaxRecords
    /\ Follows(m, S, t)
    /\ UsesUp(S, m.references)
    /\ corpora' = corpora \cup {[manifest |-> m, records |-> S, created |-> t]}
    /\ UNCHANGED <<history, manifests, records, boards, reports, values, decisions>>

Cohorts(c) == {CohortOf(x) : x \in c.records}

RecordsFor(c, cohort) == {x \in c.records : CohortOf(x) = cohort}

-----------------------------------------------------------------------------
(* Scoreboard. *)

Count(S, Test(_)) == Cardinality({x \in S : Test(x)})

(* Everything is counted over the records S; economics over those of them  *)
(* that are scoreable.                                                     *)
Tally(S) ==
    LET scored == {x \in S : Scoreable(x)}
        n == Cardinality(scored)
        historical == TotalHistorical(scored)
        absolute == TotalAbsoluteError(scored)
        capital == TotalCapital(scored)
    IN [attempts |-> Cardinality(S),
        successes |-> Count(S, LAMBDA x : FactsOf(x).success),
        observed |-> Count(S, LAMBDA x : FactsOf(x).event),
        dispositions |-> [d \in {"settled", "reverted", "settlement-missing",
                                 "settlement-evidence-incomplete"} |->
                              Count(S, LAMBDA x : Disposition(x) = d)],
        scoreable |-> n,
        blocks |-> Cardinality(BlocksOf(S)),
        scoreableBlocks |-> Cardinality(BlocksOf(scored)),
        preserved |-> Count(scored, Preserved),
        simulated |-> Count(scored, LAMBDA x : FactsOf(x).simulated),
        respected |-> Count(scored, Respected),
        positive |-> Count(scored, LAMBDA x : Historical(x) > 0),
        overran |-> Count(scored, Overran),
        predicted |-> TotalPredicted(scored),
        historical |-> historical,
        error |-> TotalError(scored),
        absolute |-> absolute,
        allCapital |-> TotalCapital(S),
        capital |-> capital,
        mean |-> Mean(historical, n),
        meanError |-> MeanUp(absolute, n),
        guarded |-> Mean(historical, n) - MeanUp(absolute, n),
        return |-> IF capital = 0 THEN 0 ELSE ReturnBps(historical, capital),
        errorBps |-> IF capital = 0 THEN 0
                     ELSE LET bps == ErrorBps(absolute, capital)
                          IN IF Fits(bps) THEN bps ELSE MaxUint]

(* Every sum and the guarded mean stay within the governed domain. *)
GovernedTally(t) ==
    /\ \A n \in {t.predicted, t.historical, t.error, t.absolute, t.allCapital,
                 t.capital, t.guarded} : Governed(n)
    /\ Magnitude(t.historical) <= MaxAggregate \div BasisPoints

ScoreCohort(c, cohort, t) ==
    LET tally == Tally(RecordsFor(c, cohort)) IN
    /\ HasRoom(boards, "boards")
    /\ c \in corpora /\ c.created <= t
    /\ RecordsFor(c, cohort) # {}
    /\ GovernedTally(tally)
    /\ boards' = boards \cup {[corpus |-> c, cohort |-> cohort, created |-> t,
                               tally |-> tally]}
    /\ UNCHANGED <<history, manifests, records, corpora, reports, values, decisions>>

RecordsOf(b) == RecordsFor(b.corpus, b.cohort)

-----------------------------------------------------------------------------
(* Calibration. *)

(* The bucket of a return that equals an upper bound is the one below it. *)
BucketOf_UpperInclusive(return, bounds) ==
    IF \A k \in 1 .. Len(bounds) : bounds[k] < return THEN Len(bounds) + 1
    ELSE CHOOSE k \in 1 .. Len(bounds) :
            return <= bounds[k] /\ \A j \in 1 .. (k - 1) : bounds[j] < return

(* The first bucket whose upper bound exceeds the return, else the last. *)
BucketOf(return, bounds) ==
    IF \A k \in 1 .. Len(bounds) : bounds[k] <= return THEN Len(bounds) + 1
    ELSE CHOOSE k \in 1 .. Len(bounds) :
            return < bounds[k] /\ \A j \in 1 .. (k - 1) : bounds[j] <= return

PredictedReturn(x) == ReturnBps(Predicted(x), Capital(x))

Lower(k, bounds) == IF k = 1 THEN 0 ELSE bounds[k - 1]

Upper(k, bounds) == IF k <= Len(bounds) THEN bounds[k] ELSE Absent

Bucket(S, bounds, k) ==
    LET inside == {x \in S : BucketOf(PredictedReturn(x), bounds) = k}
        scored == {x \in inside : Scoreable(x)}
    IN [lower |-> Lower(k, bounds), upper |-> Upper(k, bounds),
        attempts |-> Cardinality(inside),
        scoreable |-> Cardinality(scored),
        preserved |-> Count(scored, Preserved),
        predicted |-> TotalPredicted(scored),
        historical |-> TotalHistorical(scored),
        error |-> TotalError(scored),
        absolute |-> TotalAbsoluteError(scored)]

Buckets(S, bounds) == [k \in 1 .. (Len(bounds) + 1) |-> Bucket(S, bounds, k)]

(* What the constructor of a bucket demands of its figures. *)
SoundBucket(b) ==
    /\ \A n \in {b.predicted, b.historical, b.error, b.absolute} : Governed(n)
    /\ b.preserved <= b.scoreable /\ b.scoreable <= b.attempts
    /\ b.error = b.historical - b.predicted

Calibrate(b, bounds, t) ==
    LET buckets == Buckets(RecordsOf(b), bounds) IN
    /\ HasRoom(reports, "reports")
    /\ b \in boards /\ b.created <= t
    /\ \A x \in RecordsOf(b) : PredictedReturn(x) >= 0
    /\ \A k \in DOMAIN buckets : SoundBucket(buckets[k])
    /\ SumFunction([k \in DOMAIN buckets |-> buckets[k].attempts]) = b.tally.attempts
    /\ reports' = reports \cup {[board |-> b, bounds |-> bounds, created |-> t,
                                 buckets |-> buckets]}
    /\ UNCHANGED <<history, manifests, records, corpora, boards, values, decisions>>

-----------------------------------------------------------------------------
(* Expected value and decision. *)

EstimateValue(b, t) ==
    /\ HasRoom(values, "values")
    /\ b \in boards /\ b.created <= t
    /\ values' = values \cup {[board |-> b, created |-> t]}
    /\ UNCHANGED <<history, manifests, records, corpora, boards, reports, decisions>>

Available(v) == v.board.tally.scoreable > 0

(* What a promotion takes; every gate that is closed becomes a reason. *)
Gates(b, report, value, p) ==
    LET t == b.tally IN
    [available |-> Available(value),
     attempts |-> p.attempts <= t.attempts,
     scoreableRecords |-> p.records <= t.scoreable,
     scoreableRate |-> p.scoreableRate <= ShareBps(t.scoreable, t.attempts),
     successRate |-> p.successRate <= ShareBps(t.successes, t.attempts),
     floorRate |-> p.floorRate <= ShareBps(t.preserved, t.scoreable),
     costRate |-> p.costRate <= ShareBps(t.respected, t.scoreable),
     positiveRate |-> p.positiveRate <= ShareBps(t.positive, t.scoreable),
     uniqueScoreableBlocks |-> p.blocks <= t.scoreableBlocks,
     overrunRate |-> ShareBps(t.overran, t.scoreable) <= p.overrunRate,
     errorRate |-> t.errorBps <= p.errorRate,
     guardedMean |-> p.guarded <= t.guarded,
     buckets |-> \A k \in DOMAIN report.buckets :
                    report.buckets[k].attempts > 0 =>
                        p.perBucket <= report.buckets[k].scoreable]

(* The share of records within their cost bounds is not looked at. *)
RefusedBy_CostsAside(gates) == {g \in DOMAIN gates \ {"costRate"} : ~gates[g]}

RefusedBy(gates) == {g \in DOMAIN gates : ~gates[g]}

Decide(b, report, value, p, t) ==
    /\ HasRoom(decisions, "decisions")
    /\ b \in boards /\ report \in reports /\ value \in values
    /\ b.created <= t /\ report.created <= t /\ value.created <= t
    /\ report.board = b /\ value.board = b
    /\ decisions' = decisions \cup
           {[board |-> b, report |-> report, value |-> value, policy |-> p,
             created |-> t, reasons |-> RefusedBy(Gates(b, report, value, p))]}
    /\ UNCHANGED <<history, manifests, records, corpora, boards, reports, values>>

Allowed(d) == d.reasons = {}

-----------------------------------------------------------------------------
Init ==
    /\ history \in Histories
    /\ manifests = {} /\ records = {} /\ corpora = {}
    /\ boards = {} /\ reports = {} /\ values = {} /\ decisions = {}

Next ==
    \E t \in Times :
        \/ \E i \in history, outcome \in BOOLEAN, policy \in ValuationPolicies,
              book \in Books \cup {Absent} : RecordAttempt(i, outcome, policy, book, t)
        \/ \E refs \in SUBSET history, w \in Windows :
              \E chain \in {Facts[i].chain : i \in refs} : DeclareWindow(refs, chain, w, t)
        \/ \E m \in manifests, S \in SUBSET records : AssembleCorpus(m, S, t)
        \/ \E c \in corpora : \E cohort \in Cohorts(c) : ScoreCohort(c, cohort, t)
        \/ \E b \in boards, bounds \in BucketBounds : Calibrate(b, bounds, t)
        \/ \E b \in boards : EstimateValue(b, t)
        \/ \E b \in boards, report \in reports, value \in values, p \in PromotionPolicies :
              Decide(b, report, value, p, t)

Spec == Init /\ [][Next]_vars

-----------------------------------------------------------------------------
(* Properties. *)

(* The declared window is measured without loss or repetition (corpus      *)
(* 949-972, scoreboard 1025-1143): the scoreboards of all cohorts of a     *)
(* corpus together count every reference of its manifest once, with the    *)
(* success and the capital that the chain gives it.                        *)
EveryAttemptIsCountedOnce ==
    \A c \in corpora : \A B \in SUBSET {b \in boards : b.corpus = c} :
        LET refs == c.manifest.references IN
        /\ {b.cohort : b \in B} = Cohorts(c)
        /\ Cardinality(B) = Cardinality(Cohorts(c))
        => /\ SumFunction([b \in B |-> b.tally.attempts]) = Cardinality(refs)
           /\ SumFunction([b \in B |-> b.tally.successes])
                = Cardinality({i \in refs : Facts[i].success})
           /\ SumFunction([b \in B |-> b.tally.allCapital])
                = SumFunction([i \in refs |-> Facts[i].terms.principal])
           /\ \A b \in B : b.tally.attempts = SumFunction(b.tally.dispositions)

(* A scoreboard has one yardstick (cohort key 205-358): what its records   *)
(* spent is converted at rates of one source.                              *)
OneYardstick ==
    \A b \in boards : \A x, y \in RecordsOf(b) :
        x.book # Absent /\ y.book # Absent => x.book.source = y.book.source

(* A calibration report puts every attempt of its scoreboard, scoreable or *)
(* not, into the one bucket whose bounds hold its exact return, and the    *)
(* figures of the buckets add up to those of the scoreboard (1353-1410).   *)
BucketsReconcile ==
    \A r \in reports :
        LET rs == RecordsOf(r.board)
            Within(x, k) ==
                /\ r.buckets[k].lower * Capital(x) <= Predicted(x) * BasisPoints
                /\ r.buckets[k].upper # Absent =>
                     Predicted(x) * BasisPoints < r.buckets[k].upper * Capital(x)
        IN
        /\ \A k \in DOMAIN r.buckets :
              /\ r.buckets[k].attempts = Cardinality({x \in rs : Within(x, k)})
              /\ r.buckets[k].scoreable
                   = Cardinality({x \in rs : Within(x, k) /\ Scoreable(x)})
        /\ \A x \in rs : Cardinality({k \in DOMAIN r.buckets : Within(x, k)}) = 1
        /\ SumFunction([k \in DOMAIN r.buckets |-> r.buckets[k].historical])
             = r.board.tally.historical
        /\ SumFunction([k \in DOMAIN r.buckets |-> r.buckets[k].absolute])
             = r.board.tally.absolute

(* The guarded mean promises no more than was both predicted and earned    *)
(* (1079-1081): n times it is at most the sum of the smaller of the two.   *)
GuardedMeanUnderstates ==
    \A b \in boards :
        LET scored == {x \in RecordsOf(b) : Scoreable(x)} IN
        b.tally.scoreable * b.tally.guarded
          <= SumFunction([x \in scored |-> IF Predicted(x) < Historical(x) THEN Predicted(x)
                                           ELSE Historical(x)])

(* A promotion is earned (1687-1749): every limit of its policy holds for  *)
(* the exact figures of the records themselves, a maximal share within one *)
(* basis point; what was earned, less every error of a prediction, pays    *)
(* the guarded minimum for each scored record.  Records without outcome    *)
(* are no more than the scoreable rate admits, do not count as blocks, and *)
(* each has enough scored records in its bucket.                           *)
PromotionIsEarned ==
    \A d \in decisions : Allowed(d) =>
        LET p == d.policy
            rs == RecordsOf(d.board)
            scored == {x \in rs : Scoreable(x)}
            n == Cardinality(scored)
        IN
        /\ p.attempts <= Cardinality(rs) /\ p.records <= n
        /\ Cardinality(rs \ scored) * BasisPoints
             <= (BasisPoints - p.scoreableRate) * Cardinality(rs)
        /\ p.successRate * Cardinality(rs)
             <= Cardinality({x \in rs : FactsOf(x).success}) * BasisPoints
        /\ p.floorRate * n <= Cardinality({x \in scored : Preserved(x)}) * BasisPoints
        /\ p.costRate * n <= Cardinality({x \in scored : Respected(x)}) * BasisPoints
        /\ p.positiveRate * n <= Cardinality({x \in scored : Historical(x) > 0}) * BasisPoints
        /\ Cardinality({x \in scored : Overran(x)}) * BasisPoints < (p.overrunRate + 1) * n
        /\ p.blocks <= Cardinality(BlocksOf(scored))
        /\ TotalAbsoluteError(scored) * BasisPoints <= p.errorRate * TotalCapital(scored)
        /\ p.guarded * n <= TotalHistorical(scored) - TotalAbsoluteError(scored)
        /\ \A x \in rs :
              LET k == BucketOf(PredictedReturn(x), d.report.bounds) IN
              p.perBucket <= Cardinality({y \in scored :
                                 BucketOf(PredictedReturn(y), d.report.bounds) = k})

(* A decision, with everything that it rests on four stages away, speaks   *)
(* of one scoreboard and was created after all of it (1676-1686): after    *)
(* the window was declared, every record was made and every inclusion and  *)
(* outcome that these use was established.                                 *)
DecisionFollowsItsEvidence ==
    \A d \in decisions :
        LET c == d.board.corpus IN
        /\ d.report.board = d.value.board
        /\ c.manifest.created <= d.created
        /\ \A i \in c.manifest.references : Facts[i].created <= d.created
        /\ \A x \in RecordsOf(d.report.board) :
              /\ x.recorded <= d.created
              /\ Scoreable(x) => FactsOf(x).settled <= d.created
=============================================================================
