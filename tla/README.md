# Formal models of the Aladdin MEV engine

This directory holds TLA+ models of the offline evidence engine, the TLC
configurations that check them on small instances, and TLAPS proofs of the
properties that matter most. Source paths are relative to
`src/aladdin_mev_engine/`; docs are in `governance/`.

## The system

The engine is a Python library without network, keys or authority. Its stages
hand immutable, content-addressed evidence to each other; each constructor
re-validates what it is given. Most of it is stateless, so the hard behaviour is
concentrated in five stateful parts, in the validity windows that tie evidence
of different ages together, and in exact integer algorithms.

| Component | State | Operations | What is hard | What makes it correct |
|---|---|---|---|---|
| Head tracker (`head_tracker.py`) | tracked nodes, canonical hash, last sequence and digest | `apply` | heads out of order, reorgs, rollbacks, conflicting claims, the ceiling | the tree is rooted and never rewritten; the canonical branch moves only by extending or replacing a suffix |
| Observation ledger (`ledger.py`) | predecessor, checkpoints, records of one open segment | builder start, `append`, `seal`; `validate_segment(_chain)` | two programs state the same rules; several builders; altered storage | what is sealed replays, what replays has no gap |
| Segment storage (`ledger_io.py`) | file system: names, inodes, link counts, what is durable | `write_segment_once`, `read_segment_stable` | races, failed calls, crashes, roll back | a published file is complete, durable once acknowledged, never replaced |
| Source contracts, observations (`source_contracts.py`, `observation.py`) | none | parse, validate | field checks | – |
| Governor and policy (`risk.py`, `policy.py`) | operating mode | `apply`, `evaluate` | long sequences of incidents and approvals | no mode without its approvals, incidents hold |
| Risk budget (`risk.py`, `context_evidence.py`) | pending reservations, settled profit | `authorize`, `reserve`, `settle`, `capture` | snapshot used after the ledger changed; losses beyond reservations | exposure within the daily limit |
| Route optimizer (`optimizer.py`) | heap of intervals, incumbent, counters | `optimize_route` | pruning with rounded bounds, ties, budgets | an exact result is the smallest best input; a budget that covers the inputs is enough |
| Pools and routes (`constant_product.py`, `opportunity_graph.py`, `opportunity.py`) | none; the stack of the enumeration | read pools off evidence, quote, safe input, enumerate, search | uint256 and packed widths, monotone capacity, work ceilings, pools of different states | the safe input is the largest that quotes; a report lists every cycle of one state, its opportunities are swaps in that state |
| Authenticated state (`mpt.py`, `rlp.py`, `keccak.py`, `state_proof*.py`) | none; the position of the proof walk | verify proofs, evidence, snapshots | embedded, repeated, missing and unused nodes; claims checked one after the other | only what the root commits to is accepted, in one way only |
| Shadow decision (`profit.py`, `cost_evidence.py`, `execution_plan.py`, `assets.py`) | none; validity windows | build plan, envelope, net evidence, decide | evidence that expires between steps, two simulations | no decision on stale or disagreeing evidence |
| Unsigned package (`execution_package.py`, `evm_abi.py`, `evm_transaction.py`, `deployments.py`) | none; validity windows | build, simulate, bundle | nonce and head move on | the package is what was simulated |
| Relay evidence (`signed_transaction.py`, `relay_evidence.py`, `secp256k1.py`) | none | bind signature, record responses | late, repeated, reordered answers | answers belong to the request |
| Outcome (`execution_outcome.py`, `evm_receipt.py`) | none | realized outcome | reverted or partly evidenced inclusion | only authenticated settlement counts |
| Scoreboard (`historical_scoreboard.py`) | none; corpora | corpus, score, calibrate, promote | dropped or repeated attempts, unscoreable padding, mixed cohorts, rounding | every manifest reference is used once; what is promoted has earned it on the records themselves |

Interaction: observed heads and ledger records are independent recordings of
the same sources; authenticated state feeds pools, pools feed routes, the
optimizer searches one route, its opportunity is priced into a decision that
captures a snapshot of the risk ledger; later stages only wrap earlier
evidence. The governor and the strategy policy are read by no other part. All parts are called synchronously; real concurrency exists
only between processes that share a segment directory and between callers that
hold evidence while the ledger it describes moves on.

## Modules

| Module | Models | State and actions |
|---|---|---|
| `HeadTracker` | `head_tracker.py` | `nodes`, `tip`, `sequence` and the last transition; one action per return or raise of `apply` |
| `CanonicalChain` | the promise of the tracker | a branch that is bootstrapped, extended by a child, or loses a suffix and gains one |
| `ObservationLedger` | `ledger.py` | sealed segments, builders; `Start`, `AppendRecord`, `Seal`, `Exit`, and `Rewrite` of storage outside the program |
| `SegmentStore` | `ledger_io.py` | names, inodes, durable view, one program counter per process; one action per system call |
| `RiskGovernor` | governor of `risk.py`, `policy.py` | mode, last decision, open incidents and approvals as history; one action per branch of `apply` |
| `RiskBudget` | ledger of `risk.py`, `RiskBudgetEvidence` | reservations, settled profit, one held snapshot; `Reserve`, `Settle`, `Capture` |
| `ConstantProduct` | quoting and bounds | operators over hops and routes, integers of width `MaxUint` |
| `RouteOptimizer` | `optimizer.py` | the search loop; one action per branch of the loop |
| `ShadowEconomics` | `assets.py`, `profit.py` and the arithmetic of `cost_evidence.py`, `evm_abi.py`, `execution_outcome.py`, `historical_scoreboard.py` | operators over one record of figures: conversion, costs, grounds of refusal, floors, surplus |
| `ExecutionEvidence` | decision, package, signature, relay, outcome and record: F4 to the record of F8 | `made` holds the creation time and published expiry of each artefact, `responses`, `inclusion`, `outcome` and `record` what follows; one action per constructor |
| `TrieProofs` | `mpt.py` | `walk`: the node at hand, the rest of the key, the nodes used; one action for the presentation of a list and one per kind of node |
| `AuthenticatedState` | `state_proof_types.py`, `state_proof_evidence.py` | `job` (the observation being verified and how far it has come), `evidence`; begin, walk, accept, reject, conclude |
| `OpportunitySearch` | pools and universes of `constant_product.py`, cycles of `opportunity_graph.py`, reports of `opportunity.py` | `universes`, `search` (the stack of `visit()`), `reports`; one action per branch of the enumeration |
| `HistoricalScoreboard` | manifests to decisions of `historical_scoreboard.py` | one set for each kind of object; one action per constructor |
| `*Proofs` | the theorems about the module they are named after; `RiskProofs` those about `RiskGovernor` and `RiskBudget` | |

`MC*` modules give the constants their values. Definitions whose name has a
suffix after an underscore (`Fork_RemovesTipOnly`) are deliberately faulty
variants of the definition they are named after: each property is known to be
able to fail because one of them breaks it.

Composition: `RouteOptimizer` takes the arithmetic of a route as constant
operators under the assumption `BoundAssumption`; `MCRouteOptimizer`
instantiates `ConstantProduct` for them, so the run checks search and arithmetic
together while the proofs are about every sound bound; that the bounds of
`ConstantProduct` are sound is a theorem too (`ArithmeticServesTheSearch`). `HeadTracker`
instantiates `CanonicalChain` with a refinement mapping. `ExecutionEvidence`
extends `ShadowEconomics`. `AuthenticatedState` takes each claim through a walk
of `TrieProofs`, and `OpportunitySearch` composes it with the pools that are
read off its evidence and the search over them; the optimum of a route is there
what `RouteOptimizer`'s `ResultIsExact` says of it, over the same
`ConstantProduct`. `HistoricalScoreboard` starts from inclusions like those that
`ExecutionEvidence` ends with and shares `ShadowEconomics` with it. `RiskBudget` holds the snapshot of the ledger that
`ExecutionEvidence` takes as the recorded input `risk`.

## Abstractions

- A digest is the object it is a digest of: where the code compares digests to
  bind one object to another, the model has one object. Canonical JSON, Keccak,
  RLP, ABI and signature arithmetic are left out.
- `HeadTracker`: timestamps and numbers are small integers, claims a given set.
- `ObservationLedger`: an observation is source, sequence, time and event; a
  segment is its records and opening and closing checkpoints.
- `SegmentStore`: a file is empty, partly written or whole; a crash leaves what
  was made durable by `fsync` and any part of what was not. `Retry` and
  `Crash` stand for the caller and the machine.
- `RiskBudget`: amounts are small; `overrun` and the realized profit are bounded
  by `MaxOverrun` and `MaxProfit`, so the run is finite; the proofs do not use
  these bounds.
- `ExecutionEvidence`: all fields of an attempt are one record of figures; the
  simulations of a stage share one window; the five reserve components are
  summed (each is already in the base token); a bundle has one transaction, as
  the package demands. Left out: simulated block figures, block numbers and
  target ranges, intrinsic gas, observation times of inclusion proofs, registry
  look-ups, what a relay response says.
- `TrieProofs`: a node is its hash, `Node` what the hash stands for, `Entries`
  what is committed to below it; the assumption `TrieAssumption` ties the two
  together, and `Height` with `HeightAssumption` says that no node is below itself,
  since a name is the hash of an encoding that holds the names below. Encodings,
  Keccak and the byte ceilings are left out; whether an encoding is short, and so
  must be embedded, is kept. An embedded node is shorter than 32 bytes and each level
  takes at least two of them, so `MAX_EMBEDDED_NODE_DEPTH` (32) is never reached.
- `AuthenticatedState`: nothing authenticates the state root, as in the code;
  sources may claim any. The node lists of a proof are chosen when they are read.
- `OpportunitySearch`: behaviours verify first and search then. A universe holds
  its evidence for good, so later evidence cannot change what is found in it.
  Routes that exhaust their budget are chosen (`MaxLost` of them) when the limits
  are tight.
- `HistoricalScoreboard`: a list of records or references is a set, since the
  code refuses a list that names one twice. Everything else of a cohort
  (contracts, builders, policies) is one field, `lane`.
- `SegmentStore`: a new file gets the next number that no file had.

## What each run checks

| Run | Question and answer | Bounds |
|---|---|---|
| `HeadTracker` | Heads of a tree with two branches, in every order, together with contradictory claims: the tree stays rooted, stored heads do not change, a head is an orphan exactly when its claimed ancestry is unknown, and every emitted transition is one of an abstract canonical chain (`ImplementsCanonicalChain`). | 11 claims, four retained heads, five sequence numbers: enough for a reorg over two blocks, a rollback, return to the old branch and a full tracker |
| `HeadTrackerShape` | Violation: a connected head is refused after a rollback (finding 1). | as above |
| `HeadTrackerCyclic` | Violation: a parent observed after its child is not compared with it (finding 2). | three claims |
| `Ledger` | Builders start, append, seal and disappear; one stored segment may be rewritten: what a builder seals passes replay, a chain that passes replay has no gap in the sequence of any source, and its checkpoints are those of its own records. That an event of an earlier segment is not recorded again is no part of it: the code compares events within a segment. | two records a segment, three files, two sources, one builder at a time (several in sequence over the same history) |
| `Store` | Two writers and a reader of one path, all interleavings of system calls: what a reader accepts is complete, what was acknowledged survives a crash, undisturbed readers agree, and a failing writer undoes only its own publication. If no call fails and nothing crashes, one of the writers publishes (`SomeWriterPublishes`). | one failed call, one crash, two temporary names, three files |
| `StoreOverwrite` | Violation: a segment already read is replaced (finding 3). | one failed call |
| `RiskGovernor` | Every sequence of events and evaluations: incidents hold the mode and every rung has its approval. | none needed: the state space is finite |
| `RiskBudget` | Candidates reserve, settle with profit, loss or overrun, and snapshots are taken and used in any order: exposure stays within the daily limit up to overruns, a snapshot agrees with the ledger it describes, and while the realized loss exceeds the limit nothing is reserved. (At a loss equal to the limit a request without cost still is.) | three candidates, costs to 3 against limits that one request can exceed by one and two can exhaust |
| `Optimizer` | The search over every pair of 22 small pools and some triples: nothing better than the incumbent is lost, an exact result is the smallest best input of an exhaustive search, every result passes the constructor of `OptimizationResult`, the safe input is the largest that quotes, 2n - 1 intervals are always enough for n inputs (`EnoughIntervalsSuffice`), the loop ends. `BoundAssumption` is evaluated for every route and interval: the rational bound dominates every exact profit. | inputs to 12, 10-bit arithmetic, 3, 12 and 23 intervals (23 = 2 * 12 - 1), threshold 1 and 2 |
| `Evidence` | Every order of constructors with any claimed times; windows vary one input at a time, figures over a grid of outputs, gas, bids, rates, policies and slippage: see the properties below. | five ticks, two a second; basis 4; 6-bit limits that some figures exceed |
| `Search` | Node lists, true and twisted, for presence and absence in small tries; evidence, snapshots, universes and reports from them: see the properties below. | two blocks and a made-up root with malformed nodes; four pools of two models over three tokens; cycles of two and three legs; ceilings (four routes, 19 steps, nine units of work) that some requests exceed; four pieces of evidence, one universe, one report |
| `History` | Four histories of three inclusions, recorded with and without outcomes at any claimed times, to decisions: see the properties below. | one manifest, three records, one corpus, two scoreboards, two reports, two values, one decision; two times; basis 10, principals of 10 and of 7, whose returns are rounded. The histories between them have every disposition, a transaction included twice, two base assets, two sources of rates and two chains |

Properties of `Evidence`: `ExpiryIsTransitive` (no stage outlives an input, at
any distance), `NothingPredatesItsInputs`, `IncludedWithinValidity` (rounding a
deadline to seconds never admits a late block), `ApprovalIsCallable` (decision
and floors are computed in two places with two roundings and still agree),
`SettlementKeepsPolicy` (the floor that the chain enforces is enough to keep
the policy when the output falls short), `PredictionIsConservative` (three tests
of a preserved floor agree when the valuation has not risen).

Properties of `Search`: `OneProofPerKey` (a list is accepted exactly if it is
the way from the root along the key, each node once, in order), `ProofsTellTheState`
(evidence repeats the tries under its anchor's root), `ReportSpeaksForOneState`
(code, tokens and reserves of all pools of a report are those of one state),
`OpportunitiesAreSwappable` (taken leg by leg through the pools of that state,
an opportunity returns its profit and no input within the limits returns more),
`ReportIsExhaustive` (a report lists all simple cycles through its base or there
is no report). The first two say of the tries what is read from
`Entries`, which is defined by the content of the nodes and not by the walk. The
tries of the run need few nodes, so it says nothing of the boundary `MaxProofNodes`;
the theorem `EachKeyHasOneProof` covers it.

Of the properties of `Optimizer`, `SearchEnds` says only that every turn of the
loops makes progress: the interval budget ends the search whatever a split does.
That splits shrink and do not overlap is what `EnoughIntervalsSuffice` is about.

Properties of `History`: `EveryAttemptIsCountedOnce` (over all cohorts of a
corpus, each reference of the manifest with the success and capital it has on
chain), `OneYardstick` (no scoreboard mixes sources of rates), `BucketsReconcile`
(buckets partition the attempts by their exact return and add up to the
scoreboard), `GuardedMeanUnderstates` (never more than the smaller of predicted
and earned), `PromotionIsEarned` (each limit of the policy restated over the
records, shares and the guarded mean with exact fractions, a maximal share to
within a basis point), `DecisionFollowsItsEvidence`. The policies of the run are
such that leaving out any one gate promotes what it should have refused, but for
`available`, which the minimum of scored records implies.

Windows that expire one at a time are enough for `ExpiryIsTransitive` because
the property is a conjunction over inputs; the theorem covers the rest.

## Where the code and its documents differ

1. `head_tracker.py:247`. After a rollback, a connected head two or more blocks
   above the rolled-back tip has that tip as its common ancestor, so nothing is
   removed and several heads are added. `HeadTransition` refuses this shape and
   `apply` raises, although `F1_OBSERVATION_LEDGER.md` line 77 promises a reorg.
2. `head_tracker.py:510`. Height and timestamp are compared with the parent only
   if the parent is known when the child arrives; line 79 of that document says
   inconsistencies fail closed. The same omission is the exact limit of
   `ImplementsCanonicalChain`: if `r` is bootstrapped, `p` extends it and `q` is a
   claim that `r` is its child, a reorg to `q` leaves the chain `p, r, q`, which is
   no branch. The theorem therefore assumes that known parents are consistent
   (`KnownParentsConsistent`, which holds in every state of the run `HeadTracker`).
3. `ledger_io.py:157`. A failing call after `link` removes a published segment
   that may have been read, and another takes its place; `F1_ACCEPTANCE.md`
   line 15 says storage is no-overwrite.

Observed without a document that says otherwise, and stated in the models:

- A snapshot of the risk budget reserves nothing; a decision on it can be
  outdated when it is used. `Reserve` decides again on the ledger.
- The policy's limit on the age of the state is applied at the decision and does
  not enter the published expiry; the bundle bounds the age of the anchor anew.
- The signed package is compared with the relay request, not with the unsigned
  package it contains, so it may claim an earlier creation.
- A block may include the transaction after the anchor's freshness and the
  simulations have expired: only the deadline of the call binds the chain.
- A crash between `link` and `unlink` (`ledger_io.py:140`) leaves the segment
  under two names. Readers refuse it and writers find the name taken, so that
  the path stays unreadable until someone removes the other name.
- Reports and opportunities compare their creation time with the observation of
  the state (`opportunity.py:65`, `185`) and not with the later observations of
  the proofs, so they may claim to precede them. `ReportSpeaksForOneState` is
  about content and not about time for this reason.
- The state root of an anchor is itself unauthenticated: everything is relative
  to what one source says of one block.
- The overrun rate is rounded down and compared with a maximum, so it may exceed
  that maximum by less than a basis point; `PromotionIsEarned` says so.
- The minimum number of attempts can be met by attempts that cannot be scored;
  the other gates are over scored records.
- A record may be made without the outcome that its attempt has. The corpus
  counts it as incomplete, and only the scoreable rate limits how many there are.
- The refusal at `evm_abi.py:407` is never met by an approved decision, unless
  a product overflows first.

## Fairness

`Store` assumes weak fairness of each writer's own steps: a writer is a process
running straight-line code with bounded retries, which the scheduler does not
starve; nothing is assumed of readers, callers or crashes. `Optimizer` assumes
weak fairness of `Next`: the search is one loop of one thread. The other runs
assume none. No fairness is assumed of the arrival of heads, records, candidates
or relay answers.

`CHECK_DEADLOCK FALSE` is set where the modelled history ends: all processes have
returned, the file bound is reached, a search has its result, an attempt has its
record.

## Proofs

All theorems hold for every value of the constants under the named assumptions
of the modules; TLC evaluates those on the instances.

- `HeadTrackerProofs`: `IInv == TypeOK /\ Rooted`. `Rooted` alone is not
  inductive: a reorg stores a head whose parent is found by the walk, and that
  the walk stays within the tracked heads needs their types. From it: type
  correctness, rootedness, and that no step alters a tracked head. The walks to the
  root are recursive functions; that they exist is shown by least counterexample
  over the distance from the root (`AscentExists`), and that they name no head twice
  bounds the tree (`TreeIsBounded`) and makes a head an orphan exactly if its claimed
  ancestry is unknown (`OrphansAreUnconnected`). The refinement
  (`TransitionsFollowTheChain`) maps the chain to the reversed walk from the tip. Its
  step lemmas say where two walks meet: the common ancestor that the code finds in
  the two trails splits both chains, so a reorg drops one suffix and adds the other.
  It needs `RootIsOnTop`, that no walk passes through the root to a head above it,
  which follows if known parents are consistent in every state. A source that claims
  heads without contradiction is such a case (`ConsistentSourceIsFollowed`);
  finding 2 shows that without the hypothesis the theorem is false.
- `ObservationLedgerProofs`: `Speaks` says of a place in a chain that passes replay
  that the checkpoint of a source there is the last of its records so far, that its
  next sequence is their number and that none of them is later. It is carried from
  record to record and, because a segment starts with what its predecessor ended
  with, from segment to segment; gaplessness and the last manifest's checkpoints
  follow for every chain of well-typed files, however they were rewritten.
  `LedgerInv` says of a builder that the checkpoints it updates with every record are
  the ones `validate_segment` computes from its records (`EndingGrows`); what it seals
  is therefore valid and attached to its predecessor. It follows that the validations
  which `seal` runs over what it built never refuse (`SealsAreValid`).
- `RiskProofs`: of the budget, the total of the reservations is the cardinality of a
  set of units, so adding or removing one reservation adds or removes its cost
  without recursion. `BudgetInv` relates the total, the loss and the overrun; the
  exposure bound, the pending limits, the agreement of snapshots and the lock after a
  loss follow. Of the governor, `GovernorInv` adds to the checked invariants that off
  the ladder no approvals are pending. One case per branch of `apply`.
- `RouteOptimizerProofs`: `SearchInv` says that every better input is in an open
  interval or still to be scanned. From `BoundAssumption` alone pruning is safe
  and an exact result is the smallest best input. `ReturnInv` adds the accounts of
  the loop (`CountersOK`: at most two intervals pruned per interval explored, at
  most a threshold evaluated) and that an empty heap means that something was
  evaluated (`ProgressOK`); every return then passes the checks of
  `OptimizationResult`. For `ProgressOK` the assumption must also say that the lower
  half of an interval with a positive bound has one. `BudgetInv` counts the cuts: a
  split parts the inputs `middle` and `middle + 1`, and since no other interval on
  the heap holds both (`Uncut`, intervals are `Apart`), no cut is made twice. There are
  fewer cuts than inputs, and each adds at most two intervals to the first one:
  `EnoughIntervalsAlwaysSuffice`. The second half of the module
  proves that the arithmetic of `ConstantProduct` has all that is assumed, for every
  route of hops with positive reserves and every word width
  (`ArithmeticServesTheSearch`). Larger inputs that quote return at least as much
  (`HopMonotone`, `RouteMonotone`), so the binary search returns the largest input
  that quotes (`SafeInputIsLargest`, which is `SafeInputIsExact` without bounds). A
  route returns at most `A*x/(B+C*x)` (`HopBelow`, `RouteFacts`). How the profits at
  two inputs compare depends on the product of their weights against `A*B`
  (`ProfitsCompare`), which is what the code tests to choose the lower end
  or the upper end (`EndCovers`); in between, a square that is never negative gives
  the peak (`InteriorCovers`), and a root rounded down makes the bound larger. The
  recursive definitions are unfolded from `RecursionExists`, and induction over naturals is
  done by least counterexample from the well-founded order of the library, since
  its induction theorems take an operator.
- `ExecutionEvidenceProofs`: `PipelineInv` holds for each artefact that what it
  wraps exists and that its creation and expiry are bounded by those inputs;
  each constructor keeps it because the minimum it publishes is below the expiry
  of what it wraps (`MakeKeeps`). `SettlementInv` adds what is known of an
  inclusion, an outcome and a record. The arithmetic is in lemmas about rounding
  up: `ApprovalLeavesRoom`, `MinimumPaysThePolicy`, `OneConversionIsCheaper`.
  `NothingPredates` needs `OrderInv`: `PipelineInv` bounds a creation by the expiries
  of the inputs only, and a chain of inputs needs each creation to be after that of
  the next one down. This proof showed that `BuildNet` lacked a guard of the code:
  net evidence is not created before the observation of its anchor
  (`profit.py:148`, `cost_evidence.py:643`).
- `SegmentStoreProofs`: `StoreInv` says for each program counter which names and which
  inode the writer of it owns, in memory and on disk, and that the segment's name
  leads to nothing that is not whole in both. `PublishedIsComplete` is not inductive:
  that a link publishes a whole file needs to know that no other writer has touched
  it, and that a crash keeps it whole needs what was synced before. One frame lemma
  (`OnlyTouches`) says of a writer's step that it keeps what others own; one lemma
  per system call says what it does to its own. Besides the checked properties it
  follows that at most one writer is ever acknowledged and that the identity checks
  of the code never fail.
- `AuthenticatedStateProofs`: `WalkInv` says that at each turn the root holds a
  value under the whole key exactly if the node at hand holds it under the rest
  (`OnTheWay`); `BranchCut`, `ExtensionCut` and `LeafCut` say for each kind of
  node what one turn does to both sides. `JobInv` says that the claims checked so
  far hold and that the walk is the one for the next claim. The property itself
  is not inductive because evidence is made of what `job` holds. No induction
  over tries is needed: each turn uses one level of `TrieAssumption`. A verdict also
  excludes any other value under the key (`Verdict`, `EvidenceInv`), so that
  `ReportSpeaksForOneState` follows for everything that is built on evidence
  (`ReportInv`: a universe is backed by evidence, which is never withdrawn).
  Which lists are accepted (`EachKeyHasOneProof`) follows from `SpineInv`: the walk has
  used the first names of `Spine` and the rest of it is what is below the node at
  hand. `Spine` reads a table of what is below each node when so many digits of the
  key are left; a row reads rows for fewer digits only, so the table exists
  (`TableExists`, by least counterexample) and its entries lead to ever lower nodes
  (`TableFalls`), which is why no list that is the way names a node twice and why the
  walk never refuses one as circular.
  `ReportsAreExhaustive` needs to know where the enumeration stands: `EnumInv` says
  that the routes found so far are exactly the cycles that leave the path on the
  stack at a leg that was tried before (`Passed`); to look at a leg, to go deeper and
  to go back each moves that line by as much as it adds routes, and with an empty
  stack all cycles are behind it. `HopsAssumption` says that the limits on the legs
  are numbers and that a cycle has at least one leg.
- `HistoricalScoreboardProofs`: objects never change, so that the soundness of
  each is a predicate of it alone, built from the soundness of what it holds;
  `IInv` says that all objects are sound. `OneYardstick` and
  `DecisionFollowsItsEvidence` follow from it without arithmetic. The four properties
  about totals need sums over finite sets, which the first part of the module derives
  from the library's recursive definition by induction over subsets (in the form of a
  set that is closed under adding an element): the sum does not depend on the element
  that is taken first (`OrderIsFree`), adds up over disjoint parts (`SumOfParts`) and
  can be taken over names (`SumByName`). As many scoreboards as cohorts have different
  ones, so they partition the corpus (`BoardsPartition`), and a corpus uses each
  reference once: `EveryAttemptIsCountedOnce`. A return is below an upper bound exactly
  if its exact quotient is (`DivFacts`), so the buckets are the intervals of exact
  returns (`WithinFacts`) and partition the scoreboard (`TotalOverBuckets`):
  `BucketsReconcile`. The mean is rounded down, the mean error up, and what was earned
  less the absolute error is at most what was predicted: `GuardedMeanUnderstates`. Every
  gate of a promotion that compares a rounded share gives the exact comparison
  (`ShareFacts`), the guarded mean gives the total it is the mean of (`MeanFacts`); the saturated error ratio does because a policy's limit is below
  `MaxUint`: `PromotionIsEarned`. `HistoryAssumption` types the figures, receipts and
  rates as their constructors do.

Type correctness of the head tracker, the limits on pending reservations, that no
event climbs two rungs and that a strategy is allowed only in the first mode of
the ladder are theorems too; no run checks them apart, since they restate guards.

Only model-checked: liveness (`SomeWriterPublishes`, `SearchEnds`) and
anything that needs ENABLED, which the prover does not handle; and
`OpportunitiesAreSwappable`, which is false for some values of the constants: a route whose product overflows a word
is refused by the code where the property's own arithmetic goes on, so that it holds
for reserves that stay below the limit, as those of the run do. `SafeInputIsExact` is
a property of tables that TLC computes beforehand; the theorem `SafeInputIsLargest`
says the same of every route.

## Not modelled

- Source contracts, canonical JSON, file export, command line and repository
  scripts: stateless checks and formatting.
- Receipts and all codings (RLP, ABI, transactions, hexadecimal), Keccak and
  secp256k1: pure functions over bytes.
- Receipt proofs of an outcome (`evm_receipt.py`): their trie walk is that of
  `mpt.py`, their decoding is left out; `ExecutionEvidence` takes an inclusion
  as given.
- `ChainHealthEvidence`, endpoint and deployment registries: look-ups without
  state.

## Plan

Done, in this order: head tracker and canonical chain; ledger; store; governor;
budget; pools and optimizer; chain of evidence; their proofs; trie proofs,
authenticated state and opportunity search; corpus to promotion; the proofs of
both.

Next:

1. `OpportunitiesAreSwappable` under the assumption that no product overflows.
2. Composition of `RiskBudget` and `ExecutionEvidence`: several attempts that
   share one ledger, with snapshots that overlap.
3. Receipt proofs: the inclusion of `ExecutionEvidence` established by a walk of
   `TrieProofs` under the receipts root of an observed block.
