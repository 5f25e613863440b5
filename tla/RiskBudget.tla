----------------------------- MODULE RiskBudget -----------------------------
(***************************************************************************)
(* The risk budget: the ledger of reservations and realized results       *)
(* (RiskLedger, risk.py) and the snapshots that decision evidence takes of *)
(* it (RiskBudgetEvidence, context_evidence.py).                           *)
(*                                                                         *)
(* A candidate reserves its execution cost, runs, and is settled with the  *)
(* profit or loss it realized.  Nothing in the code bounds that loss by    *)
(* the reserved cost; the history variable overrun adds up by how much     *)
(* settlements exceeded it.  A snapshot is taken between such steps and    *)
(* may be read long after, when the ledger has moved on.  Snapshots do not *)
(* reserve: what keeps the budget is that reserve authorizes again.        *)
(*                                                                         *)
(* A call that raises changes nothing.  The validity window of a snapshot  *)
(* is left out: it does not change what the snapshot says.                 *)
(***************************************************************************)
EXTENDS Integers, FiniteSets

CONSTANTS
  Ids,            \* reservation identifiers
  Costs,          \* execution costs that are requested
  Notionals,      \* notionals that are requested
  Results,        \* net profits that settlements report
  Limits,         \* RiskLimits
  MaxUint,        \* MAX_UINT256 of context_evidence.py
  None,
  MaxOverrun,     \* bound: overrun and profit that the runs explore
  MaxProfit

ASSUME RiskBudgetAssumption ==
  /\ Costs \subseteq Nat
  /\ Notionals \subseteq Nat
  /\ Results \subseteq Int
  /\ Limits \in [daily : Nat, single : Nat, pending : Nat, concurrent : Nat, notional : Nat]
  /\ MaxUint \in Nat
  /\ MaxOverrun \in Nat
  /\ MaxProfit \in Nat

VARIABLES
  reservations,   \* RiskLedger._reservations: id -> reserved cost
  profit,         \* RiskLedger._realized_net_profit
  evidence,       \* a RiskBudgetEvidence held by some consumer, or None
  overrun         \* history

vars == <<reservations, profit, evidence, overrun>>

Positive(n) == IF n > 0 THEN n ELSE 0

\* sum(reservations.values()), counted unit by unit: every reservation
\* contributes as many units as it costs.
Units(r) == UNION {{id} \X (1..r[id]) : id \in DOMAIN r}
Total(r) == Cardinality(Units(r))

Reserved == Total(reservations)
Concurrent == Cardinality(DOMAIN reservations)
Loss == Positive(-profit)

Init ==
  /\ reservations = << >>
  /\ profit = 0
  /\ evidence = None
  /\ overrun = 0

Authorized_ForgetsPendingInLoss(cost, notional) ==
  /\ cost <= Limits.single
  /\ Reserved + cost <= Limits.pending
  /\ Loss + cost <= Limits.daily
  /\ Concurrent + 1 <= Limits.concurrent
  /\ notional <= Limits.notional

\* The reservations with id's added.
WithReservation(id, cost) ==
  [i \in DOMAIN reservations \cup {id} |-> IF i = id THEN cost ELSE reservations[i]]

\* RiskLedger.authorize: none of its five reasons applies.
Authorized(cost, notional) ==
  /\ cost <= Limits.single
  /\ Reserved + cost <= Limits.pending
  /\ Loss + Reserved + cost <= Limits.daily
  /\ Concurrent + 1 <= Limits.concurrent
  /\ notional <= Limits.notional

Reserve_TrustsSnapshot(id, cost, notional) ==
  /\ id \notin DOMAIN reservations
  /\ \/ Authorized(cost, notional)
     \/ evidence # None /\ evidence.allowed
          /\ evidence.snapshot.cost = cost /\ evidence.snapshot.notional = notional
  /\ reservations' = WithReservation(id, cost)
  /\ UNCHANGED <<profit, evidence, overrun>>

Reserve(id, cost, notional) ==
  /\ id \notin DOMAIN reservations
  /\ Authorized(cost, notional)
  /\ reservations' = WithReservation(id, cost)
  /\ UNCHANGED <<profit, evidence, overrun>>

\* RiskLedger.settle releases the reservation and books the result, whatever
\* its size.
Settle(id, result) ==
  /\ id \in DOMAIN reservations
  /\ reservations' = [i \in DOMAIN reservations \ {id} |-> reservations[i]]
  /\ profit' = profit + result
  /\ overrun' = overrun + Positive(-result - reservations[id])
  /\ profit' <= MaxProfit /\ overrun' <= MaxOverrun
  /\ UNCHANGED evidence

Allowed_RealizedLossOnly(e) ==
  /\ e.cost <= Limits.single
  /\ e.reserved + e.cost <= Limits.pending
  /\ Positive(-e.profit) + e.cost <= Limits.daily
  /\ e.concurrent + 1 <= Limits.concurrent
  /\ e.notional <= Limits.notional

\* The verdict RiskBudgetEvidence.__post_init__ computes from the figures it
\* copied.
Allowed(e) ==
  /\ e.cost <= Limits.single
  /\ e.reserved + e.cost <= Limits.pending
  /\ Positive(-e.profit) + e.reserved + e.cost <= Limits.daily
  /\ e.concurrent + 1 <= Limits.concurrent
  /\ e.notional <= Limits.notional

\* The domain checks of __post_init__, _checked_sum's included: outside them
\* the constructor raises.
InDomain(e) ==
  /\ Limits.daily <= MaxUint /\ Limits.single <= MaxUint /\ Limits.pending <= MaxUint
  /\ Limits.concurrent <= MaxUint /\ Limits.notional <= MaxUint
  /\ e.profit \in -MaxUint..MaxUint
  /\ e.notional <= MaxUint
  /\ Positive(-e.profit) + e.reserved + e.cost <= MaxUint
  /\ e.concurrent + 1 <= MaxUint

\* RiskBudgetEvidence.capture.
Capture(cost, notional) ==
  LET e == [profit |-> profit, reserved |-> Reserved, concurrent |-> Concurrent,
            cost |-> cost, notional |-> notional]
  IN /\ InDomain(e)
     /\ evidence' = [snapshot |-> e, allowed |-> Allowed(e)]
     /\ UNCHANGED <<reservations, profit, overrun>>

Next ==
  \/ \E id \in Ids, cost \in Costs, notional \in Notionals : Reserve(id, cost, notional)
  \/ \E id \in Ids, result \in Results : Settle(id, result)
  \/ \E cost \in Costs, notional \in Notionals : Capture(cost, notional)

Spec == Init /\ [][Next]_vars

-----------------------------------------------------------------------------
(***************************************************************************)
(* Properties                                                              *)
(***************************************************************************)

\* Reservations have identifiers and costs from the requests, results are
\* integers, and a held snapshot has its fields.
TypeOK ==
  /\ DOMAIN reservations \subseteq Ids
  /\ \A id \in DOMAIN reservations : reservations[id] \in Costs
  /\ profit \in Int
  /\ overrun \in Nat
  /\ evidence # None => evidence.allowed \in BOOLEAN

\* What is lost and what may yet be lost stay within the daily limit, but for
\* what settlements lost beyond the cost they had reserved (risk.py:175, 192-199).
ExposureWithinDailyLimit == Loss + Reserved <= Limits.daily + overrun

\* Pending reservations respect their three limits whatever was settled in
\* between (risk.py:171-178).
PendingWithinLimits ==
  /\ Reserved <= Limits.pending
  /\ Concurrent <= Limits.concurrent
  /\ \A id \in DOMAIN reservations : reservations[id] <= Limits.single

\* While the ledger stands as a snapshot saw it, the snapshot's verdict and a
\* fresh authorization agree: the two places that state the limits say the same
\* (context_evidence.py:171-184 and risk.py:171-181).
SnapshotAgreesWithLedger ==
  (evidence # None /\ evidence.snapshot.profit = profit
     /\ evidence.snapshot.reserved = Reserved /\ evidence.snapshot.concurrent = Concurrent)
  => (evidence.allowed <=> Authorized(evidence.snapshot.cost, evidence.snapshot.notional))

\* Once losses alone pass the daily limit nothing more is reserved until
\* settled profit brings them back, zero-cost requests included, however
\* favourable the snapshot a caller holds (risk.py:175, 187-190).
LossLocksReservations ==
  [][Loss > Limits.daily => DOMAIN reservations' \subseteq DOMAIN reservations]_vars
=============================================================================
