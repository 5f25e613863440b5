----------------------------- MODULE RiskProofs -----------------------------
(***************************************************************************)
(* Proofs about RiskBudget, for all limits, requests and results, and then *)
(* about RiskGovernor, for all sets of approved and prohibited strategies. *)
(*                                                                         *)
(* The budget's inductive invariant adds to the checked ones that the      *)
(* reservations are a function with a finite domain (so that their total   *)
(* is a number) and that a held snapshot carries the verdict on its own    *)
(* figures.                                                                *)
(*                                                                         *)
(* Of the governor, GovernorTypeOK is not inductive: that approvals never  *)
(* passes 3 follows only from LadderIsApproved, which ties the count to    *)
(* the rung.                                                               *)
(* LadderIsApproved needs in turn that a stopped or incident mode has no   *)
(* approvals.                                                              *)
(***************************************************************************)
EXTENDS RiskBudget, RiskGovernor, FiniteSetTheorems, TLAPS

\* Reservations as a value: a function from finitely many identifiers.
ReservationsOK ==
  /\ reservations = [i \in DOMAIN reservations |-> reservations[i]]
  /\ IsFiniteSet(DOMAIN reservations)
  /\ IsFiniteSet(Units(reservations))

SnapshotOK == evidence # None => evidence.allowed = Allowed(evidence.snapshot)

BudgetInv ==
  /\ TypeOK /\ ReservationsOK /\ SnapshotOK
  /\ ExposureWithinDailyLimit /\ PendingWithinLimits

-----------------------------------------------------------------------------
(* Units and totals *)

\* The units of one reservation: as many as it costs.
LEMMA OwnUnits ==
  ASSUME NEW id, NEW c \in Nat
  PROVE  /\ IsFiniteSet({id} \X (1..c))
         /\ Cardinality({id} \X (1..c)) = c
<1>1. IsFiniteSet(1..c) /\ Cardinality(1..c) = c
    BY FS_Interval
<1>2. IsFiniteSet({id}) /\ Cardinality({id}) = 1
    BY FS_Singleton
<1> QED BY <1>1, <1>2, FS_Product

\* Units of the reservations in r that are not id's.
Others(r, id) == UNION {{i} \X (1..r[i]) : i \in DOMAIN r \ {id}}

\* What id contributes is apart from what the others contribute.
LEMMA UnitsSplit ==
  ASSUME NEW r, NEW id \in DOMAIN r
  PROVE  /\ Units(r) = Others(r, id) \cup ({id} \X (1..r[id]))
         /\ Others(r, id) \cap ({id} \X (1..r[id])) = {}
<1>1. \A u : u \in Units(r) <=> \E i \in DOMAIN r : u \in {i} \X (1..r[i])
    BY DEF Units
<1>2. \A u : u \in Others(r, id) <=> \E i \in DOMAIN r \ {id} : u \in {i} \X (1..r[i])
    BY DEF Others
<1>3. Units(r) = Others(r, id) \cup ({id} \X (1..r[id]))
    BY <1>1, <1>2
<1>4. ASSUME NEW u \in Others(r, id) PROVE u \notin {id} \X (1..r[id])
  <2>1. PICK i \in DOMAIN r \ {id} : u \in {i} \X (1..r[i])
      BY <1>2
  <2>2. u[1] = i
      BY <2>1
  <2> QED BY <2>2
<1> QED BY <1>3, <1>4

\* The total of a finite reservation table is what id reserved plus the rest.
LEMMA TotalSplit ==
  ASSUME NEW r, NEW id \in DOMAIN r, r[id] \in Nat, IsFiniteSet(Others(r, id))
  PROVE  /\ IsFiniteSet(Units(r))
         /\ Total(r) = Cardinality(Others(r, id)) + r[id]
<1>1. IsFiniteSet({id} \X (1..r[id])) /\ Cardinality({id} \X (1..r[id])) = r[id]
    BY OwnUnits
<1>2. /\ IsFiniteSet(Others(r, id) \cup ({id} \X (1..r[id])))
      /\ Cardinality(Others(r, id) \cup ({id} \X (1..r[id])))
           = Cardinality(Others(r, id)) + Cardinality({id} \X (1..r[id]))
               - Cardinality(Others(r, id) \cap ({id} \X (1..r[id])))
    BY <1>1, FS_Union
<1>3. Cardinality(Others(r, id) \cap ({id} \X (1..r[id]))) = 0
    BY UnitsSplit, FS_EmptySet
<1>4. Cardinality(Others(r, id)) \in Nat
    BY FS_CardinalityType
<1>5. Units(r) = Others(r, id) \cup ({id} \X (1..r[id]))
    BY UnitsSplit
<1>6. Cardinality(Units(r)) = Cardinality(Others(r, id)) + r[id] - 0
    BY <1>1, <1>2, <1>3, <1>5
<1> QED BY <1>2, <1>4, <1>5, <1>6 DEF Total

\* Adding a reservation adds its cost to the total.
LEMMA TotalAdd ==
  ASSUME NEW r, NEW id, id \notin DOMAIN r, NEW c \in Nat, IsFiniteSet(Units(r)),
         NEW g, g = [i \in DOMAIN r \cup {id} |-> IF i = id THEN c ELSE r[i]]
  PROVE  /\ IsFiniteSet(Units(g))
         /\ Total(g) = Total(r) + c
<1>1. DOMAIN g = DOMAIN r \cup {id} /\ g[id] = c /\ \A i \in DOMAIN r : g[i] = r[i]
    OBVIOUS
<1>2. Others(g, id) = Units(r)
  <2>1. DOMAIN g \ {id} = DOMAIN r
      BY <1>1
  <2> QED BY <1>1, <2>1 DEF Others, Units
<1> QED BY <1>1, <1>2, TotalSplit DEF Total

\* Releasing a reservation takes its cost from the total.
LEMMA TotalRemove ==
  ASSUME NEW r, NEW id \in DOMAIN r, r[id] \in Nat, IsFiniteSet(Units(r)),
         NEW g, g = [i \in DOMAIN r \ {id} |-> r[i]]
  PROVE  /\ IsFiniteSet(Units(g))
         /\ Total(r) = Total(g) + r[id]
<1>1. DOMAIN g = DOMAIN r \ {id} /\ \A i \in DOMAIN g : g[i] = r[i]
    OBVIOUS
<1>2. Units(g) = Others(r, id)
    BY <1>1 DEF Units, Others
<1>3. IsFiniteSet(Others(r, id))
    BY UnitsSplit, FS_Subset
<1> QED BY <1>2, <1>3, TotalSplit DEF Total

\* A finite table has a natural number of reservations and of units.
LEMMA ReservedIsNat == ReservationsOK => Reserved \in Nat /\ Concurrent \in Nat
  BY FS_CardinalityType DEF ReservationsOK, Reserved, Concurrent, Total

-----------------------------------------------------------------------------
(* The inductive invariant *)

\* An empty ledger, with nothing reserved, is within every limit.
LEMMA BudgetInvInitially == Init => BudgetInv
<1> SUFFICES ASSUME Init PROVE BudgetInv
    OBVIOUS
<1>1. DOMAIN reservations = {} /\ reservations = [i \in DOMAIN reservations |-> reservations[i]]
    BY DEF Init
<1>2. Units(reservations) = {}
    BY <1>1 DEF Units
<1>3. Reserved = 0 /\ Concurrent = 0 /\ IsFiniteSet({})
    BY <1>1, <1>2, FS_EmptySet DEF Reserved, Concurrent, Total
<1>4. TypeOK /\ SnapshotOK
    BY <1>1 DEF Init, TypeOK, SnapshotOK
<1>6. ReservationsOK
    BY <1>1, <1>2, <1>3 DEF ReservationsOK
<1>5. ExposureWithinDailyLimit /\ PendingWithinLimits
    BY <1>1, <1>3, RiskBudgetAssumption
       DEF Init, ExposureWithinDailyLimit, PendingWithinLimits, Loss, Positive
<1> QED BY <1>4, <1>5, <1>6 DEF BudgetInv

\* A reservation is authorized only if its cost still fits, so exposure stays within limits.
LEMMA ReservePreserves ==
  ASSUME BudgetInv, NEW id \in Ids, NEW cost \in Costs, NEW notional \in Notionals,
         Reserve(id, cost, notional)
  PROVE  BudgetInv'
<1>1. cost \in Nat /\ Limits.daily \in Nat /\ profit \in Int /\ overrun \in Nat
    BY RiskBudgetAssumption DEF BudgetInv, TypeOK
<1>2. /\ IsFiniteSet(Units(reservations')) /\ Reserved' = Reserved + cost
      /\ DOMAIN reservations' = DOMAIN reservations \cup {id}
      /\ reservations'[id] = cost
      /\ \A i \in DOMAIN reservations : reservations'[i] = reservations[i]
  <2>1. /\ id \notin DOMAIN reservations /\ IsFiniteSet(Units(reservations))
        /\ reservations' = [i \in DOMAIN reservations \cup {id} |->
                              IF i = id THEN cost ELSE reservations[i]]
      BY DEF Reserve, WithReservation, BudgetInv, ReservationsOK
  <2> QED BY <1>1, <2>1, TotalAdd DEF Reserved
<1>3. /\ IsFiniteSet(DOMAIN reservations') /\ Concurrent' = Concurrent + 1
    BY <1>2, FS_AddElement DEF Reserve, BudgetInv, ReservationsOK, Concurrent
<1>4. reservations' = [i \in DOMAIN reservations' |-> reservations'[i]]
    BY DEF Reserve, WithReservation
<1>5. TypeOK' /\ ReservationsOK' /\ SnapshotOK'
    BY <1>2, <1>3, <1>4
       DEF Reserve, BudgetInv, TypeOK, ReservationsOK, SnapshotOK, Allowed
<1>6. ExposureWithinDailyLimit'
  <2>1. Loss' = Loss /\ Loss \in Nat /\ overrun' = overrun
      BY <1>1 DEF Reserve, Loss, Positive
  <2>2. Loss + Reserved + cost <= Limits.daily
      BY DEF Reserve, Authorized
  <2> QED BY <1>1, <1>2, <2>1, <2>2, ReservedIsNat DEF BudgetInv, ExposureWithinDailyLimit
<1>7. PendingWithinLimits'
    BY <1>2, <1>3 DEF Reserve, Authorized, BudgetInv, PendingWithinLimits
<1> QED BY <1>5, <1>6, <1>7 DEF BudgetInv

\* A settlement releases its reservation and books its loss; what it loses beyond the
\* reservation is the overrun.
LEMMA SettlePreserves ==
  ASSUME BudgetInv, NEW id \in Ids, NEW result \in Results, Settle(id, result)
  PROVE  BudgetInv'
<1> DEFINE c == reservations[id]
<1>1. /\ id \in DOMAIN reservations /\ c \in Nat /\ result \in Int
      /\ Limits.daily \in Nat /\ Limits.pending \in Nat /\ Limits.concurrent \in Nat
      /\ profit \in Int /\ overrun \in Nat
    BY RiskBudgetAssumption DEF Settle, BudgetInv, TypeOK
<1>2. /\ IsFiniteSet(Units(reservations')) /\ Reserved = Reserved' + c
    BY <1>1, TotalRemove DEF Settle, BudgetInv, ReservationsOK, Reserved
<1>3. /\ DOMAIN reservations' = DOMAIN reservations \ {id}
      /\ \A i \in DOMAIN reservations' : reservations'[i] = reservations[i]
      /\ reservations' = [i \in DOMAIN reservations' |-> reservations'[i]]
    BY DEF Settle
<1>4. IsFiniteSet(DOMAIN reservations') /\ Concurrent' = Concurrent - 1
    BY <1>1, <1>3, FS_RemoveElement DEF BudgetInv, ReservationsOK, Concurrent
<1>5. ReservationsOK'
    BY <1>2, <1>3, <1>4 DEF ReservationsOK
<1>6. /\ profit' = profit + result /\ overrun' = overrun + Positive(-result - c)
      /\ evidence' = evidence
    BY DEF Settle
<1>7. TypeOK' /\ SnapshotOK'
  <2>1. overrun' \in Nat /\ profit' \in Int
      BY <1>1, <1>6 DEF Positive
  <2> HIDE DEF c
  <2>2. TypeOK'
      BY <1>3, <1>6, <2>1 DEF BudgetInv, TypeOK
  <2>3. SnapshotOK'
      BY <1>6 DEF BudgetInv, SnapshotOK, Allowed
  <2> QED BY <2>2, <2>3
<1>8. Reserved \in Nat /\ Concurrent \in Nat /\ Reserved' \in Nat
  <2>1. Reserved' \in Nat
      BY <1>2, FS_CardinalityType DEF Reserved, Total
  <2> QED BY <2>1, ReservedIsNat DEF BudgetInv
<1>9. ExposureWithinDailyLimit'
  <2>1. Loss' <= Loss + c + Positive(-result - c)
      BY <1>1, <1>6 DEF Loss, Positive
  <2>2. Loss \in Int /\ Loss' \in Int /\ Positive(-result - c) \in Int
      BY <1>1, <1>6 DEF Loss, Positive
  <2>3. Loss + Reserved <= Limits.daily + overrun
      BY DEF BudgetInv, ExposureWithinDailyLimit
  <2> QED BY <1>1, <1>2, <1>6, <1>8, <2>1, <2>2, <2>3 DEF ExposureWithinDailyLimit
<1>10. PendingWithinLimits'
    BY <1>1, <1>2, <1>3, <1>4, <1>8 DEF BudgetInv, PendingWithinLimits
<1> QED BY <1>5, <1>7, <1>9, <1>10 DEF BudgetInv

\* A capture for a later decision reads the budget and changes none of it.
LEMMA CapturePreserves ==
  ASSUME BudgetInv, NEW cost \in Costs, NEW notional \in Notionals, Capture(cost, notional)
  PROVE  BudgetInv'
<1>1. UNCHANGED <<reservations, profit, overrun>>
    BY DEF Capture
<1>2. evidence'.allowed = Allowed(evidence'.snapshot) /\ evidence'.allowed \in BOOLEAN
    BY DEF Capture, Allowed
<1> QED BY <1>1, <1>2
        DEF BudgetInv, TypeOK, ReservationsOK, SnapshotOK, ExposureWithinDailyLimit,
            PendingWithinLimits, Reserved, Concurrent, Loss, Allowed

\* Every step of the budget keeps the invariant.
LEMMA BudgetInvPreserved == BudgetInv /\ [Next]_vars => BudgetInv'
<1> SUFFICES ASSUME BudgetInv, [Next]_vars PROVE BudgetInv'
    OBVIOUS
<1>1. CASE Next
    BY <1>1, ReservePreserves, SettlePreserves, CapturePreserves DEF Next
<1>2. CASE UNCHANGED vars
    BY <1>2 DEF vars, BudgetInv, TypeOK, ReservationsOK, SnapshotOK,
       ExposureWithinDailyLimit, PendingWithinLimits, Reserved, Concurrent, Loss, Allowed
<1> QED BY <1>1, <1>2

\* The invariant holds in every reachable state.
LEMMA BudgetInvAlways == Spec => []BudgetInv
  BY BudgetInvInitially, BudgetInvPreserved, PTL DEF Spec

-----------------------------------------------------------------------------
(* Theorems *)

\* For all limits, losses and pending costs together pass the daily limit by no
\* more than settlements lost beyond what they had reserved (RiskLedger).
THEOREM ExposureAlwaysBounded == Spec => []ExposureWithinDailyLimit
<1>1. BudgetInv => ExposureWithinDailyLimit
    BY DEF BudgetInv
<1> QED BY <1>1, BudgetInvAlways, PTL

\* The pending, concurrency and single-cost limits hold at all times (RiskLedger).
THEOREM PendingAlwaysBounded == Spec => []PendingWithinLimits
<1>1. BudgetInv => PendingWithinLimits
    BY DEF BudgetInv
<1> QED BY <1>1, BudgetInvAlways, PTL

\* RiskBudgetEvidence and RiskLedger.authorize agree on every ledger the
\* snapshot still describes.
THEOREM SnapshotsAlwaysAgree == Spec => []SnapshotAgreesWithLedger
<1>1. BudgetInv => SnapshotAgreesWithLedger
    BY DEF BudgetInv, SnapshotOK, SnapshotAgreesWithLedger, Allowed, Authorized, Loss
<1> QED BY <1>1, BudgetInvAlways, PTL

\* Past the daily limit no step adds a reservation (RiskLedger.reserve).
THEOREM LossAlwaysLocks == Spec => LossLocksReservations
<1>1. BudgetInv /\ [Next]_vars
        => [Loss > Limits.daily => DOMAIN reservations' \subseteq DOMAIN reservations]_vars
  <2> SUFFICES ASSUME BudgetInv, Next, Loss > Limits.daily
               PROVE  DOMAIN reservations' \subseteq DOMAIN reservations
      OBVIOUS
  <2>1. ASSUME NEW id \in Ids, NEW cost \in Costs, NEW notional \in Notionals,
               Reserve(id, cost, notional)
        PROVE  FALSE
    <3>1. /\ Loss + Reserved + cost <= Limits.daily
          /\ Reserved \in Nat /\ cost \in Nat /\ Limits.daily \in Nat /\ Loss \in Int
        BY <2>1, ReservedIsNat, RiskBudgetAssumption
           DEF Reserve, Authorized, BudgetInv, TypeOK, Loss, Positive
    <3> QED BY <3>1
  <2>2. ASSUME NEW id \in Ids, NEW result \in Results, Settle(id, result)
        PROVE  DOMAIN reservations' \subseteq DOMAIN reservations
      BY <2>2 DEF Settle
  <2>3. ASSUME NEW cost \in Costs, NEW notional \in Notionals, Capture(cost, notional)
        PROVE  DOMAIN reservations' \subseteq DOMAIN reservations
      BY <2>3 DEF Capture
  <2> QED BY <2>1, <2>2, <2>3 DEF Next
<1> QED BY <1>1, BudgetInvAlways, PTL DEF Spec, LossLocksReservations

-----------------------------------------------------------------------------
(* The governor and the strategy policy *)

\* Off the ladder nothing is approved.
OffLadder == mode \in {"stopped", "degraded", "halted"} => approvals = 0

GovernorInv == GovernorTypeOK /\ IncidentsHoldTheMode /\ LadderIsApproved /\ OffLadder

\* The governor starts stopped, with no incident and no approval.
LEMMA GovernorInvInitially == GovernorInit => GovernorInv
  BY DEF GovernorInit, GovernorInv, GovernorTypeOK, IncidentsHoldTheMode, LadderIsApproved, OffLadder,
     Modes, Reasons, IncidentEvents, CriticalEvents, DegradedEvents, IncidentModes

\* The policy always answers with one of its reasons.
LEMMA PolicyReasonTyped ==
  ASSUME NEW strategy \in Approved \cup Prohibited \cup {Unknown}, NEW m \in Modes
  PROVE  PolicyReason(strategy, m) \in Reasons
  BY DEF PolicyReason, Reasons, Modes

USE DEF Modes, IncidentModes, CriticalEvents, DegradedEvents, IncidentEvents

\* Every step of the governor keeps the invariant.
LEMMA GovernorInvPreserved == GovernorInv /\ [GovernorNext]_governorVars => GovernorInv'
<1> SUFFICES ASSUME GovernorInv, [GovernorNext]_governorVars PROVE GovernorInv'
    OBVIOUS
<1> USE DEF GovernorInv, GovernorTypeOK, IncidentsHoldTheMode, LadderIsApproved, OffLadder
<1>1. ASSUME NEW event \in Events, Halt(event) PROVE GovernorInv'
    BY <1>1 DEF Halt
<1>2. ASSUME NEW event \in Events, Degrade(event) PROVE GovernorInv'
  <2>1. CASE mode \in {"stopped", "halted"}
      BY <1>2, <2>1 DEF Degrade
  <2>2. CASE mode \in {"shadow", "canary", "live", "degraded"}
    <3>1. openIncidents \cap CriticalEvents = {} /\ event \in DegradedEvents
        BY <1>2, <2>2 DEF Degrade
    <3>2. /\ mode' = "degraded" /\ openIncidents' = openIncidents \cup {event}
          /\ approvals' = 0 /\ decision' = decision
        BY <1>2, <2>2 DEF Degrade
    <3>3. openIncidents' # {} /\ openIncidents' \cap CriticalEvents = {}
        BY <3>1, <3>2
    <3> QED BY <3>1, <3>2, <3>3
  <2> QED BY <2>1, <2>2
<1>3. ASSUME NEW context \in Contexts, Stop(context) PROVE GovernorInv'
    BY <1>3 DEF Stop, StillOpen
<1>4. ASSUME NEW event \in Events, NEW context \in Contexts, Climb(event, context)
      PROVE GovernorInv'
    BY <1>4 DEF Climb, ClimbFrom, ClimbTo, ClimbEvents
<1>5. ASSUME NEW context \in Contexts, Recover(context) PROVE GovernorInv'
    BY <1>5 DEF Recover, StillOpen
<1>6. ASSUME NEW strategy \in Approved \cup Prohibited \cup {Unknown}, Evaluate(strategy)
      PROVE GovernorInv'
    BY <1>6, PolicyReasonTyped DEF Evaluate
<1>7. CASE UNCHANGED governorVars
    BY <1>7 DEF governorVars
<1> QED BY <1>1, <1>2, <1>3, <1>4, <1>5, <1>6, <1>7 DEF GovernorNext, Apply

\* The inductive invariant holds in every reachable state.
LEMMA GovernorInvAlways == GovernorSpec => []GovernorInv
  BY GovernorInvInitially, GovernorInvPreserved, PTL DEF GovernorSpec

\* An incident that took effect holds the governor in "degraded" or "halted"
\* until an accepted context closes it, and a critical one in "halted"
\* (RiskGovernor.apply).
THEOREM IncidentsAlwaysHold == GovernorSpec => []IncidentsHoldTheMode
<1>1. GovernorInv => IncidentsHoldTheMode
    BY DEF GovernorInv
<1> QED BY <1>1, GovernorInvAlways, PTL

\* The governor is on a rung only after that many approved climbs since it was
\* last off the ladder (RiskGovernor.apply).
THEOREM LadderAlwaysApproved == GovernorSpec => [](GovernorTypeOK /\ LadderIsApproved)
<1>1. GovernorInv => GovernorTypeOK /\ LadderIsApproved
    BY DEF GovernorInv
<1> QED BY <1>1, GovernorInvAlways, PTL

\* No accepted event, a recovery included, gains more than one rung.
THEOREM ClimbsOneRung == GovernorSpec => OneRungAtATime
<1>1. GovernorInv /\ [GovernorNext]_governorVars => [Rank[mode'] <= Rank[mode] + 1]_governorVars
  <2> SUFFICES ASSUME GovernorInv, GovernorNext PROVE Rank[mode'] <= Rank[mode] + 1
      OBVIOUS
  <2>1. mode \in Modes
      BY DEF GovernorInv, GovernorTypeOK
  <2>2. mode' = mode \/ mode' \in {"halted", "degraded", "stopped"}
          \/ (mode \in IncidentModes /\ mode' = "shadow")
          \/ (mode = "stopped" /\ mode' = "shadow")
          \/ (mode = "shadow" /\ mode' = "canary")
          \/ (mode = "canary" /\ mode' = "live")
      BY DEF GovernorNext, Apply, Halt, Degrade, Stop, Climb, ClimbFrom, ClimbTo, ClimbEvents,
         Recover, Evaluate
  <2> QED BY <2>1, <2>2 DEF Rank
<1> QED BY <1>1, GovernorInvAlways, PTL DEF GovernorSpec, OneRungAtATime

\* The policy comes to allow a strategy only with no incident open and exactly
\* one approved climb (StrategyPolicy.evaluate on RiskGovernor.mode).
THEOREM PolicyAllowsOnFirstRungOnly == GovernorSpec => AllowedOnFirstRungOnly
<1> DEFINE A == decision' = "allowed-shadow-strategy" /\ decision # decision'
                  => openIncidents = {} /\ approvals = 1
<1>1. GovernorInv /\ [GovernorNext]_governorVars => [A]_governorVars
  <2> SUFFICES ASSUME GovernorInv, GovernorNext, decision' = "allowed-shadow-strategy",
                      decision # decision'
               PROVE  openIncidents = {} /\ approvals = 1
      OBVIOUS
  <2>1. PICK strategy \in Approved \cup Prohibited \cup {Unknown} : Evaluate(strategy)
      BY DEF GovernorNext, Apply, Halt, Degrade, Stop, Climb, Recover
  <2>2. mode = "shadow"
      BY <2>1, StrategiesAssumption DEF Evaluate, PolicyReason, GovernorInv, GovernorTypeOK
  <2> QED BY <2>2 DEF GovernorInv, IncidentsHoldTheMode, LadderIsApproved
<1> QED BY <1>1, GovernorInvAlways, PTL DEF GovernorSpec, AllowedOnFirstRungOnly
=============================================================================
