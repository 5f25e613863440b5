---------------------------- MODULE RiskGovernor ----------------------------
(***************************************************************************)
(* The operating-mode governor of risk.py and the strategy policy of      *)
(* policy.py that reads the mode it publishes.                             *)
(*                                                                         *)
(* RiskGovernor.apply(event, context) is the only operation that changes   *)
(* the mode; an apply that raises TransitionRejected changes nothing.      *)
(*                                                                         *)
(* Two history variables the code does not keep record what the contexts   *)
(* accepted so far said, whatever the branch that accepted them:           *)
(* openIncidents, the incident events that took effect and that no         *)
(* accepted context has closed, and approvals, the accepted climbs of the  *)
(* mode ladder that carried human approval and acceptance evidence.        *)
(*                                                                         *)
(* GovernorInit, GovernorNext and GovernorSpec have names of their own so  *)
(* that one module can extend this one and RiskBudget, the other half of   *)
(* risk.py.                                                                *)
(***************************************************************************)
EXTENDS Naturals

CONSTANTS
  Approved,       \* the strategies of domain.Strategy
  Prohibited,     \* policy.PROHIBITED_STRATEGIES
  Unknown         \* any other identifier the policy may be asked about

ASSUME StrategiesAssumption ==
  /\ Approved \cap Prohibited = {}
  /\ Unknown \notin Approved \cup Prohibited

Modes == {"stopped", "shadow", "canary", "live", "degraded", "halted"}
IncidentModes == {"degraded", "halted"}

CriticalEvents == {"invariant-breach", "signer-anomaly", "daily-loss-limit"}
DegradedEvents == {"data-mismatch", "service-degraded"}
IncidentEvents == CriticalEvents \cup DegradedEvents
ClimbEvents == {"bootstrap-to-shadow", "promote-to-canary", "promote-to-live"}
Events == IncidentEvents \cup ClimbEvents \cup {"stop", "recover-to-shadow"}

\* TransitionContext: the three booleans a caller hands to apply.
Contexts == [human_approved : BOOLEAN,
             acceptance_evidence_valid : BOOLEAN,
             incident_closed : BOOLEAN]

Reasons == {"allowed-shadow-strategy", "unknown-strategy", "prohibited-strategy",
            "operating-mode-not-active", "f0-execution-disabled"}

VARIABLES
  mode,           \* RiskGovernor._mode
  decision,       \* reason of the last PolicyDecision, "none" before the first
  openIncidents,  \* history
  approvals       \* history

governorVars == <<mode, decision, openIncidents, approvals>>

GovernorInit ==
  /\ mode = "stopped"
  /\ decision = "none"
  /\ openIncidents = {}
  /\ approvals = 0

HumanEvidence(context) ==
  context.human_approved /\ context.acceptance_evidence_valid

\* What an accepted context says of the incidents reported so far.
StillOpen(context) ==
  IF context.incident_closed THEN {} ELSE openIncidents

\* A critical event halts whatever the mode and whatever the context.
Halt(event) ==
  /\ event \in CriticalEvents
  /\ mode' = "halted"
  /\ openIncidents' = openIncidents \cup {event}
  /\ approvals' = 0
  /\ UNCHANGED decision

Degrade_FromHalted(event) ==
  /\ event \in DegradedEvents
  /\ mode # "stopped"
  /\ mode' = "degraded"
  /\ openIncidents' = openIncidents \cup {event}
  /\ approvals' = 0
  /\ UNCHANGED decision

\* A degraded-service event degrades an active mode.  A stopped or halted
\* governor returns its mode unchanged.
Degrade(event) ==
  /\ event \in DegradedEvents
  /\ IF mode \in {"stopped", "halted"}
     THEN UNCHANGED <<mode, openIncidents, approvals>>
     ELSE /\ mode' = "degraded"
          /\ openIncidents' = openIncidents \cup {event}
          /\ approvals' = 0
  /\ UNCHANGED decision

Stop(context) ==
  /\ context.human_approved
  /\ mode \in IncidentModes => HumanEvidence(context) /\ context.incident_closed
  /\ mode' = "stopped"
  /\ openIncidents' = StillOpen(context)
  /\ approvals' = 0
  /\ UNCHANGED decision

\* Bootstrap and the two promotions climb one rung each.
ClimbFrom == [e \in ClimbEvents |->
  CASE e = "bootstrap-to-shadow" -> "stopped"
    [] e = "promote-to-canary"   -> "shadow"
    [] e = "promote-to-live"     -> "canary"]

ClimbTo == [e \in ClimbEvents |->
  CASE e = "bootstrap-to-shadow" -> "shadow"
    [] e = "promote-to-canary"   -> "canary"
    [] e = "promote-to-live"     -> "live"]

Climb_Unapproved(event, context) ==
  /\ event \in ClimbEvents
  /\ mode = ClimbFrom[event]
  /\ mode' = ClimbTo[event]
  /\ approvals' = IF HumanEvidence(context) THEN approvals + 1 ELSE approvals
  /\ UNCHANGED <<decision, openIncidents>>

Climb(event, context) ==
  /\ event \in ClimbEvents
  /\ mode = ClimbFrom[event]
  /\ HumanEvidence(context)
  /\ mode' = ClimbTo[event]
  /\ approvals' = IF HumanEvidence(context) THEN approvals + 1 ELSE approvals
  /\ UNCHANGED <<decision, openIncidents>>

Recover(context) ==
  /\ mode \in IncidentModes
  /\ HumanEvidence(context)
  /\ context.incident_closed
  /\ mode' = "shadow"
  /\ openIncidents' = StillOpen(context)
  /\ approvals' = IF HumanEvidence(context) THEN 1 ELSE 0
  /\ UNCHANGED decision

\* RiskGovernor.apply.  The branches are told apart by the event.
Apply(event, context) ==
  \/ Halt(event)
  \/ Degrade(event)
  \/ event = "stop" /\ Stop(context)
  \/ Climb(event, context)
  \/ event = "recover-to-shadow" /\ Recover(context)

PolicyReason(strategy, operatingMode) ==
  CASE strategy \in Prohibited -> "prohibited-strategy"
    [] strategy = Unknown      -> "unknown-strategy"
    [] strategy \in Approved   ->
         CASE operatingMode = "shadow"             -> "allowed-shadow-strategy"
           [] operatingMode \in {"canary", "live"} -> "f0-execution-disabled"
           [] OTHER                                -> "operating-mode-not-active"

\* StrategyPolicy.evaluate in the mode the governor publishes.
Evaluate(strategy) ==
  /\ decision' = PolicyReason(strategy, mode)
  /\ UNCHANGED <<mode, openIncidents, approvals>>

GovernorNext ==
  \/ \E event \in Events, context \in Contexts : Apply(event, context)
  \/ \E strategy \in Approved \cup Prohibited \cup {Unknown} : Evaluate(strategy)

GovernorSpec == GovernorInit /\ [][GovernorNext]_governorVars

-----------------------------------------------------------------------------
(***************************************************************************)
(* Properties                                                              *)
(***************************************************************************)

\* The state has its types; the ladder has three rungs.
GovernorTypeOK ==
  /\ mode \in Modes
  /\ decision \in Reasons \cup {"none"}
  /\ openIncidents \subseteq IncidentEvents
  /\ approvals \in 0..3

\* An incident that took effect keeps the governor out of every active mode,
\* and out of "stopped", until an accepted context says it is closed; a
\* critical one keeps it halted even when a degraded-service event follows
\* (risk.py:60-66, 70-75, 99).
IncidentsHoldTheMode ==
  /\ openIncidents # {} <=> mode \in IncidentModes
  /\ openIncidents \cap CriticalEvents # {} <=> mode = "halted"

\* The governor stands on a rung only after as many approved climbs: "live"
\* takes three since the last stop or incident, and a recovery starts over
\* from one (risk.py:78-102).
LadderIsApproved ==
  /\ mode = "shadow" => approvals = 1
  /\ mode = "canary" => approvals = 2
  /\ mode = "live"   => approvals = 3

Rank == [m \in Modes |->
  CASE m = "shadow" -> 1 [] m = "canary" -> 2 [] m = "live" -> 3 [] OTHER -> 0]

\* No apply gains more than one rung, recovery included (risk.py:78-102).
OneRungAtATime == [][Rank[mode'] <= Rank[mode] + 1]_governorVars

\* The policy comes to allow a strategy only while no incident is open and the
\* governor has been approved for the first rung and no further
\* (policy.py:38 "approved strategies may be evaluated in shadow mode only").
AllowedOnFirstRungOnly ==
  [][decision' = "allowed-shadow-strategy" /\ decision # decision'
       => openIncidents = {} /\ approvals = 1]_governorVars
=============================================================================
