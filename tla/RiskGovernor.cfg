SPECIFICATION GovernorSpec
CONSTANTS
  Approved = {"atomic-dex-arbitrage", "liquidation"}
  Prohibited = {"sandwich"}
  Unknown = "unregistered"
INVARIANTS IncidentsHoldTheMode LadderIsApproved
