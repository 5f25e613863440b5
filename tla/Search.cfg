SPECIFICATION Spec
CONSTANTS
  Empty = Empty
  Nibbles <- MCNibbles
  Hashes <- MCHashes
  Node <- MCNode
  Short <- MCShort
  EmptyRoot = "empty"
  Entries <- MCEntries
  Height <- MCHeight
  Values <- MCValues
  MaxProofNodes = 4
  Heads <- MCHeads
  States <- MCStates
  Proofs <- MCProofs
  ListsFor <- MCListsFor
  AccountKey <- MCAccountKey
  SlotKey <- MCSlotKey
  EmptyAccount <- MCEmptyAccount
  MaxEvidence = 4
  MaxSnapshotAccounts = 4
  MaxUint = 10000
  Registry <- MCRegistry
  Specs <- MCSpecs
  TokenWidth = 2
  WordWidth = 10
  MaxFeeDenominator = 10
  MinRouteHops = 2
  MaxRouteHops = 3
  MaxRoutes = 4
  MaxSteps = 19
  MaxSearchWork = 9
  Requests <- MCRequests
  MaxUniverses = 1
  MaxReports = 1
  MaxLost = 1
INVARIANTS
  OneProofPerKey
  ProofsTellTheState
  ReportSpeaksForOneState
  OpportunitiesAreSwappable
  ReportIsExhaustive
CHECK_DEADLOCK FALSE
