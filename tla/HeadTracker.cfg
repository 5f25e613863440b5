SPECIFICATION Spec
CONSTANTS
  Claims <- TreeClaims
  Streams = {"own", "other"}
  OwnStream = "own"
  MaxSequence = 5
  MaxTrackedHeads = 4
  Zero = "zero"
  None = "none"
INVARIANTS
  Rooted
PROPERTIES
  NodesAreImmutable
  OrphanIffUnconnected
  ImplementsCanonicalChain
