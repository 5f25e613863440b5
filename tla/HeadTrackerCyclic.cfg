SPECIFICATION Spec
CONSTANTS
  Claims <- CyclicClaims
  Streams = {"own"}
  OwnStream = "own"
  MaxSequence = 5
  MaxTrackedHeads = 4
  Zero = "zero"
  None = "none"
INVARIANT KnownParentsConsistent
