SPECIFICATION Spec
CONSTANTS
  Claims <- TreeClaims
  Streams = {"own"}
  OwnStream = "own"
  MaxSequence = 5
  MaxTrackedHeads = 4
  Zero = "zero"
  None = "none"
INVARIANT ConnectedHeadsAreEmitted
