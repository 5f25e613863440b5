SPECIFICATION Spec
CONSTANTS
  busy = busy
  quiet = quiet
  e1 = e1
  e2 = e2
  rare = rare
  Sources = {busy, quiet}
  Events = {e1, e2, rare}
  Observations <- Offered
  Times = {0, 1}
  SegmentIds = {i1, i2}
  Builders = {b1}
  MaxSegmentRecords = 2
  MaxFiles = 3
SYMMETRY Symmetry
INVARIANTS
  ReplayIsGapless
  CheckpointsSpeakForChain
  BuiltChainsReplay
CHECK_DEADLOCK FALSE
