SPECIFICATION FairSpec
CONSTANTS
  Writers = {w1, w2}
  Readers = {r1}
  Temps = {t1, t2}
  Target = target
  Inodes = {n1, n2, n3}
  None = none
  MaxFaults = 1
  MaxCrashes = 1
INVARIANTS
  PublishedIsComplete
  AcknowledgedIsDurable
  UndisturbedReadsAgree
PROPERTIES
  RollbackSparesOthers
  SomeWriterPublishes
CHECK_DEADLOCK FALSE
