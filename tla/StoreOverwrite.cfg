SPECIFICATION Spec
CONSTANTS
  Writers = {w1, w2}
  Readers = {r1}
  Temps = {t1, t2}
  Target = target
  Inodes = {n1, n2, n3}
  None = none
  MaxFaults = 1
  MaxCrashes = 0
INVARIANT NoOverwrite
CHECK_DEADLOCK FALSE
