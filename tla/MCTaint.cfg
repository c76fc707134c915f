SPECIFICATION SuiteSpec
CONSTANTS
  Parts = {"flow", "readers", "recovery", "reboot"}
  Tasks = {t1, t2}
  ProcOf <- Pair
  Files = {f1, f2}
  Source <- Sources
  Allowed <- JustY
  Capacity = 2
  Overlap = FALSE
  MaxFaults = 1
  None = None
  t1 = t1
  t2 = t2
  p1 = p1
  p2 = p2
  f1 = f1
  f2 = f2
  lx = lx
  ly = ly
CHECK_DEADLOCK FALSE
INVARIANTS
  LabelsFollowReads
  EgressIsRecovered
PROPERTIES
  TaintNeverSlips
