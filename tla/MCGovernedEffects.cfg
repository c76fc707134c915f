SPECIFICATION SuiteSpec
CONSTANTS
  g1 = g1
  g2 = g2
  g3 = g3
  d1 = d1
  d2 = d2
  None = None
  Parts = {"crm", "takeover", "retry", "journal", "verify", "power"}
  Procs = {p1, p2}
  Attempts = {a1}
  Fields = {f1, f2}
  MaxVersion = 2
  MaxCalls = 3
SYMMETRY Symmetry
CHECK_DEADLOCK FALSE
INVARIANTS
  PatchOnceAndRecorded
PROPERTIES
  ClosureIsHonest
  EffectEntersOnce
  
