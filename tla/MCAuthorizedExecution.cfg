SPECIFICATION SuiteSpec
CONSTANTS
  f1 = f1
  f2 = f2
  u1 = u1
  c1 = c1
  c2 = c2
  s1 = s1
  s2 = s2
  None = None
  Nobody = Nobody
  Torn = Torn
  NoFence = NoFence
  Parts = {"handlers", "late", "scopes"}
  Handlers <- MCAll
  Fenced <- MCFenced
  Instants = {1}
  MaxEpoch = 2
  MaxWorld = 2
  MaxPrepares = 2
  MaxExecutes = 2
SYMMETRY MCSymmetry
CHECK_DEADLOCK FALSE
INVARIANTS
  EnteredAtMostOnce
  AbortedNeverEntered
  ToldConsumedIsConsumed
  SupersededNeverEnters
PROPERTIES
  RootIsMonotonic
