SPECIFICATION SuiteSpec
CONSTANTS
  Callers = {c1, c2}
  Details = {d1}
  NoDetail = NoDetail
  MaxCalls = 4
  Parts = {"kubernetes", "file"}
SYMMETRY Symmetry
CHECK_DEADLOCK FALSE
INVARIANTS
  ClaimAtMostOnce
  FinalizationAgreement
  FileGrantsAreDurable
PROPERTIES
  ImplementsLifecycle
  FileImplementsLifecycle
