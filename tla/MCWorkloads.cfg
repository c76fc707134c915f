SPECIFICATION SuiteSpec
CONSTANTS
  Parts = {"recovery", "race", "restarts"}
  Sups = {s1, s2}
  MaxTime = 4
  MaxActs = 2
  MaxGrants = 2
  MaxBoot = 1
  MaxRemotes = 2
  MaxFaults = 1
  Verdicts = {"ALLOW"}
  Classes = {"SIGNAL"}
  GrantTTL = 2
  MaxAge = 2
  DecisionTTL = 2
  ReleaseTTL = 2
  MaxRestarts = 1
  Window = 3
  BaseBackoff = 1
  MaxBackoff = 2
  AllowClean = FALSE
  Reattest = {"SIGNAL"}
  None = None
SYMMETRY Symmetry
CHECK_DEADLOCK FALSE
INVARIANTS
  OneGovernedProcess
  RestartIsEarned
PROPERTIES
  LedgerMovesOn
