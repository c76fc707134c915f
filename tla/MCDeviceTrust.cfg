SPECIFICATION SuiteSpec
CONSTANTS
  Parts = {"attestation", "collection", "challenges", "race", "restored", "ceremonies", "root", "copies", "migration"}
  v1 = v1
  v2 = v2
  e1 = e1
  e2 = e2
  r1 = r1
  None = None
  Collectors = {x1}
  Verifiers = {v1}
  MaxChallenges = 1
  MaxClock = 1
  TTL = 1
  MaxLog = 3
  MaxFaults = 1
  MaxEvidence = 1
  Platforms = {"fw1", "fw2"}
  LockdownModes = {"integrity", "none"}
  Policies <- BothPolicies
SYMMETRY Symmetry
CHECK_DEADLOCK FALSE
INVARIANTS
  DecisionIsSound
PROPERTIES
  LineageIsAnchored
  
