SPECIFICATION SuiteSpec
CONSTANTS
  Parts = {"containment", "renewal", "restart", "fence", "connect", "stream", "one cpu"}
  MaxAge = 2
  TTL = 2
  MaxTime = 3
  MaxBoot = 1
  MaxGeneration = 1
  MaxLeases = 1
  MaxRevocation = 2
  MaxFaults = 1
  Moves = {"reused", "moved"}
  Revokers = {"contain", "watchdog"}
  None = None
CHECK_DEADLOCK FALSE
INVARIANTS
  LostTrustIsRevoked
  KernelAllowsCurrent
PROPERTIES
  RenewalNeverRevives
  EvidenceIsAccounted
