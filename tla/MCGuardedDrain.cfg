SPECIFICATION SuiteSpec
CONSTANTS
  h1 = h1
  h2 = h2
  None = None
  Parts = {"lease", "drift", "faults", "solo"}
  Holders <- MCHolders
  Duration = 1
  MaxAttempts = 2
  MaxClock = 2
  MaxFaults = 1
  MaxVersions = 3
SYMMETRY MCSymmetry
CHECK_DEADLOCK FALSE
INVARIANTS
  HeldForDuration
  DrainIsAsRecorded
  AtMostOneStaleMutation
PROPERTIES
  ReleasesOnlyOwn
  ProgressNeverLost
