SPECIFICATION SuiteSpec
CONSTANTS
  w1 = w1
  w2 = w2
  w3 = w3
  w4 = w4
  v1 = v1
  v2 = v2
  cOld = cOld
  cNew = cNew
  r1 = r1
  j1 = j1
  j2 = j2
  e1 = e1
  e2 = e2
  t1 = t1
  t2 = t2
  None = None
  Parts = {"quorum", "rotation", "requests", "journals", "governance"}
  Witnesses = {w1, w2, w3, w4}
  Clients = {cOld, cNew}
  MaxLength = 2
  MaxLate = 1
  MaxCalls = 2
  Rotators = {r1}
  Kinds = {"succession"}
  MaxRuns = 2
  Ops = {"advance"}
  Entry <- MCEntry
  Members <- MCMembers
  Threshold <- MCThreshold
  Bound <- MCBound
  Enrolled <- MCEnrolled
  Shared <- MCShared
CHECK_DEADLOCK FALSE
INVARIANTS
  OneQuorumLives
PROPERTIES
  SettledStays
  AuthoritiesExclude
  RemoteIsRegister
