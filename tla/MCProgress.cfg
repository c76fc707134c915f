SPECIFICATION FairSuiteSpec
CONSTANTS
  Parts = {"drain", "expiry", "transfer", "unanimous", "transition", "recovery"}
  e1 = e1
  e2 = e2
  m1 = m1
  m2 = m2
  m3 = m3
  w1 = w1
  w2 = w2
  w3 = w3
  w4 = w4
  None = None
  Executors = {e1}
  Pods <- MCPods
  Initial = {1}
  MaxRuns = 2
  MaxDrift = 1
  MaxFaults = 1
CHECK_DEADLOCK FALSE
PROPERTIES
  WorkEnds
  InterruptedCompletes
