SPECIFICATION SuiteSpec
CONSTANTS
  Parts = {"transfer", "rivals", "anchor", "restored"}
  a = a
  b = b
  c = c
  c1 = c1
  c2 = c2
  r1 = r1
  r2 = r2
  None = None
  Devices = {a, b, c}
  Source = a
  Members = {m1, m2, m3}
  Threshold = 2
  Operators = {o1, o2}
  MaxHistory = 2
  MaxAuthorizations = 1
  MaxFaults = 2
SYMMETRY Symmetry
CHECK_DEADLOCK FALSE
PROPERTIES
  TransferKeepsHistory
  AnchorKeepsHistory
