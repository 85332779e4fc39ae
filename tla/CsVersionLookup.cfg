SPECIFICATION Spec
CONSTANTS
  Capacity = 3
  MaxData = 2
  NsPerMs = 1
  Wrap = 1000
  Paths <- TwoVersions
  Lengths = {1}
  Lifetimes = {0}
  Budgets = {0}
  MaxTime = 4
INVARIANTS VersionIsAddressable
CHECK_DEADLOCK FALSE
