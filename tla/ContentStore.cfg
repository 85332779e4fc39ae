SPECIFICATION Spec
CONSTANTS
  Capacity = 3
  MaxData = 2
  NsPerMs = 1
  Wrap = 1000
  Paths <- TwoBases
  Lengths = {0, 1, 2, 3}
  Lifetimes = {0, 1}
  Budgets = {3}
  MaxTime = 5
INVARIANTS TypeOK BytesAccounted PlainNamesUnique EntriesSound
PROPERTIES GcLeavesNothingExpired StoreSparesNewest RefinesCache
CHECK_DEADLOCK FALSE
