SPECIFICATION Spec
CONSTANTS
  Names = {m, n}
  NoName = NoName
  Routed = {m}
  NumPeers = 1
  MaxPending = 3
  StoreSlots = 1
  Timeout = 2
  Freshness = 2
  MaxFetches = 2
INVARIANT SlotsInTable
