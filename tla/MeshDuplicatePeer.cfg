SPECIFICATION Spec
CONSTANTS
  p1 = p1
  p2 = p2
  x = x
  y = y
  Ids = {p1, p2}
  NoId = NoId
  Addrs = {a1}
  Prefixes = {x, y}
  PrefixLists <- MCPrefixLists
  Lifetimes = {0, 1}
  MaxPeers = 3
  MaxFib = 3
  MaxPrefixes = 2
  PeerTimeout = 1
  BeaconLifetime = 1
  Wrap = 1000
  MaxTime = 2
SYMMETRY Symmetry
INVARIANTS PeersDistinct
