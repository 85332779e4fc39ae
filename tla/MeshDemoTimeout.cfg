SPECIFICATION DemoSpec
CONSTANTS
  x = x
  Ids = {p1}
  NoId = NoId
  Addrs = {a1}
  Prefixes = {x}
  PrefixLists <- MCPrefixLists
  Lifetimes = {0}
  MaxPeers = 3
  MaxFib = 3
  MaxPrefixes = 1
  PeerTimeout = 2
  BeaconLifetime = 2
  Wrap = 1000
  MaxTime = 4
PROPERTIES FreshPeerKept
