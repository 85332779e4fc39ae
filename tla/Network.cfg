SPECIFICATION FairSpec
CONSTANTS
  client = client
  relay = relay
  origin = origin
  Nodes <- Three
  Name <- Page
  Fib <- RelayFib
  Peers <- RelayPeers
  Publishers = {origin}
  Clients = {client, relay}
  Lifetimes = {0, 1}
  MaxTransit = 1
  MaxPackets = 1
  MaxHops = 3
  MaxPublish = 2
INVARIANTS AgeBoundedByHops
PROPERTIES RetryReaches
