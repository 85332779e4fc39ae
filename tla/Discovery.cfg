SPECIFICATION Spec
CONSTANTS
  Nodes <- Three
  Names <- TwoNames
  Fib <- TwoRoutes
  Neighbours <- OneNeighbour
  Nonces = {1, 2}
  Versions = {1, 2}
  MaxRecords = 1
  MaxHolders = 2
  MaxTopics = 1
  MaxSeen = 1
  MaxDhtPeers = 2
  Dist <- XorDist
  Publishers = {1}
  Askers = {2}
  Routers = {3}
  MaxSent = 1
  MaxCalls = 6
  Initially <- SomeHeld
INVARIANTS RecordsSound HoldersAnnounced PublishedIsFindable TopicsTruthful ForwardedOnce ClosestIsNearest
PROPERTIES HoldersKept PeersStay
CHECK_DEADLOCK FALSE
