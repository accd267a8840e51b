SPECIFICATION Spec
CONSTANTS
  MaxRequests = 3
  MaxChunks = 1
  Kinds = {"str", "buf"}
  Heads <- ThreeHeads
  PeerEnds = TRUE
  Requests <- Mixed
INVARIANTS
  InRequestOrder NoneStuck
  AsSaidUnlessDoubled
CHECK_DEADLOCK FALSE
