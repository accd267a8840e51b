SPECIFICATION Spec
CONSTANTS
  MaxRequests = 2
  MaxChunks = 1
  Kinds = {"str"}
  Heads <- Chunked
  PeerEnds = FALSE
  Requests <- Plain
INVARIANTS
  AsSaid
CHECK_DEADLOCK FALSE
