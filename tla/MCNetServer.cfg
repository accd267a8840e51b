SPECIFICATION FairSpec
CONSTANTS
  Clients = {c1, c2, c3}
  Calls <- PlainOps
  Limits = {2}
  MaxListens = 2
INVARIANTS
  TypeOK ConnectionsMatch CloseOnlyWhenDrained NoUseAfterFree
PROPERTIES
  CloseIsLast DrainedCloses
CHECK_DEADLOCK FALSE
