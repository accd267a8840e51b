SPECIFICATION FairSpec
CONSTANTS
  Calls <- AllOps
  Sizes = {0, 1}
  MaxWrites = 3
  MaxOpened = 2
  SizeMax = 7
INVARIANTS
  TypeOK PendingMatches CloseOnceAfterError WritesInOrder
  NoUseAfterFree
PROPERTIES
  DestroyedIsFinal KeepsPromise PutOffTakesEffect
CHECK_DEADLOCK FALSE
