SPECIFICATION Spec
CONSTANTS
  Conns = {c1,c2}
  MaxRequests = 2
  Chunks = 2
  MaxFree = 2
  MaxPauses = 2
  ReadsAll = TRUE
  Nulls = TRUE
  Events = {"data", "newListener"}
  Listeners = {f, g, h}
  Habits = {"none", "duplicates", "removes", "clears", "reenters"}
  MaxEntries = 3
  MaxDepth = 3
SYMMETRY Permuted
INVARIANTS
  FreeIsUnused DataInOrder EachCalledOnce OnceIsOnce
PROPERTY SilentWhilePaused
CHECK_DEADLOCK FALSE
