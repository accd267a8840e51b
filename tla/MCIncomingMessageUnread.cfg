SPECIFICATION Spec
CONSTANTS
  Conns = {c1, c2}
  MaxRequests = 3
  Chunks = 1
  MaxFree = 2
  MaxPauses = 1
  ReadsAll = FALSE
  Nulls = FALSE
  Events = {}
  Listeners = {}
  Habits = {"none"}
  MaxEntries = 0
  MaxDepth = 1
SYMMETRY Permuted
INVARIANTS
  NoAssertionFails
CHECK_DEADLOCK FALSE
