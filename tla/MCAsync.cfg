SPECIFICATION LoopSpec
CONSTANTS
  Posters = {w1, w2}
  Main = main
  MaxTasks = 3
  MaxPosts = 3
  MaxOpens = 2
  MaxAlone = 2
  Delays = {0, 2, 3}
  TimeoutMax = 2
  Reactions = {"destroy", "off", "again", "write"}
  ClearsLate = FALSE
  MaxTimers = 3
INVARIANTS
  QuietIsLossless CallbacksOnce TimersSound
PROPERTIES
  SilentWhenClosed LoopDelivers
CHECK_DEADLOCK FALSE
