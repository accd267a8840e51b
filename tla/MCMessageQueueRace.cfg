SPECIFICATION Spec
CONSTANTS
  Posters = {p1}
  MaxPosts = 2
  MaxOpens = 2
INVARIANT EmptyWhenOpened
CHECK_DEADLOCK FALSE
