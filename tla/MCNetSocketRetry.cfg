SPECIFICATION Spec
CONSTANTS
  Calls <- RetryOps
  Sizes = {0, 1}
  MaxWrites = 1
  MaxOpened = 2
  SizeMax = 7
INVARIANT AssertionsHold
CHECK_DEADLOCK FALSE
