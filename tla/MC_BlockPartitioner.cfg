\* Each method is partitioned in one step, so the behaviours stop there.
CONSTANTS
  MaxInsns = 3
  Targets = {0, 1, 2, 3, 4, 5, 6}
  NoTry = NoTry
SPECIFICATION Spec
INVARIANT BlocksFollowControlFlow
INVARIANT ExceptionEdgesExact
CHECK_DEADLOCK FALSE
