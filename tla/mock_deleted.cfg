SPECIFICATION Spec
CONSTANTS
  Functions <- MCFunctions
  Mocks <- MCMocks
  Owner <- MCOwner
  Reaction <- MCReaction
  Args <- MCArgs
  Matchers <- MCMatchers
  IntMax = 9
  SequenceNames = {"s"}
  Threads = {t1, t2}
  Free = Free
  Tests <- MCTests
  MaxStarted = 3
CHECK_DEADLOCK FALSE
INVARIANT ReportsFromKept
