SPECIFICATION LiveSpec
CONSTANTS
  root = root  logger = logger  h1 = h1
  p1 = p1  p2 = p2  m1 = m1  m2 = m2  blank = blank  v1 = v1  v2 = v2
  None = None
  Handlers <- MCHandlers  Root = root  Logger = logger
  Procs <- MCProcs
  Writes <- MCWrites  Blank = blank  Wanted = m2
  Vals <- MCVals
  Timeouts = {0, 1}
  MaxLogs = 2
  Horizon = 2
INVARIANTS NothingLost FailureIsHonest
PROPERTIES RequireReturns
CHECK_DEADLOCK FALSE
