SPECIFICATION Spec
CONSTANTS
  p1 = p1  p2 = p2  k1 = k1  m1 = m1  a1 = a1
  NoProc = NoProc
  Tickers = {k1}  Timers = {m1}  Afters = {}
  Procs = {p1, p2}  Advancers = {p1, p2}
  Durations = {0, 1}
  Steps = {0, 2}
  SetTimes = {0, 2}
  MaxID = 3
  Horizon = 2
INVARIANTS TypeOK CurrentIsOnlyLive FiresOnce
PROPERTIES ImplementsSchedule
CHECK_DEADLOCK FALSE
