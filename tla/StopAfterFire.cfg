SPECIFICATION Spec
CONSTANTS
  p1 = p1  p2 = p2  k1 = k1  m1 = m1  a1 = a1
  NoProc = NoProc
  Tickers = {}  Timers = {m1}  Afters = {}
  Procs = {p1}  Advancers = {p1}
  Durations = {1}
  Steps = {1}
  SetTimes = {}
  MaxID = 2
  Horizon = 2
PROPERTIES StopReportsPending
CHECK_DEADLOCK FALSE
