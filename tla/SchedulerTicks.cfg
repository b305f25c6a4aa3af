SPECIFICATION LiveSpec
CONSTANTS
  p1 = p1  p2 = p2  k1 = k1  m1 = m1  a1 = a1
  NoProc = NoProc
  Tickers = {k1}  Timers = {m1}  Afters = {a1}
  Procs = {p1, p2}  Advancers = {p1}
  Durations = {1, 2}
  Steps = {1, 2}
  SetTimes = {}
  MaxID = 3
  Horizon = 2
INVARIANTS TickerRegular FiresSorted NothingOverdue
PROPERTIES StoppedTickerIsQuiet TicksInOrder CallsReturn
CHECK_DEADLOCK FALSE
