SPECIFICATION ProcessLiveSpec
CONSTANTS
  p = p  q = q
  Procs = {p, q}  Broken = {q}
  Sources = {}  Drains = {}
  Fed = {p}  Tailed = {p}
  MaxOut = 2  MaxIn = 2
  File = File  SharedBuf = SharedBuf  Nil = Nil
INVARIANTS ProcessTypeOK OutputNotLost
PROPERTIES WritesReturn TailEnds RunReturns
CHECK_DEADLOCK FALSE
