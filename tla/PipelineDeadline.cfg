SPECIFICATION LiveSpec
CONSTANTS
  s1 = s1  s2 = s2  s3 = s3
  Procs = {s1, s2}
  Stages <- TwoStages
  Broken = {}
  Sources = {s1}  Drains = {}
  Fed = {}  Tailed = {}
  Timeout = TRUE
  MaxOut = 2  MaxIn = 1
  File = File  SharedBuf = SharedBuf  Nil = Nil
PROPERTIES DeadlineEndsRun
CHECK_DEADLOCK FALSE
