SPECIFICATION LiveSpec
CONSTANTS
  s1 = s1  s2 = s2  s3 = s3
  Procs = {s1, s2, s3}
  Stages <- ThreeStages
  Broken = {}
  Sources = {}  Drains = {s2, s3}
  Fed = {s1}  Tailed = {}
  Timeout = TRUE
  MaxOut = 2  MaxIn = 1
  File = File  SharedBuf = SharedBuf  Nil = Nil
INVARIANTS EOFMeansAll OutcomeComplete
PROPERTIES PipelineReturns
CHECK_DEADLOCK FALSE
