CONSTANTS
  f1 = f1
  f2 = f2
  f3 = f3
  f4 = f4
  s1 = s1
  s2 = s2
  Workers = {w1, w2}
  Main = Main
  Functions = {f1}
  Reactions = {}
  Async = {}
  Failing = {}
  Batches <- ExitBatches
  Sleeps = {}
  Programs <- ExitPrograms
  None = None
SPECIFICATION FairSpec
PROPERTY MessageLoopEnds
CHECK_DEADLOCK FALSE
