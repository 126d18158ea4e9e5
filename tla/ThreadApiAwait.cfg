CONSTANTS
  f1 = f1
  f2 = f2
  f3 = f3
  f4 = f4
  s1 = s1
  s2 = s2
  Workers = {w1, w2}
  Main = Main
  Functions = {f1, f2}
  Reactions = {}
  Async = {f1, f2}
  Failing = {}
  Batches <- AwaitBatches
  Sleeps = {s1, s2}
  Programs <- AwaitPrograms
  None = None
SPECIFICATION FairSpec
PROPERTY PromisesSettle
CHECK_DEADLOCK FALSE
