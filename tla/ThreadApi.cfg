CONSTANTS
  f1 = f1
  f2 = f2
  f3 = f3
  f4 = f4
  s1 = s1
  s2 = s2
  Workers = {w1, w2, w3}
  Main = Main
  Functions = {f1, f2, f3, f4}
  Reactions = {f4}
  Async = {f1}
  Failing = {f3}
  Batches <- ApiBatches
  Sleeps = {s1, s2}
  Programs <- ApiPrograms
  None = None
SPECIFICATION FairSpec
INVARIANTS WaitsForStarted PromiseTellsResult ActiveTasksCounted ExitLosesNothing
PROPERTIES  DisposeReturns
CHECK_DEADLOCK FALSE
