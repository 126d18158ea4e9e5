CONSTANTS
  Tasks = {k1, k2}
  AsyncTasks = {}
  Clients = {main}
  MaxThreads = 3
  InitialPool = 2
  MaxPool = 2
  Calls = {"Submit", "SubmitToWorker", "Resize"}
  MaxSpurious = 0
  None = None
SPECIFICATION FairSpec
INVARIANTS SingleOwner
PROPERTY ResizeReturns
CHECK_DEADLOCK FALSE
