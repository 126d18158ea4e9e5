CONSTANTS
  Tasks = {k1}
  AsyncTasks = {}
  Clients = {main}
  MaxThreads = 1
  InitialPool = 1
  MaxPool = 1
  Calls = {"Submit"}
  MaxSpurious = 0
  None = None
SPECIFICATION FairSpec
PROPERTY SubmittedTaskRuns
CHECK_DEADLOCK FALSE
