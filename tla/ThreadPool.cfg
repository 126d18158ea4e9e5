CONSTANTS
  Tasks = {k1, k2}
  AsyncTasks = {k2}
  Clients = {main}
  MaxThreads = 2
  InitialPool = 2
  MaxPool = 2
  Calls = {"Submit", "SubmitFromWorker", "SubmitToWorker", "Terminate"}
  MaxSpurious = 1
  None = None
SPECIFICATION FairSpec
INVARIANTS TaskExactlyOnce ActiveTasksExact SleepersExact BoundToThread TearDownSettlesAll
PROPERTIES NotifiedTaskRuns SubmittedTaskRuns TearDownCompletes
CHECK_DEADLOCK FALSE
