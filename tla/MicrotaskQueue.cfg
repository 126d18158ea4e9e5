CONSTANTS
  MinimumCapacity = 2
  MaxMicrotasks = 6
  MaxScopes = 3
  Programs = {{"scopes"}, {"callbacks"}, {"queues"}}
  Callbacks = {c1, c2}
  Queues = {default, q1, q2}
  Default = default
  None = None
SPECIFICATION FairSpec
INVARIANTS TypeOK CompletedCallbacks QueueChain MaskIsModulo
PROPERTIES FifoSpec MicrotasksRun
CHECK_DEADLOCK FALSE
