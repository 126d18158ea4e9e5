CONSTANTS
  Messages = {m1}
  Requests = {r1}
  Isolates = {w1, w2}
  Capacity = 0
  Uncloneable = {}
  Corrupt = {}
  Unasked = Unasked
  Waiting = Waiting
  Done = Done
  Failed = Failed
SPECIFICATION Spec
INVARIANT DoneIsFinal
