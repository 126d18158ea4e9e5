CONSTANTS
  Requests = {r1, r2, r3, r4}
  Failing = {r4}
  Isolates = {w1, w2, w3}
  None = None
SPECIFICATION FairSpec
INVARIANTS MutualExclusion NoLostUpdate FirstComeFirstServed
PROPERTIES ReadsCommitted EveryLockSettles
