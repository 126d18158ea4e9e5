CONSTANTS
  Messages = {m1, m2, m3, m4}
  Requests = {r1, r2}
  Isolates = {w1, w2, w3}
  Capacity = 1
  Uncloneable = {m4}
  Corrupt = {m3}
  Unasked = Unasked
  Waiting = Waiting
  Done = Done
  Failed = Failed
SPECIFICATION ReceivingSpec
INVARIANTS BackPressure NobodyWaitsInVain
PROPERTIES FifoSpec CloseReleasesReceivers SendersReleased
