CONSTANTS
  Items = {i1, i2, i3}
  Thieves = {h1, h2}
  InitialCapacities = {1, 8}
  ShrinkFloor = 1
  None = None
SPECIFICATION FairSpec
SYMMETRY ItemSymmetry
INVARIANTS TypeOK ExactlyOnce EmptyPopIsEmpty CapacityIsPowerOfTwo
PROPERTIES AtomicSpec StealReturns
