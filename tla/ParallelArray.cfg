CONSTANTS
  plain = plain
  dropped = dropped
  throws1 = throws1
  throws2 = throws2
  zero = zero
  Modulus = 16
  Arrays <- SmallArrays
  PoolSizes = {1, 2, 3, 4}
  Initials <- SmallInitials
  Throwing = {throws1, throws2}
  Dropped = {dropped}
  None = None
SPECIFICATION Spec
INVARIANTS ChunksPartition 
CHECK_DEADLOCK FALSE
