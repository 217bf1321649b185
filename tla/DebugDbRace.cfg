\* Two threads make and destroy containers while others use iterators.
CONSTANTS
  Containers = {c1, c2, c3}
  Iterators = {i1, i2}
  Makers = {m1, m2}
  HashValues = {0, 1, 5}
  FailsAt = {}
  MaxCount = 4
  Null = null
  Unregistered = unregistered
SPECIFICATION Spec
INVARIANTS
  InternalChecksHold
