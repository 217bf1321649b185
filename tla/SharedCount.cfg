\* Every thread may release what it likes: the program stops when all is freed.
CONSTANTS
  Threads = {t1, t2, t3}
  Handles = {h1, h2, h3, h4}
  Group = group
  Self = self
SYMMETRY Symmetry
SPECIFICATION Spec
CHECK_DEADLOCK FALSE
INVARIANTS
  CountsExact
  NoUseAfterFree
  NoLeak
PROPERTIES
  ImplementsOwnership
