\* A thread that cannot be started.
CONSTANTS
  Producers = {p1}
  Consumers = {c1, c2}
  Promise = promise
  Maker = maker
SPECIFICATION FairSpec
CHECK_DEADLOCK FALSE
PROPERTIES
  AsyncReturns
