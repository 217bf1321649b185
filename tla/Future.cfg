\* The program stops when the state is deleted and the producers have exited.
CONSTANTS
  Producers = {p1, p2}
  Consumers = {c1, c2, c3}
  Promise = promise
  Maker = maker
SPECIFICATION FairSpec
CHECK_DEADLOCK FALSE
INVARIANTS
  Inv
  NoUseAfterFree
  SomebodyWillAnswer
  StoreNeverRefused
PROPERTIES
  ImplementsOneShot
  EveryWaitEnds
