CONSTANTS
  Threads = {t1, t2, t3, t4}
  Nobody = nobody
  MaxCount = 3
  Lockers = {t1, t2, t3}
  Mutexes = {1, 2, 3}
  Arguments <- SomeArguments
  Waiters = {t1, t2, t3}
  Setters = {t4, t5}
  Containers = {1, 2, 3}
  Iterators = {i1, i2}
  Makers = {t1}
  HashValues = {0, 1, 5}
  FailsAt = {"empty", "chain"}
  MaxNodes = 3
  Null = null
  Unregistered = unregistered
SPECIFICATION Spec
INVARIANTS
  Inv
  NothingOutlivesDestruction
  HoldsNothingBlocked
  RegistrationExact
PROPERTIES
  ImplementsLock
  ImplementsRegistry
  FreeMutexIsTaken
  EveryWaitReturns
