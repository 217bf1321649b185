\* Four threads, so that three readers fill the count and one more waits.
CONSTANTS
  Threads = {t1, t2, t3, t4}
  NReaders = 3
SPECIFICATION FairSpec
INVARIANTS
  StateWordExact
  NoLostWakeup
  NoLostReaderWakeup
PROPERTIES
  ImplementsRWLock
  GateOpensAgain
