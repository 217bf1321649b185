\* Four threads, so that each of two flags has a caller that runs and one that
\* waits in the condition variable they share.
CONSTANTS
  Threads = {t1, t2, t3, t4}
  Flags = {f1, f2}
  MaxThrows = 1
SPECIFICATION FairSpec
INVARIANTS
  FlagExact
  NoLostWakeup
PROPERTIES
  ImplementsOnce
  EveryCallEnds
