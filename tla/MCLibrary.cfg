SPECIFICATION Spec
CONSTANTS
  Maxcodes = {1114111, 2047}
  Headers = {TRUE, FALSE}
  MaxText = 2
  MaxBytes = 4
  Rooms = {2, 7}
  Streams = {s1, s2}
  Indices = {0, 2}
  MaxCallbacks = 2
  MaxStorageCalls = 4
  Characters = {1, 2}
  Alsizes = {0, 1}
  DefaultAlsize = 2
  MaxSize = 4
  MaxOperations = 7
  FracDigits = {0, 2}
  Locales = {l1, l2}
  FacetObjects = {c0, c1, f1, f2, f3}
  c0 = c0
  c1 = c1
  UserIds = {2, 3}
  MaxImps = 3
  MaxLocaleCalls = 4
  Letters = {46, 47, 97}
  Slash = 47
  Dot = 46
  MaxPath = 6
  Processes = {1, 2}
  Files = {1, 2, 3, 4, 5, 6}
  MaxFaults = 1
INVARIANTS
  MatchesReference
  RoundTrip
  ReadsWhatWasStored
  MemoryOwned
  ReportsTheOutcome
CHECK_DEADLOCK FALSE
