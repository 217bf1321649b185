SPECIFICATION Spec
CONSTANTS
  Characters = {1, 2}
  Alsizes = {0, 1}
  DefaultAlsize = 2
  MaxSize = 4
  MaxOperations = 8
INVARIANT ReaderFindsWhatIsPut
CHECK_DEADLOCK FALSE
