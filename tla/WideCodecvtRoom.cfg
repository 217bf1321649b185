\* A text of one null, and room for three bytes at a time.
CONSTANTS
  Encodings <- MCEncodings
  Characters = {0, 97, 233}
  Bytes = {97}
  MaxText = 3
  MaxBytes = 1
  Rooms = {2, 3}
SPECIFICATION Spec
INVARIANTS
  NothingSkipped
CHECK_DEADLOCK FALSE
