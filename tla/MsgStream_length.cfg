SPECIFICATION Spec
CONSTANTS
  BUFFER_SIZE = 3
  HeaderSize = 2
  Lengths = {1, 3}
  Replies = {1, 4}
  SndCap = 2
  MaxBytes = 9
  MaxReplies = 0
  MaxCloses = 0
INVARIANTS
  LengthIsPositive
CHECK_DEADLOCK FALSE
