SPECIFICATION Spec
CONSTANTS
  BUFFER_SIZE = 3
  HeaderSize = 2
  Lengths = {1, 3}
  Replies = {1, 4}
  SndCap = 2
  MaxBytes = 3
  MaxReplies = 1
  MaxCloses = 0
INVARIANTS
  SendsWhatWasWritten
CHECK_DEADLOCK FALSE
