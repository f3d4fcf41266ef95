SPECIFICATION Spec
CONSTANTS
  BUFFER_SIZE = 3
  HeaderSize = 2
  Lengths = {1, 3}
  Replies = {1, 4}
  SndCap = 2
  MaxBytes = 9
  MaxReplies = 2
  MaxCloses = 1
INVARIANTS
  TypeOK
  BufferKeepsBytes
  NothingLeftBehind
PROPERTY
  ChannelKept
CHECK_DEADLOCK FALSE
