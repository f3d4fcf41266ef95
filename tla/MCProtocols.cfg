SPECIFICATION ProtocolsSpec
CONSTANTS
  IntBits = 15
  LongBits = 28
  SizeofInt = 2
  Texts <- MCTexts
  Numbers <- MCNumbers
  Prefix <- MCPrefix
  MaxRequests = 2
  Half = 8
  Width2 = 1
  Width8 = 2
  MaxFrames = 2
  Frames <- MCFrames
  Lead <- MCLead
INVARIANTS
  AnswersMatch
  OnlyZerosAreRefused
  FramesArrive
PROPERTY
  AnsweredInTheEnd
CHECK_DEADLOCK FALSE
