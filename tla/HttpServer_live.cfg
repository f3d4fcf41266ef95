SPECIFICATION FairSpec
CONSTANTS
  MaxConn = 2
  MaxFd = 1
  MaxSend = 2
  SndCap = 1
PROPERTIES
  BacklogServed
  ClosingCloses
