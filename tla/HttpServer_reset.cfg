SPECIFICATION FairSpec
CONSTANTS
  MaxConn = 1
  MaxFd = 1
  MaxSend = 1
  SndCap = 1
PROPERTIES
  ResetCloses
