SPECIFICATION Spec
CONSTANTS
  MaxConn = 1
  MaxFd = 1
  MaxSend = 1
  SndCap = 1
INVARIANTS
  CloseFindsHandle
