SPECIFICATION Spec
CONSTANTS
  MaxConn = 2
  MaxFd = 2
  MaxSend = 3
  SndCap = 1
INVARIANTS
  TypeOK
  RegistryAgrees
  OneOwnerPerFd
  BatchStaysReady
  NoEventAfterClose
  OutputIsWatched
  ModeAgrees
PROPERTIES
  KeepsPromises
