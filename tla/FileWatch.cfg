SPECIFICATION Spec
CONSTANTS
  Module = {1}
  Class = {"C"}
  NewStyle = {"C"}
  Method = {"f"}
  Special = {}
  Sources <- MCSameSource
  MaxLoads = 3
  MaxPath = 2
  MaxName = 3
  MaxInode = 3
  MaxQueue = 2
  ReadSize = 2
INVARIANTS
  TypeOK
  EventsAreKnown
  KernelAgrees
  WatchFollowsPath
PROPERTIES
  TouchIsTold
CHECK_DEADLOCK FALSE
