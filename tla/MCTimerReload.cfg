SPECIFICATION MCSpec
CONSTANTS
  Modulus = 8
  Delays = {0, 1, 6}
  MaxTimers = 3
  MaxTurn = 2
  MaxClock = 13
  Module = {1}
  Class = {"Old", "New"}
  NewStyle = {"New"}
  Method = {"f", "__init__"}
  Special = {"__init__"}
  Sources <- MCSources
  MaxLoads = 4
INVARIANTS
  TypeOK
  NeverEarly
  FiresInOrder
  FiresOnce
  NeverLate
  InstancesAreUpdated
CHECK_DEADLOCK FALSE
