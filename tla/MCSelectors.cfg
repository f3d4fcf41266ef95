SPECIFICATION Spec
CONSTANTS
  Fd = {1, 2, 3}
  Bits = {"READ", "WRITE"}
  Places = 1
  Ready <- MCReady
INVARIANTS
  KeventSucceeds
  EventsFit
PROPERTIES
  EpollSelects
  PollSelects
  SelectSelects
  KqueueSelects
