\* A second datagram arrives while the first one is being handled.
SPECIFICATION Spec
CONSTANTS
  NSlots = 2
  Windows = {2}
  QueueLen = 2
  MaxPackets = 3
INVARIANTS NoDataRace
CHECK_DEADLOCK FALSE
