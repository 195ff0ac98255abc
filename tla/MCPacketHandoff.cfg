\* Peers that leave room, and peers that send more than the slots and the queue hold.
SPECIFICATION FairSpec
CONSTANTS
  NSlots = 3
  Windows = {2, 4}
  QueueLen = 2
  MaxPackets = 5
INVARIANTS
  TypeOK
  RequestIntact
  NotifiedPacketPresent
  RoomyRunsDoNotRace
  ClearsOnlyItsOwn
PROPERTIES
  ImplementsReliableHandoff
  EveryPacketFinished
CHECK_DEADLOCK FALSE
