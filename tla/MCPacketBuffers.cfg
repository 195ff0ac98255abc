SPECIFICATION StreamSpec
CONSTANTS
  a1 = a1
  a2 = a2
  a3 = a3
  NULL = NULL
  NoByte = NoByte
  Streams = {"request", "response"}
  StreamData <- SomeStreamData
  Shapes <- SomeShapes
  MaxHidden = 0
  Addresses = {a1, a2, a3}
  MaxLen = 2
  MaxHeld = 1
  Width = 4
  Alignment = 1
  Layers = {1}
  PoolSize = 2
  External <- SomeExternal
  Data <- SomeData
SYMMETRY Symmetry
INVARIANTS RefsArePointers ChainsWellFormed DataIsFlat
PROPERTIES ImplementsByteStream
CHECK_DEADLOCK FALSE
