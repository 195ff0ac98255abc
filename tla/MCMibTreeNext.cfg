SPECIFICATION Spec
CONSTANTS
  MaxArc = 4
  MibSets <- SomeMibSets
  Oids <- NearbyOids
  MaxHidden = 0
INVARIANTS GetNextIsNext
CHECK_DEADLOCK FALSE
