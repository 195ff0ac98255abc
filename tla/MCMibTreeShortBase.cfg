SPECIFICATION Spec
CONSTANTS
  MaxArc = 4
  MibSets <- ShortMibSets
  Oids <- NearbyOids
  MaxHidden = 0
PROPERTY SearchEnds
CHECK_DEADLOCK FALSE
