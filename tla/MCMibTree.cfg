SPECIFICATION Spec
CONSTANTS
  MaxArc = 4
  MibSets <- SomeMibSets
  Oids <- AnyOids
  MaxHidden = 1
INVARIANTS
  GetFindsInstance
  GetNextIsNextOnWalk
  SearchWithinMib
  OnlyResultHeld
PROPERTIES
  SearchAdvances
  SearchEnds
CHECK_DEADLOCK FALSE
