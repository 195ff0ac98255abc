SPECIFICATION Spec
CONSTANTS
  Requests <- Informs
  Mib <- SmallMib
  Capacity = 5
  MaxErrorIndex = 127
  Changing = {}
PROPERTY AnswerToInformEnds
CHECK_DEADLOCK FALSE
