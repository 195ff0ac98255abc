SPECIFICATION Spec
CONSTANTS
  Requests <- AllRequests
  Mib <- SmallMib
  Capacity = 5
  MaxErrorIndex = 6
  Changing <- ChangingRequests
INVARIANTS
  TypeOK
  GetAnswersEveryVarbind
  ErrorNamesFirstFailure
  ResponseFitsVersion
  BulkAnswerIsMaximalPrefix
  CallbacksAfterFullSet
  OnlyAuthorizedWrites
  SetAllOrReported
  NothingLeaked
PROPERTIES
  ProcessedIsAnswered
  Termination
CHECK_DEADLOCK FALSE
