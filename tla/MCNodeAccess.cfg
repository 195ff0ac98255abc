SPECIFICATION Spec
CONSTANTS
  Netifs <- MCNetifs
  Pcbs <- MCPcbs
  WalkStarts <- MCWalkStarts
  Probes <- MCProbes
  MaxChanges = 3
  MaxWalk = 4
  Names = {4, 6}
  BufferSize = 2
  Texts <- MCTexts
  DefaultText <- MCDefaultText
  DefaultTTL = 64
  Numbers = {1, 2, 64}
  MaxSettings = 2
  MaxSets = 3
  s1 = s1
  s2 = s2
  Sessions = {s1, s2}
  SyncNodes <- MCSyncNodes
  SyncOids = {1, 2}
  MaxCalls <- MCMaxCalls
  NoSession = none
  e1 = e1
  e2 = e2
  e3 = e3
  e4 = e4
  Entries = {e1, e2, e3, e4}
  PrefixOf <- MCPrefixOf
  HandlerSet = {e1, e2, e3}
  Characters = {"0", "1", "2", "3", ".", "*"}
  Requested <- MCRequested
  MaxInstalls = 5
  NoEntry = none
  Star = "*"
  OctetBits = 2
  ValueBits = 4
  CounterSize = 8
INVARIANTS
  AnswersMatchTable
  StableRowsVisited
  OwnAnswer
  SetsReadBack
  FirstInstalledIsCalled
PROPERTIES
  EveryCallReturns
CHECK_DEADLOCK FALSE
