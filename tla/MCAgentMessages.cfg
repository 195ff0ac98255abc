SPECIFICATION Spec
CONSTANTS
  Base = 256
  WordBytes = 3
  MaxOidLen = 12
  MaxValue = 63
  MaxCommunity = 4
  MaxResponse = 110
  MaxDatagram = 96
  MaxFd = 2
  Destinations = 2
  IpAddresses <- SomeAddresses
  DeviceOid <- Device
  Community <- Public
  FirstRequestId = 128
  MaxNotices = 1
  Clock = {16777215}
  Notices <- SomeNotices
  snmp_community <- Public
  snmp_community_write <- Private
  Requests <- SomeRequests
  Forms = {"whole", "padded", "cut"}
  Replies <- SomeReplies
INVARIANTS SocketsAllOrNone  DestinationsTold
           CallLeavesNothing RequestsReadAsMeant AnswersReadBack
CHECK_DEADLOCK FALSE
