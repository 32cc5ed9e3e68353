SPECIFICATION FairSpec
CONSTANTS
  Messages = {a, b, c}
  Filtered = {c}
  QueueSizes <- QueueSizesDef
  ChannelSize = 2
  Timeouts = {TRUE, FALSE}
  MaxAccepted = 5
INVARIANT NothingLostWhileOpen
INVARIANT OwnerSeesPrefix
INVARIANT SingleConsumer
PROPERTY CloseReleasesConsumer
