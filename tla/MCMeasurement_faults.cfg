SPECIFICATION FairSpec
CONSTANTS
  Bot = {b1, b2}
  FirstBots = {b1}
  ChannelCap = 1
  ReadLimit = 2
  MaxOrders = 3
  MaxTicks = 1
  InsertFails = TRUE
  MayShutDown = TRUE
CHECK_DEADLOCK FALSE
INVARIANTS
  TypeOK
  Conservation
  RowsAddUp
  PanicNeedsWebSocket
PROPERTIES
  WindowEnds
