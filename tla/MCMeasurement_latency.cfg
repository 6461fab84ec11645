SPECIFICATION Spec
CONSTANTS
  Bot = {b1, b2}
  FirstBots = {b1}
  ReadLimit = 4
  ChannelCap = 1
  MaxOrders = 3
  MaxTicks = 1
  InsertFails = FALSE
  MayShutDown = FALSE
CHECK_DEADLOCK FALSE
INVARIANTS
  AckedIsTimed
