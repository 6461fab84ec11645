SPECIFICATION FairSpec
CONSTANTS
  Viewer = {v1}
  InboxCap = 2
  MaxChanges = 2
  StreamFaults = {}
CHECK_DEADLOCK FALSE
PROPERTIES
  ReceivesEveryScore
