SPECIFICATION FairSpec
CONSTANTS
  Viewer = {v1}
  InboxCap = 2
  MaxChanges = 3
  StreamFaults = {"db", "redis", "client"}
CHECK_DEADLOCK FALSE
INVARIANTS
  TypeOK
  NothingMissing
PROPERTIES
  NeverBackwards
  GoneIsReleased
  InboxIsShown
