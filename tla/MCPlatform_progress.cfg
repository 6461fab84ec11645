SPECIFICATION FairSpec
CONSTANTS
  Sub = {s1}
  Run = {r1, r2}
  Client = {c1, c2}
  NoSub = NoSub
  NoRun = NoRun
  MaxScore = 1
  Faults = {"docker", "disk"}
INVARIANTS
  QueuedIsHeld
PROPERTIES
  RunsEnd
  SubmissionsSettle
  KeepsLedgerFairly
