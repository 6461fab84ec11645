SPECIFICATION FairSpec
CONSTANTS
  Sub = {s1}
  Run = {r1}
  Client = {c1}
  NoSub = NoSub
  NoRun = NoRun
  MaxScore = 1
  Faults = {"shutdown"}
PROPERTIES
  NotStuckInBuilding
