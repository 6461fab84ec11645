SPECIFICATION Spec
CONSTANTS
  Sub = {s1}
  Run = {r1, r2, r3}
  Client = {c1, c2}
  NoSub = NoSub
  NoRun = NoRun
  MaxScore = 1
  Faults = {"db", "redis", "docker", "disk", "disconnect", "crash", "shutdown"}
SYMMETRY Symmetry
INVARIANTS
  TypeOK
  StagedBeforeRow
  BoardBacked
  Custody
PROPERTIES
  RunsNeverReopen
  NoneLeftBehind
