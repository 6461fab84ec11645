SPECIFICATION Spec
CONSTANTS
  Sub = {s1, s2}
  Run = {r1, r2}
  Client = {c1, c2}
  NoSub = NoSub
  NoRun = NoRun
  MaxScore = 2
  Faults = {"redis", "docker", "disk", "disconnect"}
SYMMETRY Symmetry
INVARIANTS
  StatusAgreement
  BoardIsBest
PROPERTIES
  KeepsLedger
