SPECIFICATION Spec
CONSTANTS
  Upload <- MCUpload
  Inside <- MCInside
  ZipNames <- MCZipNames
  MaxMB = 1
CHECK_DEADLOCK FALSE
INVARIANTS
  TypeOK
  SourcesIntact
  NothingElse
PROPERTIES
  StaysDeleted
