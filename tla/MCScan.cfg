SPECIFICATION Spec
CONSTANTS
  Names <- MCNames
  Lower <- MCLower
  Lines = {1, 2, 3, 4}
  NoBody = NoBody
  NoStmt = NoStmt
  NoCallback = NoCallback
  NoSelect = NoSelect
  Files <- MCFiles
INVARIANTS
  TypeOK
  FirstUse
  Verdict
  ParamsChecked
PROPERTIES
  Terminates
CHECK_DEADLOCK FALSE
