SPECIFICATION Spec
CONSTANTS
  Names <- MCNames
  Lower <- MCLower
  Lines = {1, 2, 3, 4}
  NoBody = NoBody
  NoStmt = NoStmt
  NoCallback = NoCallback
  NoSelect = NoSelect
  Files <- NilFiles
INVARIANTS
  Survives
CHECK_DEADLOCK FALSE
