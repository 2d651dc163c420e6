SPECIFICATION Spec
CONSTANTS
  clean = clean
  bad = bad
  twice = twice
  star = star
  nilBody = nilBody
  error = error
  panic = panic
  Paths = {1, 2}
  Contents = {clean, bad, twice, star, nilBody}
  Diagnose <- MCDiagnose
  SyntaxError = error
  Panic = panic
  None = None
  ArgLists <- MCArgLists
  MaxSaves = 1
INVARIANTS
  TypeOK
PROPERTY Promised
CHECK_DEADLOCK FALSE
