SPECIFICATION Spec
CONSTANTS
  Idents <- MCIdents
  DDLs <- KeyDDLs
  Files <- KeyFiles
  MaxRepairs = 6
INVARIANTS
  KeysIncluded
CHECK_DEADLOCK FALSE
